---------------------------- MODULE StreamedRun ----------------------------
(***************************************************************************)
(* One paid call for one result, from its slot to its row, on either of    *)
(* the two ways a comparison is run, and the audit of the rows afterwards: *)
(*                                                                         *)
(*   stream  compare_stream's generator over stream_model.  The client     *)
(*           takes one frame at a time ("started", "delta" and "done" wait *)
(*           for it) and may disconnect at any of them; the wire may send  *)
(*           any frame at any time and end in any way.                     *)
(*   batch   compare's limited() over run_model: one response.             *)
(*                                                                         *)
(* The wire is external.  A frame of it is a record of a small set, Frames; *)
(* a comment frame changes nothing and is left out.                        *)
(*                                                                         *)
(* reconcile.py is a second process: one that applies holds the database's *)
(* lock, so it starts only when the server is down (BenchLock).  A dry run *)
(* may read beside the server too; it writes nothing, so it is left there. *)
(***************************************************************************)
EXTENDS ResultRecord, Sequences, FiniteSets

CONSTANTS
  Labels,     \* the ids, hosts and verdicts there are, "" for none
  Frames,     \* what the wire may send, beside its end: see Frame
  HeaderIds,  \* the ids a response's header may carry, "" when it has none
  Documents,  \* what the generation endpoint may answer
  LegacyRows, \* rows older code left in the database
  MaxFrames   \* bound: frames of one stream

Usages == [completion : Int, reasoning : Int, cost : Int, upstream : Int,
           byok : Flags \cup {"one"}]

\* kind: "chunk", "done" ([DONE]) or "junk" (not an object).  text: of the
\* delta, "none", "blank" or "visible".  choice: the chunk has a first choice.
Frame == [kind : {"chunk", "done", "junk"}, id : Labels, provider : Labels,
          usage : Usages \cup {NoUsage}, err : BOOLEAN, choice : BOOLEAN,
          finish : Labels, native : Labels, text : {"none", "blank", "visible"}]

Document == [cost : Int, upstream : Int, byok : Flags \cup {"one"},
             provider : Labels, quant : Labels, native : Labels, error : BOOLEAN]

Errors == {"none", "stalled", "failed", "no connection", "http", "upstream",
           "malformed", "incomplete", "aborted", "empty", "exhausted", "reasoned"}

\* A row as its columns hold it: older code's numbers may be no numbers.
StoredRow == [text : {"none", "visible"}, error : Errors, id : Labels,
              provider : Labels, finish : Labels, native : Labels,
              request : BOOLEAN, completion : Int, reasoning : Int, basis : Int,
              cost : Int, upstream : Int, byok : Flags, estimate : Int,
              quant : Labels]

ASSUME WireAssumption ==
  /\ Price \in Nat \cup {None}
  /\ MaxFrames \in Nat
  /\ Frames \subseteq Frame
  /\ "" \in HeaderIds /\ HeaderIds \subseteq Labels
  /\ Documents \subseteq Document
  /\ LegacyRows \subseteq StoredRow

VARIABLES
  pc,      \* where the call is
  path,    \* "stream" or "batch"
  result,  \* stream_model's or run_model's result
  parts,   \* compare_stream's text so far, as visible_or_none reads it
  holder,  \* what stream_model told the generator before its done event
  wire,    \* history: the header's id, then the frames that were read
  counted, \* recorded spend
  table,   \* the rows of results
  saved,   \* history: rows this call saved
  lost,    \* history: the process died, or a save failed
  todo,    \* reconcile: the rows still to look up, oldest first
  applying \* reconcile: --apply was given

callVars  == <<pc, path, result, parts, holder, wire>>
storeVars == <<counted, table, saved, lost>>
auditVars == <<todo, applying>>
vars == <<callVars, storeVars, auditVars>>

NoHolder == [id |-> "", provider |-> "", request |-> FALSE]

Amount == Nat \cup {None}

Result == [text : {"none", "visible"}, error : Errors, id : Labels,
           provider : Labels, finish : Labels, native : Labels,
           request : BOOLEAN, completion : Amount, reasoning : Amount,
           basis : Amount, cost : Amount, upstream : Amount, byok : Flags]

TypeOK ==
  /\ pc \in {"idle", "started", "connecting", "reading", "delta", "doneframe",
             "gathered", "over", "down"}
  /\ path \in {"none", "stream", "batch"}
  /\ result \in Result
  /\ parts \in {"none", "visible"}
  /\ holder \in [id : Labels, provider : Labels, request : BOOLEAN]
  /\ wire \in Seq(Frame \cup [header : Labels])
  /\ counted \in Nat
  /\ table \in Seq(StoredRow)
  /\ saved \in Nat
  /\ lost \in BOOLEAN
  /\ todo \subseteq Nat
  /\ applying \in BOOLEAN

Init ==
  /\ pc = "idle" /\ path = "none" /\ result = NewResult /\ parts = "none"
  /\ holder = NoHolder /\ wire = <<>> /\ counted = 0
  /\ table \in {<<>>} \cup {<<row>> : row \in LegacyRows}
  /\ saved = 0 /\ lost = FALSE
  /\ todo = {} /\ applying = FALSE

-----------------------------------------------------------------------------
(***************************************************************************)
(* Ending.                                                                 *)
(***************************************************************************)

\* save_run: the row is written, or the transaction raises and none is.
SaveRun(r) ==
  \/ /\ table' = Append(table, Row(r)) /\ saved' = saved + 1
     /\ UNCHANGED lost
  \/ lost' = TRUE /\ UNCHANGED <<table, saved>>

WithParts(r) == [r EXCEPT !.text = parts]

\* The result is whole: it is counted, and on a stream stored in the same
\* step (nothing in it awaits) while the done frame waits for the client; a
\* batch is stored when every model of it has answered.
Finish(r, error) ==
  LET final == Concluded(IF path = "stream" THEN WithParts(r) ELSE r, error) IN
  /\ result' = final
  /\ counted' = counted + ceiling_cost(final)
  /\ IF path = "stream" THEN SaveRun(final) /\ pc' = "doneframe"
     ELSE pc' = "gathered" /\ UNCHANGED <<table, saved, lost>>
  /\ UNCHANGED <<path, parts, holder>>

\* The row of a stream that never reached its done event.
AbortedRow ==
  [NewResult EXCEPT !.text = parts, !.error = "aborted", !.id = holder.id,
                    !.provider = holder.provider, !.request = holder.request]

\* Variant: the abort path forgets that a done event was handled.
Abort_twice ==
  /\ path = "stream" /\ pc \in {"started", "connecting", "reading", "delta", "doneframe"}
  /\ pc' = "over" /\ SaveRun(AbortedRow)
  /\ UNCHANGED <<path, result, parts, holder, wire, counted, auditVars>>

\* The generator is cancelled, at a yield or an await of its own, or what it
\* reads raises something that is not an httpx.HTTPError: its finally.
Abort ==
  /\ path = "stream" /\ pc \in {"started", "connecting", "reading", "delta"}
  /\ pc' = "over" /\ SaveRun(AbortedRow)
  /\ UNCHANGED <<path, result, parts, holder, wire, counted, auditVars>>

-----------------------------------------------------------------------------
(***************************************************************************)
(* compare_stream and stream_model, from a held slot.                      *)
(***************************************************************************)
Start ==
  /\ pc = "idle" /\ path' = "stream" /\ pc' = "started"
  /\ UNCHANGED <<result, parts, holder, wire, storeVars, auditVars>>

\* The client takes the started frame: stream_model records the request, in
\* the holder too, and posts it.
StartedTaken ==
  /\ pc = "started" /\ pc' = "connecting"
  /\ result' = [result EXCEPT !.request = TRUE]
  /\ holder' = [holder EXCEPT !.request = TRUE]
  /\ UNCHANGED <<path, parts, wire, storeVars, auditVars>>

\* A timeout or another httpx error, before the header or after it.
WireFails ==
  /\ pc = "connecting" \/ (pc = "reading" /\ path = "stream")
  /\ \E error \in {"stalled", "failed"} \cup
                  (IF pc = "connecting" THEN {"no connection"} ELSE {}) :
       Finish(result, error)
  /\ UNCHANGED <<wire, auditVars>>

\* The response begins: its header's id, then its status.
Respond ==
  /\ pc = "connecting"
  /\ \E id \in HeaderIds :
       LET r == settle_generation_id(result, id) IN
       /\ wire' = <<[header |-> id]>>
       /\ \/ /\ pc' = "reading" /\ result' = r
             /\ holder' = IF path = "stream" THEN settle_generation_id(holder, id)
                          ELSE holder
             /\ UNCHANGED <<path, parts, storeVars>>
          \/ Finish(r, "http")  \* not a 200
  /\ UNCHANGED auditVars

\* What a chunk brings, before its error and its choice are looked at.
Ingested(r, f) ==
  LET settled == settle_generation_id(r, f.id) IN
  ingest_usage([settled EXCEPT !.provider = IF @ = "" THEN f.provider ELSE @],
               f.usage)

\* The first choice's verdict: a blank one erases nothing.
Chosen(r, f) ==
  IF ~f.choice THEN r
  ELSE [r EXCEPT !.finish = Corrected(f.finish, @), !.native = Corrected(f.native, @)]

Chunk(f) ==
  LET told == Ingested(result, f)
      r    == Chosen(told, f)
  IN  \/ f.err /\ Finish(told, "upstream")
      \/ /\ ~f.err /\ result' = r
         /\ holder' = [holder EXCEPT !.id = r.id, !.provider = r.provider]
         /\ parts' = IF f.choice /\ f.text = "visible" THEN "visible" ELSE parts
         /\ pc' = IF f.choice /\ f.text # "none" THEN "delta" ELSE pc
         /\ UNCHANGED <<path, storeVars>>

\* One data line.
Read ==
  /\ pc = "reading" /\ path = "stream" /\ Len(wire) <= MaxFrames
  /\ \E f \in Frames :
       /\ wire' = Append(wire, f)
       /\ CASE f.kind = "done" -> Finish(result, "none")
            [] f.kind = "junk" -> Finish(result, "malformed")
            [] OTHER -> Chunk(f)
  /\ UNCHANGED auditVars

\* A clean end without [DONE] is a success only after a finish reason.
EndError == IF result.finish = "" THEN "incomplete" ELSE "none"

EndOfLines ==
  /\ pc = "reading" /\ path = "stream"
  /\ Finish(result, EndError)
  /\ UNCHANGED <<wire, auditVars>>

DeltaTaken ==
  /\ pc = "delta" /\ pc' = "reading"
  /\ UNCHANGED <<path, result, parts, holder, wire, storeVars, auditVars>>

\* The client takes the done frame, or is gone: either way it is over.
DoneTaken ==
  /\ pc = "doneframe" /\ pc' = "over"
  /\ UNCHANGED <<path, result, parts, holder, wire, storeVars, auditVars>>

-----------------------------------------------------------------------------
(***************************************************************************)
(* compare and run_model: the request is posted and one body comes back.   *)
(***************************************************************************)
Post ==
  /\ pc = "idle" /\ path' = "batch" /\ pc' = "connecting"
  /\ result' = [result EXCEPT !.request = TRUE]
  /\ UNCHANGED <<parts, holder, wire, storeVars, auditVars>>

\* The usage is read before the text is judged.
BodyRead(f) ==
  LET r == Chosen(Ingested(result, f), f) IN
  [r EXCEPT !.text = IF f.text = "visible" THEN "visible" ELSE "none"]

\* A body without a choice and its message is malformed, and not read.
Body ==
  /\ pc = "reading" /\ path = "batch"
  /\ \E f \in {g \in Frames : g.kind = "chunk"} :
       \/ f.choice /\ wire' = Append(wire, f) /\ Finish(BodyRead(f), "none")
       \/ ~f.choice /\ UNCHANGED wire /\ Finish(result, "malformed")
  /\ UNCHANGED auditVars

\* Every model of the batch has answered.
Gathered ==
  /\ pc = "gathered" /\ pc' = "over" /\ SaveRun(result)
  /\ UNCHANGED <<path, result, parts, holder, wire, counted, auditVars>>

\* The process dies: what it held is gone, the rows stay.
Crash ==
  /\ pc \notin {"idle", "over", "down"}
  /\ pc' = "over" /\ lost' = TRUE
  /\ UNCHANGED <<path, result, parts, holder, wire, counted, table, saved, auditVars>>

\* The server is down: the rows are what is left.
Down ==
  /\ pc = "over" /\ pc' = "down" /\ path' = "none"
  /\ result' = NewResult /\ parts' = "none" /\ holder' = NoHolder
  /\ wire' = <<>> /\ counted' = 0 /\ saved' = 0 /\ lost' = FALSE
  /\ UNCHANGED <<table, auditVars>>

-----------------------------------------------------------------------------
(***************************************************************************)
(* reconcile: read the work list once, then look up and write row by row.  *)
(***************************************************************************)
results_awaiting_reconciliation == {i \in DOMAIN table : awaiting(table[i])}

Reconcile ==
  /\ pc = "down" /\ todo = {}
  /\ applying' \in BOOLEAN
  /\ \E limit \in 1 .. Len(table) :
       todo' = {i \in results_awaiting_reconciliation :
                  Cardinality({j \in results_awaiting_reconciliation : j <= i}) <= limit}
  /\ UNCHANGED <<callVars, storeVars>>

LookUp ==
  \E i \in todo, d \in Documents :
    /\ \A j \in todo : i <= j
    /\ todo' = todo \ {i}
    /\ table' = IF applying /\ has_writes(Fetched(d))
                THEN [table EXCEPT ![i] = apply_reconciliation(@, Fetched(d))]
                ELSE table
    /\ UNCHANGED <<callVars, counted, saved, lost, applying>>

\* The pass is interrupted between two rows.
Interrupt ==
  /\ todo # {} /\ todo' = {}
  /\ UNCHANGED <<callVars, storeVars, applying>>

CallStep ==
  \/ Start \/ StartedTaken \/ Post \/ WireFails \/ Respond \/ Read \/ EndOfLines
  \/ DeltaTaken \/ DoneTaken \/ Body \/ Gathered \/ Abort \/ Crash \/ Down

Next == CallStep \/ Reconcile \/ LookUp \/ Interrupt

Spec == Init /\ [][Next]_vars

-----------------------------------------------------------------------------
(***************************************************************************)
(* What the wire said, told from the history alone.                        *)
(***************************************************************************)
FirstOf(S) == CHOOSE i \in S : \A j \in S : i <= j
LastOf(S)  == CHOOSE i \in S : \A j \in S : j <= i

IdAt(i)    == IF i = 1 THEN wire[1].header ELSE wire[i].id
ChunksAt   == {i \in 2 .. Len(wire) : wire[i].kind = "chunk"}
IdsAt      == {i \in DOMAIN wire : (i = 1 \/ i \in ChunksAt) /\ IdAt(i) # ""}
ProviderAt == {i \in ChunksAt : wire[i].provider # ""}
UsageAt    == {i \in ChunksAt : wire[i].usage # NoUsage}
ErrorsAt   == {i \in ChunksAt : wire[i].err /\ path = "stream"}
ChoicesAt  == {i \in ChunksAt \ ErrorsAt : wire[i].choice}
FinishAt   == {i \in ChoicesAt : wire[i].finish # ""}
NativeAt   == {i \in ChoicesAt : wire[i].native # ""}
ReasonedAt == {i \in UsageAt : wire[i].usage.reasoning >= 0}
DoneSeen   == \E i \in 2 .. Len(wire) : wire[i].kind = "done"
TextSeen   == \E i \in ChoicesAt : wire[i].text = "visible"

Usable(v)   == IF v >= 0 THEN v ELSE None
LastUsage   == wire[LastOf(UsageAt)].usage
Reasoned    == wire[LastOf(ReasonedAt)].usage
FinishSaid  == IF FinishAt = {} THEN "" ELSE wire[LastOf(FinishAt)].finish

\* The block u says that nine tenths of its completion was thinking.
AteIt(u) == u.completion > 0 /\ u.reasoning > 0 /\ u.reasoning * 10 >= u.completion * 9

FaithfulRow(row) ==
  /\ row.id = IF IdsAt = {} THEN "" ELSE IdAt(FirstOf(IdsAt))
  /\ row.provider = IF ProviderAt = {} THEN "" ELSE wire[FirstOf(ProviderAt)].provider
  /\ (row.text = "visible") = TextSeen
  /\ IF row.error = "aborted"
     THEN /\ row.finish = "" /\ row.native = "" /\ row.byok = "null"
          /\ {row.completion, row.reasoning, row.basis, row.cost, row.upstream} = {None}
     ELSE /\ row.finish = FinishSaid
          /\ row.native = IF NativeAt = {} THEN "" ELSE wire[LastOf(NativeAt)].native
          /\ IF UsageAt = {} THEN row.completion = None /\ row.cost = None /\ row.byok = "null"
             ELSE /\ row.completion = Usable(LastUsage.completion)
                  /\ row.cost = Usable(LastUsage.cost)
                  /\ row.upstream = Usable(LastUsage.upstream)
                  /\ row.byok \in {LastUsage.byok, "null"}
          /\ IF ReasonedAt = {} THEN row.reasoning = None
             ELSE /\ row.reasoning = Reasoned.reasoning
                  /\ row.basis = Usable(Reasoned.completion)

TrueLabel(row) ==
  /\ row.error = "none" => /\ TextSeen /\ ErrorsAt = {}
                           /\ path = "stream" => DoneSeen \/ FinishAt # {}
  /\ row.error = "exhausted" => FinishSaid = "length"
  /\ row.error \in {"exhausted", "reasoned"} =>
       ReasonedAt # {} /\ (Reasoned.completion >= 0 => AteIt(Reasoned))
  /\ row.error = "empty" => ReasonedAt = {} \/ ~AteIt(Reasoned)

Saves   == saved' > saved
NewRow  == table[Len(table)]

-----------------------------------------------------------------------------
(***************************************************************************)
(* Properties.                                                             *)
(***************************************************************************)

\* Every row a call leaves says what its wire said, whichever way the call
\* ended and however many usage blocks, ids and verdicts the wire sent: the
\* first id and host, the last usage block whole, the reasoning count with
\* the completion count of its own block; an aborted one says its id and its
\* host and claims nothing else (_ingest_usage, _settle_generation_id, the
\* holder).
RecordIsTheWire == [][Saves => FaithfulRow(NewRow)']_vars

\* The error of a row is true of its wire: no error means visible text, an
\* ending the provider declared and no error frame; "exhausted" means the
\* budget ran out, and it and its weaker form are said of a block that says
\* so, and not left unsaid of one (done, empty_response_error).
LabelsAreTrue == [][Saves => TrueLabel(NewRow)']_vars

\* What a call that ends adds to the ceiling's recorded spend is the price
\* the report files its row under, read back from the database; a call cut
\* short adds nothing (ceiling_cost and _cost_totals).
LedgerAgreesWithReport ==
  [][Saves => counted' = LET row == Repaired(NewRow)' IN
                         IF price_bucket(row) = "billed" THEN row.cost
                         ELSE IF price_bucket(row) = "estimated" THEN row.estimate
                         ELSE 0]_vars

\* A call that took its slot leaves exactly one row, whoever ends it and
\* wherever it stands, unless the process died or the write failed; and the
\* row of one whose request may have gone out records the request.
OnTheRecordOnce ==
  /\ saved <= 1
  /\ pc \in {"doneframe", "over"} /\ ~lost => saved = 1
  /\ saved = 1 /\ wire # <<>> => NewRow.request

\* The audit never takes from a row what a reader had: a charge a reader
\* trusts is kept or replaced by the endpoint's, the billing mode and the
\* upstream figure the exchange reported stay, so the row keeps its bucket
\* in the report, and what the bench itself observed stays as it was.
AuditOnlyAdds ==
  [][\A i \in DOMAIN table :
       LET old == table[i] new == table'[i] IN
       /\ Repaired(old).cost # None => Repaired(new).cost # None
       /\ old.byok # "null" => new.byok = old.byok
       /\ old.upstream # None =>
            /\ new.upstream = old.upstream
            /\ upstream_bucket(Repaired(old)) \in {"byok", "not_byok"} =>
                 upstream_bucket(Repaired(new)) = upstream_bucket(Repaired(old))
       /\ \A c \in {"text", "error", "id", "finish", "completion", "estimate"} :
            new[c] = old[c]]_vars

\* What the work list no longer offers, a reader can use: a row with a
\* generation id that is off the list shows every reader a charge, a host, a
\* billing mode and the provider's own verdict.
OffTheListIsWhole ==
  \A i \in DOMAIN table :
    LET row == Repaired(table[i]) IN
    row.id # "" /\ i \notin results_awaiting_reconciliation =>
      row.cost # None /\ row.provider # "" /\ row.byok # "null" /\ row.native # ""

\* results_awaiting_reconciliation's docstring (bench/store.py:2958): "a value
\* no reader will trust is a value this list still offers to replace".
UntrustedIsOffered ==
  \A i \in DOMAIN table :
    table[i].id # "" /\ Repaired(table[i]).cost = None
      => i \in results_awaiting_reconciliation

\* exhaustion_pair's docstring (bench/models.py:2180): the two counts a
\* share is judged on are "in one accounting family", of one usage block.
ShareIsOfOneBlock ==
  [][Saves /\ NewRow'.error \in {"exhausted", "reasoned"} =>
       (\E i \in UsageAt : AteIt(wire[i].usage))']_vars

=============================================================================
