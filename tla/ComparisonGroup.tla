-------------------------- MODULE ComparisonGroup --------------------------
(***************************************************************************)
(* A comparison is a group: what it is, documents and their readings       *)
(* included, is declared on its row before its first member runs           *)
(* (create_group), and each member is a request of its own, checked        *)
(* against the row when it arrives (enforce_group_experiment, pins_for,    *)
(* enforce_mode_entry), composed then or in its slot, and recorded when it *)
(* is over.  Between two members the same bytes are uploaded again, the    *)
(* tree is walked again, the parser is upgraded under a restart.           *)
(*                                                                         *)
(* A reading is what one extractor at one version made of the bytes of a   *)
(* digest; its text stands for itself.  A pin names a reading, claims its  *)
(* kind and, for a snapshot, may name the capture (the walk).  None is a   *)
(* NULL column, or a field the request leaves out.  Sizes, the context     *)
(* window and the ceiling only refuse and are left out.                    *)
(***************************************************************************)
EXTENDS Naturals, Sequences, FiniteSets, SequencesExt

CONSTANTS
  None,          \* NULL, or left out
  Files, Trees,  \* digests: of an upload's bytes, of a tree's composed text
  Versions,      \* the parser versions a boot may run
  SeesImages,    \* the models whose catalog entry takes images
  OldReadings, OldGroups,   \* what earlier builds left in the database
  Declarations,  \* the bodies of POST /groups
  Requests,      \* the bodies of POST /compare and /compare/stream
  Guesses,       \* TRUE: a request may name an id before its group is there
  MaxGroups, MaxMembers, MaxCaptures

Digest     == Files \cup Trees
Extractors == {"parser", "none", "snapshot"}
Modes      == {"inline", "native"}
ReadingSet == [digest : Digest, extractor : Extractors, version : Nat]
PinSet     == [digest : Digest, extractor : Extractors, version : Nat,
               kind : {"document", "image", "snapshot"}, capture : {None} \cup Nat]

\* A group's row: of the declarations and of the older rows.
Bodies  == Declarations \cup ToSet(OldGroups)
BodySet == [prompt : {b.prompt : b \in Bodies}, models : {b.models : b \in Bodies},
            budget : {b.budget : b \in Bodies}, params : {b.params : b \in Bodies},
            digests : {None} \cup Seq(Digest), mode : {None} \cup Modes,
            pins : {None} \cup Seq(PinSet)]

\* The groups of earlier builds are older than pins; a stream is of one model.
ASSUME ComparisonAssumption ==
  /\ None \notin Nat /\ None \notin Seq(Digest)
  /\ Guesses \in BOOLEAN
  /\ Versions # {} /\ Versions \subseteq Nat
  /\ OldReadings \subseteq ReadingSet /\ IsFiniteSet(OldReadings)
  /\ OldGroups \in Seq(BodySet) /\ Len(OldGroups) <= MaxGroups
  /\ \A g \in DOMAIN OldGroups : OldGroups[g].pins = None
  /\ Declarations \subseteq BodySet
  /\ \A body \in Declarations : body.digests \in Seq(Digest) /\ body.mode \in Modes
  /\ \A req \in Requests :
       /\ req.digests \in Seq(Digest) /\ req.mode \in Modes
       /\ req.pins \in {None} \cup Seq(PinSet)
       /\ req.door \in {"compare", "stream"}
       /\ req.door = "stream" => req.models = <<req.models[1]>>
  /\ MaxGroups \in Nat /\ MaxMembers \in Nat /\ MaxCaptures \in Nat

VARIABLES
  parser,    \* the parser version this process runs
  rows,      \* attachments: digest -> the reading of its first upload
  readings,  \* attachment_extractions
  captures,  \* snapshot_captures, in id order: the reading of each
  groups,    \* the groups' rows, in id order
  waiting,   \* members past their checks, before their slot
  calling,   \* members whose request is on the wire
  runs       \* the runs recorded, in id order

database == <<rows, readings, captures, groups>>
vars == <<parser, rows, readings, captures, groups, waiting, calling, runs>>
-----------------------------------------------------------------------------
\* Documents are read by the running parser, images by no reader, trees by
\* the snapshot composer.
kind_of(extractor) ==
  CASE extractor = "parser"   -> "document"
    [] extractor = "none"     -> "image"
    [] extractor = "snapshot" -> "snapshot"

Reading(d, extractor, version) ==
  [digest |-> d, extractor |-> extractor, version |-> version]
rendition_of(d, extractor) ==
  Reading(d, extractor, IF extractor = "parser" THEN parser ELSE 0)
ReadingOf(pin) == Reading(pin.digest, pin.extractor, pin.version)
Pin(r, capture) ==
  [digest |-> r.digest, extractor |-> r.extractor, version |-> r.version,
   kind |-> kind_of(r.extractor), capture |-> capture]

Digests(pins) == [i \in DOMAIN pins |-> pins[i].digest]

\* row_rendition: a bare digest means the reading its row holds.  The
\* variant, first, asks what the running parser makes of the bytes.
row_rendition_current(d) == Pin(rendition_of(d, rows[d].extractor), None)
row_rendition(d) == Pin(rows[d], None)

latest_capture(r) ==
  LET of_it == {i \in DOMAIN captures : captures[i] = r}
  IN IF of_it = {} THEN None ELSE CHOOSE i \in of_it : \A j \in of_it : j <= i

with_captures(pins) ==
  [i \in DOMAIN pins |->
     IF pins[i].kind = "snapshot" /\ pins[i].capture = None
     THEN [pins[i] EXCEPT !.capture = latest_capture(ReadingOf(pins[i]))]
     ELSE pins[i]]

\* resolve_rendition: every part of the pin is verified.  The variant,
\* first, looks the reading up by the table's key and believes the kind.
resolve_rendition_by_key(pin) == ReadingOf(pin) \in readings
resolve_rendition(pin) ==
  /\ ReadingOf(pin) \in readings
  /\ pin.capture # None => /\ pin.capture \in DOMAIN captures
                           /\ captures[pin.capture] = ReadingOf(pin)
  /\ pin.kind = kind_of(pin.extractor)

AllResolve(pins) == \A i \in DOMAIN pins : resolve_rendition(pins[i])

\* declared_pins: whether it refuses, and what it returns.
DeclarationHolds(digests, declared) ==
  IF declared = None THEN ToSet(digests) \subseteq DOMAIN rows
  ELSE Digests(declared) = digests /\ AllResolve(declared)
declared_pins(digests, declared) ==
  with_captures(IF declared = None
                THEN [i \in DOMAIN digests |-> row_rendition(digests[i])]
                ELSE declared)

\* enforce_mode: native sends images and nothing else, to models that take
\* them; inline sends text, which an image has none of.
enforce_mode(pins, mode, models) ==
  IF mode = "native"
  THEN /\ \A i \in DOMAIN pins : pins[i].kind = "image"
       /\ models # None => ToSet(models) \subseteq SeesImages
  ELSE \A i \in DOMAIN pins : pins[i].kind # "image"
-----------------------------------------------------------------------------
(* What the row of group g says; of an id that names no row, nothing.      *)
Silent == [prompt |-> None, models |-> None, budget |-> None, params |-> None,
           digests |-> None, mode |-> None, pins |-> None]
Group(g) == IF g \in DOMAIN groups THEN groups[g] ELSE Silent

\* group_prompt: the prompt declared, or else the first member's.
group_prompt(g) ==
  LET members == SelectSeq(runs, LAMBDA r : r.group = g)
  IN IF Group(g).prompt # None THEN Group(g).prompt
     ELSE IF members # <<>> THEN members[1].req.prompt ELSE None

\* _enforce_manifest: NULL is silence and refuses nothing.  A batch claims
\* the whole lineup, a stream its model and, if it says so, its place.
_enforce_manifest(req) ==
  LET lineup == Group(req.group).models
  IN /\ lineup # None =>
          IF req.door = "compare" THEN req.models = lineup
          ELSE /\ req.models[1] \in ToSet(lineup)
               /\ req.position # None =>
                    /\ req.position \in DOMAIN lineup
                    /\ lineup[req.position] = req.models[1]
     /\ Group(req.group).budget \in {None, req.budget}

\* _attachments_conflict: of the documents NULL says that there are none, of
\* the mode that it is inline.
attachments_agree(req) ==
  /\ req.digests = (IF Group(req.group).digests = None THEN <<>>
                    ELSE Group(req.group).digests)
  /\ req.mode = (IF Group(req.group).mode = None THEN "inline"
                 ELSE Group(req.group).mode)

\* Of the controls too, NULL says that none is set.
enforce_group_experiment(req) ==
  req.group # None =>
    /\ group_prompt(req.group) \in {None, req.prompt}
    /\ _enforce_manifest(req)
    /\ attachments_agree(req)
    /\ Group(req.group).params = req.params

\* pins_for: whether it refuses, and what it returns.  A group's pin wins; a
\* group older than pins gives each member its documents' own rows.
Pinned(req) == IF req.group = None THEN None ELSE Group(req.group).pins
PinsAgree(req) ==
  IF Pinned(req) # None
  THEN req.pins # None => with_captures(req.pins) = Pinned(req)
  ELSE /\ DeclarationHolds(req.digests,
             IF req.group # None /\ req.digests # <<>> THEN None ELSE req.pins)
       /\ req.group # None /\ req.pins # None /\ req.digests # <<>> =>
            req.pins = [i \in DOMAIN req.digests |-> row_rendition(req.digests[i])]
pins_for(req) ==
  IF Pinned(req) # None THEN Pinned(req)
  ELSE IF req.group # None /\ req.pins # None /\ req.digests # <<>> THEN req.pins
  ELSE declared_pins(req.digests, req.pins)

\* compose_from_pins, documents_for, native_documents: the content sent, a
\* refusal (None) when a pin does not resolve.
compose_from_pins(prompt, pins, mode) ==
  IF AllResolve(pins)
  THEN [prompt |-> prompt, mode |-> mode,
        parts |-> [i \in DOMAIN pins |-> ReadingOf(pins[i])]]
  ELSE None
composed_for(req) ==
  IF ~PinsAgree(req) THEN None
  ELSE compose_from_pins(req.prompt, pins_for(req), req.mode)

\* Everything the two doors check before they spend.
enforce_mode_entry(req) ==
  IF req.digests = <<>> THEN req.mode = "inline"
  ELSE enforce_mode(pins_for(req), req.mode, req.models)
Admitted(req) ==
  /\ enforce_group_experiment(req)
  /\ PinsAgree(req)
  /\ enforce_mode_entry(req)
  /\ composed_for(req) # None
-----------------------------------------------------------------------------
Init ==
  /\ parser \in Versions
  /\ readings = OldReadings
  /\ rows = [d \in {r.digest : r \in OldReadings} |->
               CHOOSE r \in OldReadings : r.digest = d]
  /\ captures = SetToSeq({r \in OldReadings : r.extractor = "snapshot"})
  /\ groups = OldGroups
  /\ waiting = {} /\ calling = {} /\ runs = <<>>

\* save_attachment: the row keeps the first upload's reading, the table of
\* readings keeps all.  The variant, first, keeps one reading of each digest.
save_attachment_updating(r) ==
  /\ rows' = [d \in DOMAIN rows \cup {r.digest} |->
                IF d = r.digest THEN r ELSE rows[d]]
  /\ readings' = {s \in readings : s.digest # r.digest} \cup {r}
save_attachment(r) ==
  /\ rows' = IF r.digest \in DOMAIN rows THEN rows
             ELSE [d \in DOMAIN rows \cup {r.digest} |->
                     IF d = r.digest THEN r ELSE rows[d]]
  /\ readings' = readings \cup {r}

\* create_attachment: the file's name, the caller's to choose, says whether
\* its bytes are read as a document or as an image.
create_attachment(f, extractor) ==
  /\ save_attachment(rendition_of(f, extractor))
  /\ UNCHANGED <<parser, captures, groups, waiting, calling, runs>>

\* create_snapshot: two transactions; a crash or a failing write between
\* them leaves the reading without its capture.
create_snapshot(t, recorded) ==
  LET r == rendition_of(t, "snapshot")
  IN /\ Len(captures) < MaxCaptures
     /\ save_attachment(r)
     /\ captures' = IF recorded THEN Append(captures, r) ELSE captures
     /\ UNCHANGED <<parser, groups, waiting, calling, runs>>

\* create_group: the pins are taken here and the digests come from them.
create_group(body) ==
  LET pins == declared_pins(body.digests, body.pins)
      attached == body.digests # <<>>
  IN /\ Len(groups) < MaxGroups
     /\ IF attached
        THEN /\ DeclarationHolds(body.digests, body.pins)
             /\ enforce_mode(pins, body.mode, body.models)
             /\ body.mode # "native" => AllResolve(pins)
        ELSE body.mode = "inline" /\ body.pins = None
     /\ groups' = Append(groups,
          [body EXCEPT !.digests = IF attached THEN Digests(pins) ELSE None,
                       !.mode = IF attached THEN body.mode ELSE None,
                       !.pins = IF attached THEN pins ELSE None])
     /\ UNCHANGED <<parser, rows, readings, captures, waiting, calling, runs>>

\* A member past its checks.  A stream in native mode is composed in its
\* slot; everything else is composed here.
Deferred(req) == req.door = "stream" /\ req.mode = "native"
Enter(req) ==
  /\ Cardinality(waiting) + Cardinality(calling) + Len(runs) < MaxMembers
  /\ req.group \in 1..MaxGroups => Guesses \/ req.group \in DOMAIN groups
  /\ Admitted(req)
  /\ waiting' = waiting \cup
       {[req |-> req, group |-> req.group, pins |-> pins_for(req),
         content |-> IF Deferred(req) THEN None ELSE composed_for(req)]}
  /\ UNCHANGED <<parser, database, calling, runs>>

Send(m) ==
  /\ waiting' = waiting \ {m}
  /\ calling' = calling \cup
       {[m EXCEPT !.content = IF Deferred(m.req) THEN composed_for(m.req) ELSE @]}
  /\ UNCHANGED <<parser, database, runs>>

\* save_run with resolve_links: a link to a group that is not there is
\* dropped.
Save(m) ==
  /\ calling' = calling \ {m}
  /\ runs' = Append(runs, [m EXCEPT !.group = IF @ \in DOMAIN groups THEN @ ELSE None])
  /\ UNCHANGED <<parser, database, waiting>>

\* A stop or a crash, and the next boot, of whichever build.
Restart(v) ==
  /\ parser' = v
  /\ waiting' = {} /\ calling' = {}
  /\ UNCHANGED <<database, runs>>

Next ==
  \/ \E f \in Files, e \in {"parser", "none"} : create_attachment(f, e)
  \/ \E t \in Trees, recorded \in BOOLEAN : create_snapshot(t, recorded)
  \/ \E body \in Declarations : create_group(body)
  \/ \E req \in Requests : Enter(req)
  \/ \E m \in waiting : Send(m)
  \/ \E m \in calling : Save(m)
  \/ \E v \in Versions : Restart(v)

Spec == Init /\ [][Next]_vars
-----------------------------------------------------------------------------
Sent == calling \cup ToSet(runs)

\* A member; its content is None until its slot where that composes it.
ContentSet == [prompt : {req.prompt : req \in Requests}, mode : Modes,
               parts : Seq(ReadingSet)]
MemberSet  == [req : Requests, group : {None} \cup {req.group : req \in Requests},
               pins : Seq(PinSet), content : {None} \cup ContentSet]

TypeOK ==
  /\ parser \in Versions
  /\ DOMAIN rows \subseteq Digest /\ readings \subseteq ReadingSet
  /\ captures \in Seq(ReadingSet)
  /\ groups \in Seq(BodySet) /\ Len(groups) <= MaxGroups
  /\ waiting \subseteq MemberSet /\ calling \subseteq MemberSet
  /\ runs \in Seq(MemberSet)

\* The fairness law (pins_for, enforce_composed): the members of one
\* comparison send the same documents read the same way in one mode, under
\* one set of controls and, where the group declared them, one prompt and
\* one budget, to models of its lineup, whatever was uploaded, walked,
\* upgraded or restarted between them.  A group from before the prompt was
\* declared is given its first member's prompt when that is saved; two that
\* arrive before that may differ (enforce_group_experiment says so).
OneExperiment ==
  \A a, b \in Sent : a.group = b.group /\ a.group \in DOMAIN groups =>
    /\ a.content.parts = b.content.parts
    /\ a.content.mode = b.content.mode
    /\ a.req.params = b.req.params
    /\ groups[a.group].prompt # None => a.content.prompt = b.content.prompt
    /\ groups[a.group].budget # None => a.req.budget = b.req.budget
    /\ groups[a.group].models # None =>
         ToSet(a.req.models) \subseteq ToSet(groups[a.group].models)

\* What a run records of its documents is what its models were sent, though
\* the two are resolved apart (composed_for): the content a deferred member
\* builds in its slot is not refused there, it is of the readings its pins
\* name, and of the kind its mode claims, by what read the bytes.
RecordsWhatWasSent ==
  \A m \in Sent :
    /\ m.content # None
    /\ m.content.parts = [i \in DOMAIN m.pins |-> ReadingOf(m.pins[i])]
    /\ \A i \in DOMAIN m.content.parts :
         (kind_of(m.content.parts[i].extractor) = "image") <=> (m.content.mode = "native")

\* A pin is honoured verbatim (resolve_rendition): whatever a group pinned
\* is there for every member to come, capture included, and a digest's row
\* is itself a reading on file.
PinsAreHonourable ==
  /\ \A g \in DOMAIN groups : groups[g].pins # None => AllResolve(groups[g].pins)
  /\ \A d \in DOMAIN rows : rows[d] \in readings

\* pins_for: "a member restating the four parts and leaving the capture
\* unnamed matches a group whose pin took the latest at creation".
RestatedPinsMatch ==
  \A g \in DOMAIN groups : groups[g].pins # None =>
    with_captures([i \in DOMAIN groups[g].pins |->
                     [groups[g].pins[i] EXCEPT !.capture = None]]) = groups[g].pins
=============================================================================
