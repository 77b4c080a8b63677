----------------------- MODULE ComparisonGroupProofs -----------------------
(***************************************************************************)
(* Proofs about ComparisonGroup, for any files, trees, parsers, older      *)
(* database, declarations and requests: that a pin can always be honoured, *)
(* that what a run records is what was sent, and that the members of one   *)
(* comparison were sent one thing.  Last, about the comparison's blind     *)
(* sessions.                                                               *)
(***************************************************************************)
EXTENDS ComparisonGroup, BlindSession, FiniteSetTheorems, WellFoundedInduction, TLAPS

\* A digest's row is a reading of it on file.
RowsAreReadings == \A d \in DOMAIN rows : rows[d] \in readings /\ rows[d].digest = d

\* A group's pins resolve, and name its documents.
PinsResolve ==
  \A g \in DOMAIN groups : groups[g].pins # None =>
    /\ AllResolve(groups[g].pins)
    /\ groups[g].digests = Digests(groups[g].pins) /\ groups[g].digests # <<>>

StoreInv == TypeOK /\ RowsAreReadings /\ PinsResolve

\* What a group has its members send.
Parts(pins) == [i \in DOMAIN pins |-> ReadingOf(pins[i])]
GroupDigests(g) == IF groups[g].digests = None THEN <<>> ELSE groups[g].digests
GroupParts(g) == IF groups[g].pins # None THEN Parts(groups[g].pins)
                 ELSE [i \in DOMAIN GroupDigests(g) |-> rows[GroupDigests(g)[i]]]

Conforms(m) ==
  LET group == groups[m.group]
  IN  /\ Parts(m.pins) = GroupParts(m.group)
      /\ group.pins = None => ToSet(GroupDigests(m.group)) \subseteq DOMAIN rows
      /\ m.req.mode = (IF group.mode = None THEN "inline" ELSE group.mode)
      /\ m.req.params = group.params
      /\ group.prompt # None => m.req.prompt = group.prompt
      /\ group.budget # None => m.req.budget = group.budget
      /\ group.models # None => ToSet(m.req.models) \subseteq ToSet(group.models)

\* What a member is to send: the readings of the pins it was given.
ContentOf(m) == [prompt |-> m.req.prompt, mode |-> m.req.mode, parts |-> Parts(m.pins)]

\* Of every member there is.
MemberInv(m) ==
  /\ ContentOf(m) # None
  /\ \A i \in DOMAIN m.pins :
       (kind_of(m.pins[i].extractor) = "image") <=> (m.req.mode = "native")
  /\ m.group \in DOMAIN groups => Conforms(m)

\* A member on its way has its group before it, if it will ever have one.
Known(m) == m.group = m.req.group /\ (m.group \in 1..MaxGroups => m.group \in DOMAIN groups)

\* The pins of a member whose slot composes it are those it will be given
\* there: images, which no later walk or upload reads otherwise.
Awaits(m) ==
  /\ PinsAgree(m.req) /\ m.pins = pins_for(m.req)
  /\ \A i \in DOMAIN m.pins : m.pins[i].kind = "image"

Waits(m)    == /\ MemberInv(m) /\ Known(m)
               /\ IF Deferred(m.req) THEN Awaits(m) ELSE m.content = ContentOf(m)
Calls(m)    == MemberInv(m) /\ Known(m) /\ m.content = ContentOf(m)
Recorded(m) == /\ MemberInv(m) /\ m.content = ContentOf(m)
               /\ m.group \in {None} \cup DOMAIN groups

MembersInv ==
  /\ \A m \in waiting : Waits(m)
  /\ \A m \in calling : Calls(m)
  /\ \A i \in DOMAIN runs : Recorded(runs[i])
-----------------------------------------------------------------------------
(* What the operators return.                                              *)

LEMMA MaxExists ==
  ASSUME NEW S, NEW n \in Nat, S \subseteq 1..n, S # {}
  PROVE  \E i \in S : \A j \in S : j <= i
<1> DEFINE above == {(i + 1)..n : i \in S}
           Smaller == StrictSubsetOrdering(1..n)
<1>1. above \subseteq SUBSET (1..n) /\ above # {}
  <2>1. ASSUME NEW i \in S PROVE (i + 1)..n \in SUBSET (1..n)
    <3>1. i \in Nat
      OBVIOUS
    <3> QED BY <3>1
  <2> QED BY <2>1
<1>2. PICK u \in above : \A v \in above : <<v, u>> \notin Smaller
  <2>1. IsWellFoundedOn(Smaller, SUBSET (1..n))
    <3>1. IsFiniteSet(1..n)
      BY FS_Interval
    <3> QED BY <3>1, FS_StrictSubsetOrderingWellFounded, FS_FiniteSubsetsOfFinite
  <2> HIDE DEF above, Smaller
  <2> QED BY <1>1, <2>1, WFMin
<1>3. PICK i \in S : u = (i + 1)..n
  BY <1>2
<1>4. ASSUME NEW j \in S, j > i PROVE FALSE
  <2>1. i \in 1..n /\ j \in 1..n
    OBVIOUS
  <2>2. (j + 1)..n \subseteq u /\ j \in u /\ j \notin (j + 1)..n
    BY <1>3, <1>4, <2>1
  <2>3. (j + 1)..n \in above /\ (j + 1)..n \in SUBSET (1..n) /\ u \in SUBSET (1..n)
    BY <1>1, <1>2
  <2> QED BY <1>2, <2>2, <2>3 DEF StrictSubsetOrdering
<1> QED BY <1>4

\* latest_capture names a capture of the reading, or none.
LEMMA LatestCapture ==
  ASSUME TypeOK, NEW r
  PROVE  \/ latest_capture(r) = None
         \/ latest_capture(r) \in DOMAIN captures /\ captures[latest_capture(r)] = r
<1> DEFINE of_it == {i \in DOMAIN captures : captures[i] = r}
<1>1. CASE of_it = {}
  BY <1>1 DEF latest_capture
<1>2. CASE of_it # {}
  <2>1. of_it \subseteq 1..Len(captures) /\ Len(captures) \in Nat
    BY DEF TypeOK
  <2>2. \E i \in of_it : \A j \in of_it : j <= i
    <3> HIDE DEF of_it
    <3> QED BY <1>2, <2>1, MaxExists
  <2>3. latest_capture(r) = CHOOSE i \in of_it : \A j \in of_it : j <= i
    BY <1>2 DEF latest_capture
  <2>4. latest_capture(r) \in of_it
    <3> HIDE DEF of_it
    <3> QED BY <2>2, <2>3
  <2> QED BY <2>4
<1> QED BY <1>1, <1>2

\* with_captures fills in captures and touches nothing else.
LEMMA WithCapturesKeeps ==
  ASSUME NEW pins
  PROVE  LET filled == with_captures(pins)
         IN  /\ DOMAIN filled = DOMAIN pins
             /\ (\A i \in DOMAIN pins : pins[i] \in PinSet) =>
                  \A i \in DOMAIN pins :
                    /\ ReadingOf(filled[i]) = ReadingOf(pins[i])
                    /\ filled[i].kind = pins[i].kind
                    /\ filled[i].digest = pins[i].digest
                    /\ filled[i].extractor = pins[i].extractor
                    /\ pins[i].kind # "snapshot" => filled[i] = pins[i]
                    /\ filled[i].capture \in {pins[i].capture, latest_capture(ReadingOf(pins[i]))}
  BY DEF with_captures, ReadingOf, Reading, PinSet

LEMMA WithCapturesType ==
  ASSUME TypeOK, ComparisonAssumption, NEW pins \in Seq(PinSet)
  PROVE  with_captures(pins) \in Seq(PinSet)
<1>1. \A i \in DOMAIN pins : pins[i] \in PinSet
  OBVIOUS
<1>2. \A r : latest_capture(r) \in {None} \cup Nat
  BY LatestCapture DEF TypeOK
<1>3. \A i \in DOMAIN pins :
        [pins[i] EXCEPT !.capture = latest_capture(ReadingOf(pins[i]))] \in PinSet
  BY <1>1, <1>2 DEF PinSet
<1>4. with_captures(pins) = [i \in 1..Len(pins) |-> with_captures(pins)[i]]
  BY DEF with_captures
<1>5. \A i \in 1..Len(pins) : with_captures(pins)[i] \in PinSet
  BY <1>1, <1>3 DEF with_captures
<1> QED BY <1>4, <1>5

\* What resolves does so with its captures filled in.
LEMMA WithCapturesResolve ==
  ASSUME TypeOK, NEW pins \in Seq(PinSet), AllResolve(pins)
  PROVE  AllResolve(with_captures(pins))
<1>1. \A i \in DOMAIN pins : pins[i] \in PinSet
  OBVIOUS
<1> DEFINE filled == with_captures(pins)
<1>2. SUFFICES ASSUME NEW i \in DOMAIN pins PROVE resolve_rendition(filled[i])
  BY WithCapturesKeeps DEF AllResolve
<1>3. /\ ReadingOf(filled[i]) = ReadingOf(pins[i])
      /\ filled[i].kind = pins[i].kind
      /\ filled[i].extractor = pins[i].extractor
      /\ filled[i].capture \in {pins[i].capture, latest_capture(ReadingOf(pins[i]))}
  BY <1>1, WithCapturesKeeps
<1>4. resolve_rendition(pins[i])
  BY DEF AllResolve
<1>5. \/ latest_capture(ReadingOf(pins[i])) = None
      \/ /\ latest_capture(ReadingOf(pins[i])) \in DOMAIN captures
         /\ captures[latest_capture(ReadingOf(pins[i]))] = ReadingOf(pins[i])
  BY LatestCapture
<1> HIDE DEF filled
<1> QED BY <1>3, <1>4, <1>5 DEF resolve_rendition

\* The pins of documents given by their digests alone.
RowPins(digests) == [i \in DOMAIN digests |-> row_rendition(digests[i])]

LEMMA RowPin ==
  ASSUME TypeOK, RowsAreReadings, ComparisonAssumption, NEW d \in DOMAIN rows
  PROVE  LET pin == row_rendition(d)
         IN  /\ pin \in PinSet /\ resolve_rendition(pin)
             /\ ReadingOf(pin) = rows[d] /\ pin.digest = d
<1>1. rows[d] \in ReadingSet /\ rows[d] \in readings /\ rows[d].digest = d
  BY DEF TypeOK, RowsAreReadings
<1>2. kind_of(rows[d].extractor) \in {"document", "image", "snapshot"}
  BY <1>1 DEF kind_of, ReadingSet, Extractors
<1> QED BY <1>1, <1>2
     DEF row_rendition, Pin, ReadingOf, Reading, resolve_rendition, PinSet, ReadingSet

LEMMA RowPinsResolve ==
  ASSUME TypeOK, RowsAreReadings, ComparisonAssumption,
         NEW digests \in Seq(Digest), ToSet(digests) \subseteq DOMAIN rows
  PROVE  /\ RowPins(digests) \in Seq(PinSet)
         /\ DOMAIN RowPins(digests) = DOMAIN digests
         /\ AllResolve(RowPins(digests))
         /\ Digests(RowPins(digests)) = digests
         /\ Parts(RowPins(digests)) = [i \in DOMAIN digests |-> rows[digests[i]]]
<1>1. DOMAIN digests = 1..Len(digests) /\ Len(digests) \in Nat
      /\ digests = [i \in 1..Len(digests) |-> digests[i]]
  OBVIOUS
<1>2. \A i \in DOMAIN digests : digests[i] \in DOMAIN rows
  BY DEF ToSet
<1>3. \A i \in DOMAIN digests :
        /\ row_rendition(digests[i]) \in PinSet
        /\ resolve_rendition(row_rendition(digests[i]))
        /\ ReadingOf(row_rendition(digests[i])) = rows[digests[i]]
        /\ row_rendition(digests[i]).digest = digests[i]
  BY <1>2, RowPin
<1>4. RowPins(digests) \in Seq(PinSet)
  BY <1>1, <1>3 DEF RowPins
<1>5. Digests(RowPins(digests)) = digests
  BY <1>1, <1>3 DEF RowPins, Digests
<1> QED BY <1>3, <1>4, <1>5 DEF RowPins, Parts, AllResolve

LEMMA RowPartsAre ==
  ASSUME TypeOK, RowsAreReadings, ComparisonAssumption,
         NEW digests \in Seq(Digest), ToSet(digests) \subseteq DOMAIN rows
  PROVE  /\ with_captures(RowPins(digests)) \in Seq(PinSet)
         /\ AllResolve(with_captures(RowPins(digests)))
         /\ DOMAIN with_captures(RowPins(digests)) = DOMAIN digests
         /\ Digests(with_captures(RowPins(digests))) = digests
         /\ Parts(with_captures(RowPins(digests))) = [i \in DOMAIN digests |-> rows[digests[i]]]
<1> DEFINE pins == RowPins(digests)
<1>1. /\ pins \in Seq(PinSet) /\ DOMAIN pins = DOMAIN digests
      /\ AllResolve(pins) /\ Digests(pins) = digests
      /\ Parts(pins) = [i \in DOMAIN digests |-> rows[digests[i]]]
  BY RowPinsResolve
<1> HIDE DEF pins
<1>2. with_captures(pins) \in Seq(PinSet) /\ AllResolve(with_captures(pins))
  BY <1>1, WithCapturesType, WithCapturesResolve
<1>3. /\ DOMAIN with_captures(pins) = DOMAIN pins
      /\ \A i \in DOMAIN pins : /\ ReadingOf(with_captures(pins)[i]) = ReadingOf(pins[i])
                                /\ with_captures(pins)[i].digest = pins[i].digest
  BY <1>1, WithCapturesKeeps
<1> QED BY <1>1, <1>2, <1>3 DEF pins, Digests, Parts

\* declared_pins: what does not refuse resolves, and is of the digests.
LEMMA DeclaredPins ==
  ASSUME TypeOK, RowsAreReadings, ComparisonAssumption,
         NEW digests \in Seq(Digest), NEW declared \in {None} \cup Seq(PinSet),
         DeclarationHolds(digests, declared)
  PROVE  LET pins == declared_pins(digests, declared)
         IN  /\ pins \in Seq(PinSet) /\ AllResolve(pins) /\ Digests(pins) = digests
             /\ DOMAIN pins = DOMAIN digests
             /\ declared = None =>
                  Parts(pins) = [i \in DOMAIN digests |-> rows[digests[i]]]
<1>1. CASE declared = None
  <2>1. declared_pins(digests, declared) = with_captures(RowPins(digests))
    BY <1>1 DEF declared_pins, RowPins
  <2>2. ToSet(digests) \subseteq DOMAIN rows
    BY <1>1 DEF DeclarationHolds
  <2> QED BY <2>1, <2>2, RowPartsAre
<1>2. CASE declared # None
  <2>1. /\ declared \in Seq(PinSet) /\ Digests(declared) = digests /\ AllResolve(declared)
        /\ declared_pins(digests, declared) = with_captures(declared)
    BY <1>2 DEF DeclarationHolds, declared_pins
  <2>2. with_captures(declared) \in Seq(PinSet) /\ AllResolve(with_captures(declared))
    BY <2>1, WithCapturesType, WithCapturesResolve
  <2>3. /\ DOMAIN with_captures(declared) = DOMAIN declared
        /\ \A i \in DOMAIN declared : with_captures(declared)[i].digest = declared[i].digest
    BY <2>1, WithCapturesKeeps
  <2>4. Digests(with_captures(declared)) = digests /\ DOMAIN declared = DOMAIN digests
    BY <2>1, <2>3 DEF Digests
  <2> QED BY <1>2, <2>1, <2>2, <2>3, <2>4
<1> QED BY <1>1, <1>2

\* A group's row, field by field.
LEMMA GroupRow ==
  ASSUME TypeOK, NEW g \in DOMAIN groups
  PROVE  /\ groups[g].digests \in {None} \cup Seq(Digest)
         /\ groups[g].mode \in {None} \cup Modes
         /\ groups[g].pins \in {None} \cup Seq(PinSet)
<1>1. groups[g] \in BodySet
  <2>1. groups \in Seq(BodySet)
    BY DEF TypeOK
  <2> QED BY <2>1
<1> QED BY <1>1 DEF BodySet

\* pins_for: what it returns resolves, whatever is asked of whichever group.
LEMMA PinsForResolve ==
  ASSUME StoreInv, ComparisonAssumption, NEW req \in Requests, PinsAgree(req)
  PROVE  pins_for(req) \in Seq(PinSet) /\ AllResolve(pins_for(req))
<1>1. /\ TypeOK /\ RowsAreReadings /\ PinsResolve
      /\ req.digests \in Seq(Digest) /\ req.pins \in {None} \cup Seq(PinSet)
  BY DEF StoreInv, ComparisonAssumption
<1>2. CASE Pinned(req) # None
  <2>1. req.group \in DOMAIN groups /\ Pinned(req) = groups[req.group].pins
    BY <1>2 DEF Pinned, Group, Silent
  <2> QED BY <1>1, <1>2, <2>1, GroupRow DEF PinsResolve, pins_for
<1>3. CASE Pinned(req) = None /\ req.group # None /\ req.pins # None /\ req.digests # <<>>
  <2>1. /\ pins_for(req) = RowPins(req.digests)
        /\ ToSet(req.digests) \subseteq DOMAIN rows
    BY <1>3 DEF pins_for, PinsAgree, RowPins, DeclarationHolds
  <2> QED BY <1>1, <2>1, RowPinsResolve
<1>4. CASE Pinned(req) = None /\ ~(req.group # None /\ req.pins # None /\ req.digests # <<>>)
  <2>1. /\ pins_for(req) = declared_pins(req.digests, req.pins)
        /\ DeclarationHolds(req.digests, req.pins)
    BY <1>4 DEF pins_for, PinsAgree
  <2> QED BY <1>1, <2>1, DeclaredPins
<1> QED BY <1>2, <1>3, <1>4

\* What a member of a group is given is what the group says is sent.
LEMMA PinsForGroup ==
  ASSUME StoreInv, ComparisonAssumption, NEW req \in Requests, PinsAgree(req),
         attachments_agree(req), req.group \in DOMAIN groups
  PROVE  /\ Parts(pins_for(req)) = GroupParts(req.group)
         /\ groups[req.group].pins = None =>
              ToSet(GroupDigests(req.group)) \subseteq DOMAIN rows
<1>1. /\ TypeOK /\ RowsAreReadings
      /\ req.digests \in Seq(Digest) /\ req.pins \in {None} \cup Seq(PinSet)
      /\ req.group # None
      /\ Pinned(req) = groups[req.group].pins
      /\ req.digests = GroupDigests(req.group)
  BY DEF StoreInv, ComparisonAssumption, Pinned, Group, attachments_agree, GroupDigests, TypeOK
<1>2. CASE Pinned(req) # None
  BY <1>1, <1>2 DEF pins_for, GroupParts
<1>3. CASE Pinned(req) = None /\ req.digests = <<>>
  <2>1. /\ pins_for(req) = declared_pins(req.digests, req.pins)
        /\ DeclarationHolds(req.digests, req.pins)
    BY <1>3 DEF pins_for, PinsAgree
  <2>2. DOMAIN pins_for(req) = {}
    BY <1>1, <1>3, <2>1, DeclaredPins
  <2>3. /\ Parts(pins_for(req)) = [i \in DOMAIN req.digests |-> rows[req.digests[i]]]
        /\ ToSet(req.digests) = {}
    BY <1>3, <2>2 DEF Parts, ToSet
  <2> QED BY <1>1, <1>3, <2>3 DEF GroupParts
<1>4. CASE Pinned(req) = None /\ req.digests # <<>> /\ req.pins # None
  <2>1. /\ pins_for(req) = RowPins(req.digests)
        /\ ToSet(req.digests) \subseteq DOMAIN rows
    BY <1>1, <1>4 DEF pins_for, PinsAgree, RowPins, DeclarationHolds
  <2>2. Parts(pins_for(req)) = [i \in DOMAIN req.digests |-> rows[req.digests[i]]]
    BY <1>1, <2>1, RowPinsResolve
  <2> QED BY <1>1, <1>4, <2>1, <2>2 DEF GroupParts
<1>5. CASE Pinned(req) = None /\ req.digests # <<>> /\ req.pins = None
  <2>1. /\ pins_for(req) = declared_pins(req.digests, None)
        /\ DeclarationHolds(req.digests, None)
        /\ ToSet(req.digests) \subseteq DOMAIN rows
    BY <1>1, <1>5 DEF pins_for, PinsAgree, DeclarationHolds
  <2>2. Parts(pins_for(req)) = [i \in DOMAIN req.digests |-> rows[req.digests[i]]]
    BY <1>1, <2>1, DeclaredPins
  <2> QED BY <1>1, <1>5, <2>1, <2>2 DEF GroupParts
<1> QED BY <1>2, <1>3, <1>4, <1>5

\* composed_for: a refusal, or the readings of the pins.
LEMMA Composed ==
  ASSUME StoreInv, ComparisonAssumption, NEW req \in Requests
  PROVE  /\ composed_for(req) \in {None} \cup ContentSet
         /\ PinsAgree(req) =>
              composed_for(req) = [prompt |-> req.prompt, mode |-> req.mode,
                                   parts |-> Parts(pins_for(req))]
<1>1. CASE ~PinsAgree(req)
  BY <1>1 DEF composed_for
<1>2. CASE PinsAgree(req)
  <2> DEFINE pins == pins_for(req)
             content == [prompt |-> req.prompt, mode |-> req.mode, parts |-> Parts(pins)]
  <2>1. pins \in Seq(PinSet) /\ AllResolve(pins) /\ req.mode \in Modes
    BY <1>2, PinsForResolve DEF ComparisonAssumption
  <2>2. composed_for(req) = content
    BY <1>2, <2>1 DEF composed_for, compose_from_pins, Parts
  <2>3. Parts(pins) \in Seq(ReadingSet)
    <3> HIDE DEF pins
    <3>1. \A i \in 1..Len(pins) : pins[i] \in PinSet
      BY <2>1
    <3>2. \A i \in 1..Len(pins) : ReadingOf(pins[i]) \in ReadingSet
      BY <3>1 DEF PinSet, ReadingSet, ReadingOf, Reading
    <3>3. Parts(pins) = [i \in 1..Len(pins) |-> ReadingOf(pins[i])] /\ Len(pins) \in Nat
      BY <2>1 DEF Parts
    <3> QED BY <3>2, <3>3
  <2> HIDE DEF pins
  <2> QED BY <2>1, <2>2, <2>3 DEF ContentSet, pins
<1> QED BY <1>1, <1>2

-----------------------------------------------------------------------------
(* What is stored only grows.                                              *)

Grown ==
  /\ \A d \in DOMAIN rows : d \in DOMAIN rows' /\ rows'[d] = rows[d]
  /\ readings \subseteq readings'
  /\ \A c \in DOMAIN captures : c \in DOMAIN captures' /\ captures'[c] = captures[c]
  /\ \A g \in DOMAIN groups : g \in DOMAIN groups' /\ groups'[g] = groups[g]

LEMMA ResolveGrows ==
  ASSUME Grown, NEW pins, AllResolve(pins)
  PROVE  AllResolve(pins)'
  BY DEF Grown, AllResolve, resolve_rendition

LEMMA UnchangedGrows ==
  ASSUME StoreInv, UNCHANGED database
  PROVE  RowsAreReadings' /\ PinsResolve' /\ Grown
  BY DEF database, StoreInv, RowsAreReadings, PinsResolve, AllResolve, resolve_rendition, Grown

LEMMA RenditionType ==
  ASSUME TypeOK, ComparisonAssumption, NEW d \in Digest, NEW e \in Extractors
  PROVE  rendition_of(d, e) \in ReadingSet
  BY DEF TypeOK, ComparisonAssumption, rendition_of, Reading, ReadingSet

\* save_attachment: a first reading makes the row, a later one leaves it.
LEMMA SaveAttachment ==
  ASSUME StoreInv, NEW r \in ReadingSet, save_attachment(r), UNCHANGED groups,
         \/ UNCHANGED captures
         \/ captures' = Append(captures, r)
  PROVE  /\ DOMAIN rows' \subseteq Digest /\ readings' \subseteq ReadingSet
         /\ captures' \in Seq(ReadingSet)
         /\ RowsAreReadings' /\ PinsResolve' /\ Grown
<1>1. /\ DOMAIN rows \subseteq Digest /\ readings \subseteq ReadingSet
      /\ captures \in Seq(ReadingSet) /\ r.digest \in Digest
      /\ readings' = readings \cup {r}
      /\ RowsAreReadings /\ PinsResolve
  BY DEF StoreInv, TypeOK, ReadingSet, save_attachment
<1>2. /\ DOMAIN rows' = DOMAIN rows \cup {r.digest}
      /\ \A d \in DOMAIN rows : rows'[d] = rows[d]
      /\ r.digest \notin DOMAIN rows => rows'[r.digest] = r
  BY DEF save_attachment
<1>3. captures' \in Seq(ReadingSet)
      /\ \A c \in DOMAIN captures : c \in DOMAIN captures' /\ captures'[c] = captures[c]
  BY <1>1
<1>4. Grown
  BY <1>1, <1>2, <1>3 DEF Grown
<1>5. RowsAreReadings'
  BY <1>1, <1>2 DEF RowsAreReadings
<1>6. PinsResolve'
  BY <1>1, <1>4, ResolveGrows DEF PinsResolve
<1> QED BY <1>1, <1>2, <1>3, <1>4, <1>5, <1>6

\* create_group: the row it adds pins what resolves.
LEMMA GroupStep ==
  ASSUME StoreInv, ComparisonAssumption, NEW body \in Declarations, create_group(body)
  PROVE  StoreInv' /\ Grown
<1> DEFINE pins == declared_pins(body.digests, body.pins)
           attached == body.digests # <<>>
           row == [body EXCEPT !.digests = IF attached THEN Digests(pins) ELSE None,
                               !.mode = IF attached THEN body.mode ELSE None,
                               !.pins = IF attached THEN pins ELSE None]
<1>1. /\ TypeOK /\ RowsAreReadings /\ PinsResolve
      /\ body \in BodySet /\ body.digests \in Seq(Digest) /\ body.mode \in Modes
  BY DEF StoreInv, ComparisonAssumption
<1>2. body.pins \in {None} \cup Seq(PinSet)
  BY <1>1 DEF BodySet
<1>3. /\ Len(groups) < MaxGroups /\ groups' = Append(groups, row)
      /\ attached => DeclarationHolds(body.digests, body.pins)
      /\ UNCHANGED <<parser, rows, readings, captures, waiting, calling, runs>>
  BY DEF create_group
<1>4. attached => pins \in Seq(PinSet) /\ AllResolve(pins) /\ Digests(pins) = body.digests
  BY <1>1, <1>2, <1>3, DeclaredPins
<1> HIDE DEF pins
<1>5. row.digests = (IF attached THEN Digests(pins) ELSE None)
      /\ row.pins = (IF attached THEN pins ELSE None)
  BY <1>1 DEF BodySet
<1>6. row \in BodySet
  BY <1>1, <1>4 DEF BodySet
<1> HIDE DEF row
<1>7. /\ groups' \in Seq(BodySet) /\ Len(groups') <= MaxGroups
      /\ Len(groups') = Len(groups) + 1
      /\ \A g \in DOMAIN groups : g \in DOMAIN groups' /\ groups'[g] = groups[g]
      /\ \A g \in DOMAIN groups' : g \in DOMAIN groups \/ groups'[g] = row
  BY <1>1, <1>3, <1>6 DEF TypeOK, ComparisonAssumption
<1>8. Grown
  BY <1>3, <1>7 DEF Grown
<1>9. TypeOK'
  BY <1>1, <1>3, <1>7 DEF TypeOK
<1>10. RowsAreReadings'
  BY <1>1, <1>3 DEF RowsAreReadings
<1>11. PinsResolve'
  <2> SUFFICES ASSUME NEW g \in DOMAIN groups', NEW ps, ps = groups'[g].pins, ps # None
               PROVE  /\ AllResolve(ps)'
                      /\ groups'[g].digests = Digests(ps) /\ groups'[g].digests # <<>>
    BY DEF PinsResolve, Digests, AllResolve, resolve_rendition
  <2>1. CASE g \in DOMAIN groups
    <3>1. groups'[g] = groups[g]
      BY <1>7, <2>1
    <3>2. AllResolve(ps) /\ groups[g].digests = Digests(ps) /\ groups[g].digests # <<>>
      BY <1>1, <2>1, <3>1 DEF PinsResolve
    <3> QED BY <1>8, <3>1, <3>2, ResolveGrows
  <2>2. CASE groups'[g] = row
    <3>1. attached /\ ps = pins /\ row.digests = Digests(ps) /\ Digests(ps) = body.digests
      BY <1>4, <1>5, <2>2
    <3> QED BY <1>4, <1>8, <2>2, <3>1, ResolveGrows
  <2> QED BY <1>7, <2>1, <2>2
<1> QED BY <1>8, <1>9, <1>10, <1>11 DEF StoreInv

\* The members' types, through the three steps a member takes.
LEMMA EnterType ==
  ASSUME StoreInv, ComparisonAssumption, NEW req \in Requests, Enter(req)
  PROVE  TypeOK'
<1> DEFINE m == [req |-> req, group |-> req.group, pins |-> pins_for(req),
                 content |-> IF Deferred(req) THEN None ELSE composed_for(req)]
<1>1. /\ PinsAgree(req) /\ waiting' = waiting \cup {m}
      /\ UNCHANGED <<parser, rows, readings, captures, groups, calling, runs>>
  BY DEF Enter, Admitted, database
<1>2. /\ pins_for(req) \in Seq(PinSet)
      /\ composed_for(req) \in {None} \cup ContentSet
  BY <1>1, PinsForResolve, Composed
<1>3. m \in MemberSet
  BY <1>2 DEF MemberSet
<1> HIDE DEF m
<1> QED BY <1>1, <1>3 DEF StoreInv, TypeOK

LEMMA SendType ==
  ASSUME StoreInv, ComparisonAssumption, NEW m \in waiting, Send(m)
  PROVE  TypeOK'
<1> DEFINE sent == [m EXCEPT !.content = IF Deferred(m.req) THEN composed_for(m.req)
                                         ELSE m.content]
<1>1. /\ waiting' = waiting \ {m} /\ calling' = calling \cup {sent}
      /\ UNCHANGED <<parser, rows, readings, captures, groups, runs>>
  BY DEF Send, database
<1>2. m \in MemberSet
  BY DEF StoreInv, TypeOK
<1>3. composed_for(m.req) \in {None} \cup ContentSet
  <2>1. m.req \in Requests
    BY <1>2 DEF MemberSet
  <2> QED BY <2>1, Composed
<1>4. sent \in MemberSet
  BY <1>2, <1>3 DEF MemberSet
<1> HIDE DEF sent
<1> QED BY <1>1, <1>4 DEF StoreInv, TypeOK

LEMMA SaveType ==
  ASSUME StoreInv, NEW m \in calling, Save(m)
  PROVE  TypeOK'
<1> DEFINE run == [m EXCEPT !.group = IF m.group \in DOMAIN groups THEN m.group ELSE None]
<1>1. /\ calling' = calling \ {m} /\ runs' = Append(runs, run)
      /\ UNCHANGED <<parser, rows, readings, captures, groups, waiting>>
  BY DEF Save, database
<1>2. run \in MemberSet
  BY DEF StoreInv, TypeOK, MemberSet
<1> HIDE DEF run
<1> QED BY <1>1, <1>2 DEF StoreInv, TypeOK

LEMMA StoreStep ==
  ASSUME StoreInv, ComparisonAssumption, [Next]_vars
  PROVE  StoreInv' /\ Grown
<1>1. ASSUME NEW f \in Files, NEW e \in {"parser", "none"}, create_attachment(f, e)
      PROVE  StoreInv' /\ Grown
  <2>1. rendition_of(f, e) \in ReadingSet
    BY RenditionType DEF StoreInv, Digest, Extractors
  <2>2. /\ save_attachment(rendition_of(f, e))
        /\ UNCHANGED <<parser, captures, groups, waiting, calling, runs>>
    BY <1>1 DEF create_attachment
  <2>3. /\ DOMAIN rows' \subseteq Digest /\ readings' \subseteq ReadingSet
        /\ RowsAreReadings' /\ PinsResolve' /\ Grown
    BY <2>1, <2>2, SaveAttachment
  <2> QED BY <2>2, <2>3 DEF StoreInv, TypeOK
<1>2. ASSUME NEW t \in Trees, NEW recorded \in BOOLEAN, create_snapshot(t, recorded)
      PROVE  StoreInv' /\ Grown
  <2> DEFINE r == rendition_of(t, "snapshot")
  <2>1. r \in ReadingSet
    BY RenditionType DEF StoreInv, Digest, Extractors
  <2>2. /\ save_attachment(r)
        /\ captures' = captures \/ captures' = Append(captures, r)
        /\ UNCHANGED <<parser, groups, waiting, calling, runs>>
    BY <1>2 DEF create_snapshot
  <2> HIDE DEF r
  <2>3. /\ DOMAIN rows' \subseteq Digest /\ readings' \subseteq ReadingSet
        /\ captures' \in Seq(ReadingSet)
        /\ RowsAreReadings' /\ PinsResolve' /\ Grown
    BY <2>1, <2>2, SaveAttachment
  <2> QED BY <2>2, <2>3 DEF StoreInv, TypeOK
<1>3. ASSUME NEW body \in Declarations, create_group(body) PROVE StoreInv' /\ Grown
  BY <1>3, GroupStep
<1>4. ASSUME NEW req \in Requests, Enter(req) PROVE StoreInv' /\ Grown
  <2>1. UNCHANGED database
    BY <1>4 DEF Enter
  <2> QED BY <1>4, <2>1, EnterType, UnchangedGrows DEF StoreInv
<1>5. ASSUME NEW m \in waiting, Send(m) PROVE StoreInv' /\ Grown
  <2>1. UNCHANGED database
    BY <1>5 DEF Send
  <2> QED BY <1>5, <2>1, SendType, UnchangedGrows DEF StoreInv
<1>6. ASSUME NEW m \in calling, Save(m) PROVE StoreInv' /\ Grown
  <2>1. UNCHANGED database
    BY <1>6 DEF Save
  <2> QED BY <1>6, <2>1, SaveType, UnchangedGrows DEF StoreInv
<1>7. ASSUME NEW v \in Versions, Restart(v) PROVE StoreInv' /\ Grown
  <2>1. UNCHANGED database /\ TypeOK'
    BY <1>7 DEF Restart, StoreInv, TypeOK, database
  <2> QED BY <2>1, UnchangedGrows DEF StoreInv
<1>8. CASE UNCHANGED vars
  <2>1. UNCHANGED database /\ TypeOK'
    BY <1>8 DEF vars, StoreInv, TypeOK, database
  <2> QED BY <2>1, UnchangedGrows DEF StoreInv
<1> QED BY <1>1, <1>2, <1>3, <1>4, <1>5, <1>6, <1>7, <1>8 DEF Next

\* The captures of earlier builds, in whatever order their ids give.
LEMMA OldCaptures ==
  ASSUME NEW S, IsFiniteSet(S)
  PROVE  SetToSeq(S) \in Seq(S)
<1>1. Cardinality(S) \in Nat /\ ExistsBijection(1..Cardinality(S), S)
  BY FS_CardinalityType
<1>2. PICK f \in Bijection(1..Cardinality(S), S) : TRUE
  BY <1>1 DEF ExistsBijection
<1>3. f \in [1..Cardinality(S) -> S] /\ IsInjective(f)
  BY <1>2 DEF Bijection, Injection, IsInjective
<1>4. SetToSeq(S) \in [1..Cardinality(S) -> S]
  BY <1>3 DEF SetToSeq
<1> QED BY <1>1, <1>4

LEMMA InitStore == ASSUME Init, ComparisonAssumption PROVE StoreInv
<1> DEFINE walked == {r \in OldReadings : r.extractor = "snapshot"}
<1>1. /\ readings = OldReadings /\ OldReadings \subseteq ReadingSet
      /\ rows = [d \in {r.digest : r \in OldReadings} |->
                   CHOOSE r \in OldReadings : r.digest = d]
      /\ captures = SetToSeq(walked)
      /\ groups = OldGroups /\ groups \in Seq(BodySet) /\ Len(groups) <= MaxGroups
      /\ \A g \in DOMAIN groups : groups[g].pins = None
      /\ parser \in Versions /\ waiting = {} /\ calling = {} /\ runs = <<>>
  BY DEF Init, ComparisonAssumption
<1>2. RowsAreReadings
  BY <1>1 DEF RowsAreReadings
<1>3. DOMAIN rows \subseteq Digest
  BY <1>1 DEF ReadingSet
<1>4. captures \in Seq(ReadingSet)
  <2>1. IsFiniteSet(walked) /\ walked \subseteq ReadingSet
    BY <1>1, FS_Subset DEF ComparisonAssumption
  <2>2. SetToSeq(walked) \in Seq(walked)
    <3> HIDE DEF walked
    <3> QED BY <2>1, OldCaptures
  <2> HIDE DEF walked
  <2> QED BY <1>1, <2>1, <2>2
<1>5. TypeOK
  BY <1>1, <1>3, <1>4 DEF TypeOK
<1> QED BY <1>1, <1>2, <1>5 DEF StoreInv, PinsResolve

\* Whatever a group pinned is there for every member to come, and a digest's
\* row is a reading on file, whatever is uploaded, walked, declared, upgraded
\* or restarted, and whichever ids a request guesses.
THEOREM PinsAlwaysHonoured == Spec => []PinsAreHonourable
<1>1. Init => StoreInv
  BY InitStore, ComparisonAssumption
<1>2. StoreInv /\ [Next]_vars => StoreInv'
  BY StoreStep, ComparisonAssumption
<1>3. StoreInv => PinsAreHonourable
  BY DEF StoreInv, PinsAreHonourable, RowsAreReadings, PinsResolve
<1> QED BY <1>1, <1>2, <1>3, PTL DEF Spec

-----------------------------------------------------------------------------
(* The members.  Here a request names only groups that are there.          *)

\* A group that comes later is nobody's yet.
LEMMA LaterGroups ==
  ASSUME TypeOK, NEW m, Known(m), Len(groups') <= MaxGroups, groups' \in Seq(BodySet),
         ComparisonAssumption, m.group \in DOMAIN groups'
  PROVE  m.group \in DOMAIN groups
  BY DEF Known, TypeOK, ComparisonAssumption

LEMMA MemberKept ==
  ASSUME StoreInv, Grown, NEW m, MemberInv(m),
         m.group \in DOMAIN groups' => m.group \in DOMAIN groups
  PROVE  MemberInv(m)'
<1>1. SUFFICES ASSUME m.group \in DOMAIN groups, Conforms(m) PROVE Conforms(m)'
  BY DEF MemberInv, ContentOf, Parts, kind_of, ReadingOf, Reading
<1> DEFINE g == m.group
<1>2. g \in DOMAIN groups' /\ groups'[g] = groups[g]
  BY <1>1 DEF Grown
<1>3. GroupDigests(g)' = GroupDigests(g)
  BY <1>2 DEF GroupDigests
<1>4. groups[g].pins = None => ToSet(GroupDigests(g)) \subseteq DOMAIN rows
  BY <1>1 DEF Conforms
<1>5. GroupParts(g)' = GroupParts(g)
  <2>1. CASE groups[g].pins # None
    BY <1>2, <2>1 DEF GroupParts, Parts, ReadingOf, Reading
  <2>2. CASE groups[g].pins = None
    <3>1. \A i \in DOMAIN GroupDigests(g) : GroupDigests(g)[i] \in DOMAIN rows
      BY <1>4, <2>2 DEF ToSet
    <3> QED BY <1>2, <1>3, <2>2, <3>1 DEF GroupParts, Grown
  <2> QED BY <2>1, <2>2
<1>6. Parts(m.pins)' = Parts(m.pins)
  BY DEF Parts, ReadingOf, Reading
<1>7. groups[g].pins = None => ToSet(GroupDigests(g)) \subseteq DOMAIN rows'
  BY <1>4 DEF Grown
<1> QED BY <1>1, <1>2, <1>3, <1>5, <1>6, <1>7 DEF Conforms

\* Images have no captures to fill in.
LEMMA ImagesUncaptured ==
  ASSUME NEW pins \in Seq(PinSet), \A i \in DOMAIN pins : with_captures(pins)[i].kind = "image"
  PROVE  with_captures(pins) = pins /\ with_captures(pins)' = pins
<1>1. \A i \in DOMAIN pins : pins[i] \in PinSet
  OBVIOUS
<1>2. \A i \in DOMAIN pins : pins[i].kind = "image"
  BY <1>1, WithCapturesKeeps
<1> QED BY <1>2 DEF with_captures

LEMMA RowPinsKept ==
  ASSUME Grown, NEW digests, ToSet(digests) \subseteq DOMAIN rows
  PROVE  RowPins(digests)' = RowPins(digests)
<1>1. \A i \in DOMAIN digests : digests[i] \in DOMAIN rows
  BY DEF ToSet
<1>2. \A i \in DOMAIN digests : rows'[digests[i]] = rows[digests[i]]
  BY <1>1 DEF Grown
<1> QED BY <1>2 DEF RowPins, row_rendition, Pin

LEMMA DeclarationKept ==
  ASSUME Grown, NEW digests, NEW declared, DeclarationHolds(digests, declared)
  PROVE  DeclarationHolds(digests, declared)'
<1>1. CASE declared = None
  BY <1>1 DEF DeclarationHolds, Grown, ToSet
<1>2. CASE declared # None
  <2>1. Digests(declared) = digests /\ AllResolve(declared)
    BY <1>2 DEF DeclarationHolds
  <2>2. AllResolve(declared)' /\ Digests(declared)' = digests
    BY <2>1, ResolveGrows DEF Digests
  <2> QED BY <1>2, <2>2 DEF DeclarationHolds
<1> QED BY <1>1, <1>2

\* The pins of a member whose slot composes it are images, and stay what they
\* were when it was let in.
LEMMA AwaitsKept ==
  ASSUME StoreInv, ComparisonAssumption, Grown, NEW m \in MemberSet, Awaits(m),
         m.req.group \in DOMAIN groups' => m.req.group \in DOMAIN groups
  PROVE  Awaits(m)'
<1> DEFINE req == m.req
<1>1. /\ req \in Requests /\ req.digests \in Seq(Digest)
      /\ req.pins \in {None} \cup Seq(PinSet)
      /\ TypeOK /\ RowsAreReadings
  BY DEF MemberSet, ComparisonAssumption, StoreInv
<1>2. PinsAgree(req) /\ m.pins = pins_for(req) /\ \A i \in DOMAIN m.pins : m.pins[i].kind = "image"
  BY DEF Awaits
<1>3. Pinned(req)' = Pinned(req)
  BY DEF Pinned, Group, Grown, Silent
<1> SUFFICES PinsAgree(req)' /\ pins_for(req)' = m.pins
  BY <1>2 DEF Awaits
<1> HIDE DEF req
<1>4. CASE Pinned(req) # None
  <2>1. pins_for(req)' = m.pins
    BY <1>2, <1>3, <1>4 DEF pins_for
  <2>2. ASSUME req.pins # None PROVE with_captures(req.pins)' = Pinned(req)
    <3>1. with_captures(req.pins) = m.pins /\ req.pins \in Seq(PinSet)
      BY <1>1, <1>2, <1>4, <2>2 DEF PinsAgree, pins_for
    <3>2. DOMAIN with_captures(req.pins) = DOMAIN req.pins
      BY DEF with_captures
    <3>3. with_captures(req.pins)' = req.pins /\ with_captures(req.pins) = req.pins
      BY <1>2, <3>1, <3>2, ImagesUncaptured
    <3> QED BY <1>2, <1>4, <3>1, <3>3 DEF pins_for
  <2> QED BY <1>3, <1>4, <2>1, <2>2 DEF PinsAgree
<1>5. CASE Pinned(req) = None
  <2> DEFINE resolved == req.group # None /\ req.pins # None /\ req.digests # <<>>
             declared == IF req.group # None /\ req.digests # <<>> THEN None ELSE req.pins
  <2>1. /\ DeclarationHolds(req.digests, declared)
        /\ resolved => req.pins = RowPins(req.digests)
    BY <1>2, <1>5 DEF PinsAgree, RowPins
  <2>2. DeclarationHolds(req.digests, declared)'
    <3> HIDE DEF declared
    <3>1. PICK d : d = declared
      OBVIOUS
    <3>2. DeclarationHolds(req.digests, d)'
      BY <2>1, <3>1, DeclarationKept
    <3> QED BY <3>1, <3>2 DEF declared
  <2>3. declared = None => /\ RowPins(req.digests)' = RowPins(req.digests)
                           /\ RowPins(req.digests) \in Seq(PinSet)
    <3>1. SUFFICES ASSUME declared = None PROVE ToSet(req.digests) \subseteq DOMAIN rows
      BY <1>1, RowPinsKept, RowPinsResolve
    <3> QED BY <2>1, <3>1 DEF DeclarationHolds
  <2>4. PinsAgree(req)'
    BY <1>3, <1>5, <2>1, <2>2, <2>3 DEF PinsAgree, RowPins
  <2>5. CASE resolved
    BY <1>2, <1>3, <1>5, <2>4, <2>5 DEF pins_for
  <2>6. CASE ~resolved
    <3>1. PICK source : source = IF req.pins = None THEN RowPins(req.digests) ELSE req.pins
      OBVIOUS
    <3>2. source \in Seq(PinSet)
      BY <1>1, <2>3, <3>1
    <3>3. m.pins = with_captures(source)
      BY <1>2, <1>5, <2>6, <3>1 DEF pins_for, declared_pins, RowPins
    <3>4. DOMAIN with_captures(source) = DOMAIN source
      BY DEF with_captures
    <3>5. with_captures(source)' = source /\ with_captures(source) = source
      BY <1>2, <3>2, <3>3, <3>4, ImagesUncaptured
    <3>6. pins_for(req)' = declared_pins(req.digests, req.pins)'
      BY <1>3, <1>5, <2>6 DEF pins_for
    <3>7. declared_pins(req.digests, req.pins)' = with_captures(source)'
      <4>1. CASE req.pins = None
        <5>1. RowPins(req.digests)' = source
          BY <2>3, <3>1, <4>1
        <5>2. declared_pins(req.digests, req.pins)' = with_captures(RowPins(req.digests))'
          BY <4>1 DEF declared_pins, RowPins
        <5> QED BY <5>1, <5>2 DEF with_captures
      <4>2. CASE req.pins # None
        BY <3>1, <4>2 DEF declared_pins
      <4> QED BY <4>1, <4>2
    <3> QED BY <2>4, <3>3, <3>5, <3>6, <3>7
  <2> QED BY <2>5, <2>6
<1> QED BY <1>4, <1>5

\* Whatever is stored, a member stays what it is.
LEMMA MembersKept ==
  ASSUME StoreInv, StoreInv', Grown, ComparisonAssumption, NEW m \in MemberSet
  PROVE  /\ Waits(m) => Waits(m)'
         /\ Calls(m) => Calls(m)'
         /\ Recorded(m) => Recorded(m)'
<1>1. /\ TypeOK /\ Len(groups') <= MaxGroups /\ groups' \in Seq(BodySet)
      /\ None \notin DOMAIN groups'
  BY DEF StoreInv, TypeOK, ComparisonAssumption
<1>2. ContentOf(m)' = ContentOf(m)
  BY DEF ContentOf, Parts, ReadingOf, Reading
<1>3. ASSUME MemberInv(m), Known(m) PROVE MemberInv(m)' /\ Known(m)'
  <2>1. m.group \in DOMAIN groups' => m.group \in DOMAIN groups
    BY <1>1, <1>3, LaterGroups
  <2> QED BY <1>3, <2>1, MemberKept DEF Known, Grown
<1>4. ASSUME Known(m), Awaits(m) PROVE Awaits(m)'
  <2>1. m.req.group \in DOMAIN groups' => m.req.group \in DOMAIN groups
    <3>1. m.group \in DOMAIN groups' => m.group \in DOMAIN groups
      BY <1>1, <1>4, LaterGroups
    <3> QED BY <1>4, <3>1 DEF Known
  <2> QED BY <1>4, <2>1, AwaitsKept
<1>5. Waits(m) => Waits(m)'
  BY <1>2, <1>3, <1>4 DEF Waits, Deferred
<1>6. Calls(m) => Calls(m)'
  BY <1>2, <1>3 DEF Calls
<1>7. ASSUME Recorded(m) PROVE Recorded(m)'
  <2>1. m.group \in DOMAIN groups' => m.group \in DOMAIN groups
    BY <1>1, <1>7 DEF Recorded
  <2>2. m.group \in {None} \cup DOMAIN groups'
    BY <1>7 DEF Recorded, Grown
  <2> QED BY <1>2, <1>7, <2>1, <2>2, MemberKept DEF Recorded
<1> QED BY <1>5, <1>6, <1>7

\* enforce_mode_entry: the documents are of the kind the mode takes.
LEMMA KindsFitMode ==
  ASSUME StoreInv, ComparisonAssumption, NEW req \in Requests, Admitted(req)
  PROVE  \A i \in DOMAIN pins_for(req) :
           /\ (kind_of(pins_for(req)[i].extractor) = "image") <=> (req.mode = "native")
           /\ req.mode = "native" => pins_for(req)[i].kind = "image"
<1> DEFINE pins == pins_for(req)
<1>1. /\ PinsAgree(req) /\ enforce_mode_entry(req) /\ enforce_group_experiment(req)
      /\ AllResolve(pins)
      /\ req.mode \in Modes /\ req.digests \in Seq(Digest)
      /\ req.pins \in {None} \cup Seq(PinSet) /\ TypeOK /\ RowsAreReadings
  BY PinsForResolve DEF Admitted, ComparisonAssumption, StoreInv
<1>2. \A i \in DOMAIN pins : pins[i].kind = kind_of(pins[i].extractor)
  BY <1>1 DEF AllResolve, resolve_rendition
<1>3. CASE req.digests # <<>>
  <2>1. enforce_mode(pins, req.mode, req.models)
    BY <1>1, <1>3 DEF enforce_mode_entry
  <2> HIDE DEF pins
  <2>2. \A i \in DOMAIN pins : (pins[i].kind = "image") <=> (req.mode = "native")
    BY <1>1, <2>1 DEF enforce_mode, Modes
  <2> QED BY <1>2, <2>2 DEF pins
<1>4. CASE req.digests = <<>>
  <2>1. Pinned(req) = None
    <3>1. SUFFICES ASSUME Pinned(req) # None PROVE FALSE
      OBVIOUS
    <3>2. /\ req.group # None /\ req.group \in DOMAIN groups
          /\ groups[req.group].pins # None
          /\ Group(req.group) = groups[req.group]
      BY <3>1 DEF Pinned, Group, Silent
    <3>3. groups[req.group].digests # <<>> /\ groups[req.group].digests \in Seq(Digest)
      <4>1. /\ groups[req.group].digests = Digests(groups[req.group].pins)
            /\ groups[req.group].digests # <<>>
        BY <3>2 DEF StoreInv, PinsResolve
      <4>2. /\ groups[req.group].pins \in Seq(PinSet)
            /\ groups[req.group].digests \in {None} \cup Seq(Digest)
        BY <1>1, <3>2, GroupRow
      <4>3. groups[req.group].digests \in Seq(Digest)
        <5> DEFINE its == groups[req.group].pins
        <5>1. Digests(its) = [i \in 1..Len(its) |-> its[i].digest] /\ Len(its) \in Nat
          BY <4>2 DEF Digests
        <5>2. \A i \in 1..Len(its) : its[i] \in PinSet
          BY <4>2
        <5>3. \A i \in 1..Len(its) : its[i].digest \in Digest
          BY <5>2 DEF PinSet
        <5> HIDE DEF its
        <5>4. Digests(its) \in Seq(Digest)
          BY <5>1, <5>3
        <5> QED BY <4>1, <5>4 DEF its
      <4> QED BY <4>1, <4>3
    <3>4. attachments_agree(req)
      BY <1>1, <3>2 DEF enforce_group_experiment
    <3>5. groups[req.group].digests # None
      BY <3>3, ComparisonAssumption DEF ComparisonAssumption
    <3> QED BY <1>4, <3>2, <3>3, <3>4, <3>5 DEF attachments_agree
  <2>2. /\ pins = declared_pins(req.digests, req.pins)
        /\ DeclarationHolds(req.digests, req.pins)
    BY <1>1, <1>4, <2>1 DEF pins_for, PinsAgree
  <2>3. DOMAIN pins = {}
    BY <1>1, <1>4, <2>2, DeclaredPins
  <2> QED BY <2>3
<1> QED BY <1>3, <1>4

\* A member of a group, once admitted, is of its experiment.
LEMMA AdmittedConforms ==
  ASSUME StoreInv, ComparisonAssumption, NEW req \in Requests, Admitted(req),
         req.group \in DOMAIN groups, NEW m, m.req = req, m.group = req.group,
         m.pins = pins_for(req)
  PROVE  Conforms(m)
<1> DEFINE group == groups[req.group]
<1>1. /\ PinsAgree(req) /\ Group(req.group) = group /\ req.group # None
      /\ group_prompt(req.group) \in {None, req.prompt}
      /\ _enforce_manifest(req) /\ attachments_agree(req) /\ group.params = req.params
  BY DEF Admitted, enforce_group_experiment, Group, StoreInv, TypeOK, ComparisonAssumption
<1>2. /\ Parts(m.pins) = GroupParts(m.group)
      /\ group.pins = None => ToSet(GroupDigests(m.group)) \subseteq DOMAIN rows
  BY <1>1, PinsForGroup
<1>3. group.prompt # None => req.prompt = group.prompt
  BY <1>1 DEF group_prompt
<1>4. group.budget # None => req.budget = group.budget
  BY <1>1 DEF _enforce_manifest
<1>5. group.models # None => ToSet(req.models) \subseteq ToSet(group.models)
  <2>1. CASE req.door = "compare"
    BY <1>1, <2>1 DEF _enforce_manifest
  <2>2. CASE req.door # "compare"
    <3>1. req.models = <<req.models[1]>>
      BY <2>2 DEF ComparisonAssumption
    <3>2. ToSet(req.models) = {req.models[1]}
      BY <3>1 DEF ToSet
    <3> QED BY <1>1, <2>2, <3>2 DEF _enforce_manifest
  <2> QED BY <2>1, <2>2
<1>6. req.mode = IF group.mode = None THEN "inline" ELSE group.mode
  BY <1>1 DEF attachments_agree
<1> HIDE DEF group
<1> QED BY <1>1, <1>2, <1>3, <1>4, <1>5, <1>6 DEF Conforms, group

LEMMA EnterMember ==
  ASSUME StoreInv, ComparisonAssumption, ~Guesses, NEW req \in Requests, Enter(req),
         NEW m, m = [req |-> req, group |-> req.group, pins |-> pins_for(req),
                     content |-> IF Deferred(req) THEN None ELSE composed_for(req)]
  PROVE  Waits(m)
<1>1. /\ Admitted(req) /\ PinsAgree(req) /\ composed_for(req) # None
      /\ req.group \in 1..MaxGroups => req.group \in DOMAIN groups
  BY DEF Enter, Admitted
<1>2. /\ m.req = req /\ m.group = req.group /\ m.pins = pins_for(req)
      /\ m.content = IF Deferred(req) THEN None ELSE composed_for(req)
  OBVIOUS
<1>3. composed_for(req) = ContentOf(m)
  BY <1>1, <1>2, Composed DEF ContentOf
<1>4. MemberInv(m)
  <2>1. \A i \in DOMAIN m.pins :
          (kind_of(m.pins[i].extractor) = "image") <=> (m.req.mode = "native")
    BY <1>1, <1>2, KindsFitMode
  <2>2. m.group \in DOMAIN groups => Conforms(m)
    BY <1>1, <1>2, AdmittedConforms
  <2> QED BY <1>1, <1>3, <2>1, <2>2 DEF MemberInv
<1>5. Known(m)
  BY <1>1, <1>2 DEF Known
<1>6. Deferred(req) => Awaits(m)
  <2>1. Deferred(req) => \A i \in DOMAIN m.pins : m.pins[i].kind = "image"
    BY <1>1, <1>2, KindsFitMode DEF Deferred
  <2> QED BY <1>1, <1>2, <2>1 DEF Awaits
<1> QED BY <1>2, <1>3, <1>4, <1>5, <1>6 DEF Waits

\* A member's slot composes what its pins say, and refuses nothing.
LEMMA SendMember ==
  ASSUME StoreInv, ComparisonAssumption, NEW m \in MemberSet, Waits(m),
         NEW sent, sent = [m EXCEPT !.content = IF Deferred(m.req) THEN composed_for(m.req)
                                                ELSE @]
  PROVE  Calls(sent)
<1>1. /\ sent.req = m.req /\ sent.group = m.group /\ sent.pins = m.pins
      /\ sent.content = IF Deferred(m.req) THEN composed_for(m.req) ELSE m.content
      /\ m.req \in Requests
  BY DEF MemberSet
<1>2. ContentOf(sent) = ContentOf(m)
  BY <1>1 DEF ContentOf
<1>3. MemberInv(sent) /\ Known(sent)
  BY <1>1, <1>2 DEF Waits, MemberInv, Known, Conforms
<1>4. Deferred(m.req) => composed_for(m.req) = ContentOf(m)
  BY <1>1, Composed DEF Waits, Awaits, ContentOf
<1> QED BY <1>1, <1>2, <1>3, <1>4 DEF Calls, Waits

LEMMA SaveMember ==
  ASSUME NEW m \in MemberSet, Calls(m),
         NEW run, run = [m EXCEPT !.group = IF @ \in DOMAIN groups THEN @ ELSE None]
  PROVE  StoreInv /\ ComparisonAssumption => Recorded(run)
<1> SUFFICES ASSUME StoreInv, ComparisonAssumption PROVE Recorded(run)
  OBVIOUS
<1>1. /\ run.req = m.req /\ run.pins = m.pins /\ run.content = m.content
      /\ run.group = IF m.group \in DOMAIN groups THEN m.group ELSE None
      /\ None \notin DOMAIN groups
  BY DEF MemberSet, StoreInv, TypeOK, ComparisonAssumption
<1>2. ContentOf(run) = ContentOf(m)
  BY <1>1 DEF ContentOf
<1>3. MemberInv(run)
  BY <1>1, <1>2 DEF Calls, MemberInv, Conforms
<1> QED BY <1>1, <1>2, <1>3 DEF Calls, Recorded

LEMMA MembersStep ==
  ASSUME StoreInv, StoreInv', MembersInv, ComparisonAssumption, ~Guesses, [Next]_vars
  PROVE  MembersInv'
<1>1. Grown /\ waiting \subseteq MemberSet /\ calling \subseteq MemberSet
      /\ runs \in Seq(MemberSet)
  BY StoreStep DEF StoreInv, TypeOK
<1>2. /\ \A m \in waiting : Waits(m)'
      /\ \A m \in calling : Calls(m)'
      /\ \A i \in DOMAIN runs : Recorded(runs[i]) /\ runs[i] \in MemberSet
  BY <1>1, MembersKept DEF MembersInv
<1>3. \A m \in MemberSet : Recorded(m) => Recorded(m)'
  BY <1>1, MembersKept
<1>4. ASSUME waiting' \subseteq waiting, calling' \subseteq calling, UNCHANGED runs
      PROVE  MembersInv'
  BY <1>2, <1>3, <1>4 DEF MembersInv
<1>5. ASSUME NEW req \in Requests, Enter(req) PROVE MembersInv'
  <2>1. PICK m : m = [req |-> req, group |-> req.group, pins |-> pins_for(req),
                      content |-> IF Deferred(req) THEN None ELSE composed_for(req)]
    OBVIOUS
  <2>2. Waits(m)
    BY <1>5, <2>1, EnterMember
  <2>3. waiting' = waiting \cup {m} /\ UNCHANGED <<calling, runs>>
    BY <1>5, <2>1 DEF Enter
  <2>4. m \in MemberSet
    BY <2>3 DEF StoreInv, TypeOK
  <2>5. Waits(m)'
    BY <1>1, <2>2, <2>4, MembersKept
  <2> QED BY <1>2, <1>3, <2>3, <2>5 DEF MembersInv
<1>6. ASSUME NEW m \in waiting, Send(m) PROVE MembersInv'
  <2>1. PICK sent : sent = [m EXCEPT !.content = IF Deferred(m.req) THEN composed_for(m.req)
                                                 ELSE @]
    OBVIOUS
  <2>2. Calls(sent)
    BY <1>1, <2>1, SendMember DEF MembersInv
  <2>3. waiting' = waiting \ {m} /\ calling' = calling \cup {sent} /\ UNCHANGED runs
    BY <1>6, <2>1 DEF Send
  <2>4. sent \in MemberSet
    BY <2>3 DEF StoreInv, TypeOK
  <2>5. Calls(sent)'
    BY <1>1, <2>2, <2>4, MembersKept
  <2> QED BY <1>2, <1>3, <2>3, <2>5 DEF MembersInv
<1>7. ASSUME NEW m \in calling, Save(m) PROVE MembersInv'
  <2>1. PICK run : run = [m EXCEPT !.group = IF @ \in DOMAIN groups THEN @ ELSE None]
    OBVIOUS
  <2>2. Recorded(run)
    BY <1>1, <2>1, SaveMember DEF MembersInv
  <2>3. calling' = calling \ {m} /\ runs' = Append(runs, run) /\ UNCHANGED waiting
    BY <1>7, <2>1 DEF Save
  <2>4. run \in MemberSet
    <3>1. runs' \in Seq(MemberSet) /\ Len(runs') = Len(runs) + 1 /\ runs'[Len(runs) + 1] = run
      BY <1>1, <2>3 DEF StoreInv, TypeOK
    <3> QED BY <1>1, <3>1
  <2>5. \A i \in DOMAIN runs' : (i \in DOMAIN runs /\ runs'[i] = runs[i]) \/ runs'[i] = run
    BY <1>1, <2>3
  <2>6. Recorded(run)'
    BY <1>3, <2>2, <2>4
  <2>7. ASSUME NEW i \in DOMAIN runs' PROVE Recorded(runs[i])'
    <3>1. PICK r : r = runs'[i]
      OBVIOUS
    <3>2. Recorded(r)'
      BY <1>2, <1>3, <2>5, <2>6, <3>1
    <3> QED BY <3>1, <3>2
  <2> QED BY <1>2, <2>3, <2>7 DEF MembersInv
<1>8. CASE UNCHANGED <<waiting, calling, runs>>
  BY <1>4, <1>8
<1>9. ASSUME NEW v \in Versions, Restart(v) PROVE MembersInv'
  BY <1>4, <1>9 DEF Restart
<1>10. ASSUME NEW f \in Files, NEW e \in {"parser", "none"}, create_attachment(f, e)
       PROVE  MembersInv'
  BY <1>8, <1>10 DEF create_attachment
<1>11. ASSUME NEW t \in Trees, NEW recorded \in BOOLEAN, create_snapshot(t, recorded)
       PROVE  MembersInv'
  BY <1>8, <1>11 DEF create_snapshot
<1>12. ASSUME NEW body \in Declarations, create_group(body) PROVE MembersInv'
  BY <1>8, <1>12 DEF create_group
<1> QED BY <1>5, <1>6, <1>7, <1>8, <1>9, <1>10, <1>11, <1>12 DEF Next, vars

LEMMA SentConforms ==
  ASSUME TypeOK, MembersInv, NEW m \in Sent
  PROVE  MemberInv(m) /\ m.content = ContentOf(m)
<1>1. m \in calling \/ \E i \in DOMAIN runs : m = runs[i]
  BY DEF Sent, ToSet
<1> QED BY <1>1 DEF MembersInv, Calls, Recorded

LEMMA SentIsRecorded ==
  ASSUME TypeOK, MembersInv PROVE RecordsWhatWasSent
<1> SUFFICES ASSUME NEW m \in Sent
             PROVE  /\ m.content # None
                    /\ m.content.parts = [i \in DOMAIN m.pins |-> ReadingOf(m.pins[i])]
                    /\ \A i \in DOMAIN m.content.parts :
                         (kind_of(m.content.parts[i].extractor) = "image")
                            <=> (m.content.mode = "native")
  BY DEF RecordsWhatWasSent
<1>1. MemberInv(m) /\ m.content = ContentOf(m)
  BY SentConforms
<1>2. /\ m.content.parts = Parts(m.pins) /\ m.content.mode = m.req.mode
      /\ m.content # None
  BY <1>1 DEF MemberInv, ContentOf
<1>3. \A i \in DOMAIN m.pins :
        (kind_of(m.pins[i].extractor) = "image") <=> (m.req.mode = "native")
  BY <1>1 DEF MemberInv
<1>4. \A i \in DOMAIN m.pins : Parts(m.pins)[i].extractor = m.pins[i].extractor
  BY DEF Parts, ReadingOf, Reading
<1> QED BY <1>2, <1>3, <1>4 DEF Parts

LEMMA SentIsOneExperiment ==
  ASSUME TypeOK, MembersInv PROVE OneExperiment
<1>1. \A m \in Sent : /\ m.content = ContentOf(m)
                      /\ m.group \in DOMAIN groups => Conforms(m)
  BY SentConforms DEF MemberInv
<1>2. ASSUME NEW m \in Sent
      PROVE  /\ m.content.parts = Parts(m.pins)
             /\ m.content.mode = m.req.mode /\ m.content.prompt = m.req.prompt
  <2>1. m.content = ContentOf(m)
    BY <1>1
  <2> QED BY <2>1 DEF ContentOf
<1> QED BY <1>1, <1>2 DEF OneExperiment, Conforms

\* What a run records of its documents is what its models were sent, though a
\* native stream's content is built later than it was checked.
THEOREM RecordsAreTrue == ASSUME ~Guesses PROVE Spec => []RecordsWhatWasSent
<1>1. Init => StoreInv /\ MembersInv
  BY InitStore, ComparisonAssumption DEF Init, MembersInv
<1>2. StoreInv /\ MembersInv /\ [Next]_vars => StoreInv' /\ MembersInv'
  BY StoreStep, MembersStep, ComparisonAssumption
<1>3. StoreInv /\ MembersInv => RecordsWhatWasSent
  BY SentIsRecorded DEF StoreInv
<1> QED BY <1>1, <1>2, <1>3, PTL DEF Spec

\* The members of one comparison send one set of readings in one mode under
\* one set of controls, to models of its lineup.
THEOREM ComparisonsAreFair == ASSUME ~Guesses PROVE Spec => []OneExperiment
<1>1. Init => StoreInv /\ MembersInv
  BY InitStore, ComparisonAssumption DEF Init, MembersInv
<1>2. StoreInv /\ MembersInv /\ [Next]_vars => StoreInv' /\ MembersInv'
  BY StoreStep, MembersStep, ComparisonAssumption
<1>3. StoreInv /\ MembersInv => OneExperiment
  BY SentIsOneExperiment DEF StoreInv
<1> QED BY <1>1, <1>2, <1>3, PTL DEF Spec
-----------------------------------------------------------------------------
(***************************************************************************)
(* The comparison's blind ratings (BlindSession), for any comparisons and  *)
(* any number of results, tokens, ratings and restarts: a rating recorded  *)
(* blind came from a view that could be blind.                             *)
(***************************************************************************)
\* A view shows results of its comparison; results never move.
ViewsShowResults ==
  \A k \in DOMAIN views : \A r \in views[k].shown :
    r \in DOMAIN results /\ results[r] = views[k].group

\* A live token is that of a view this process handed out for the comparison.
TokensAreViews ==
  \A g \in Groups : sessions[g] \notin {NoToken, Revealed} =>
    \A k \in DOMAIN sessions[g] :
      /\ k \in DOMAIN views
      /\ views[k].group = g /\ views[k].boot = boot
      /\ sessions[g][k] = views[k].shown

\* No comparison whose key this process gave away is open again.
KeysCloseSessions == \A g \in Groups : <<g, boot>> \in keyed => sessions[g] = Revealed

\* A blind rating is of a result on record, under a token handed out.
BlindIsOfAView ==
  \A s \in scores : s.blind => s.result \in DOMAIN results /\ s.token \in DOMAIN views

BlindInv == /\ BlindTypeOK /\ ViewsShowResults /\ TokensAreViews /\ KeysCloseSessions
        /\ BlindIsOfAView /\ BlindIsAttested

-----------------------------------------------------------------------------
LEMMA BlindStarts == BlindInit => BlindInv
<1> SUFFICES ASSUME BlindInit PROVE BlindInv
  OBVIOUS
<1>1. BlindTypeOK
  BY BlindAssumption DEF BlindInit, BlindTypeOK, Session
<1>2. ViewsShowResults /\ TokensAreViews /\ KeysCloseSessions
  BY DEF BlindInit, ViewsShowResults, TokensAreViews, KeysCloseSessions
<1>3. BlindIsOfAView /\ BlindIsAttested
  BY DEF BlindInit, BlindIsOfAView, BlindIsAttested
<1> QED BY <1>1, <1>2, <1>3 DEF BlindInv

\* A result more changes nothing that names the others.
LEMMA ResultStep == ASSUME BlindInv, NEW g \in Groups, save_run(g) PROVE BlindInv'
<1>1. /\ results' \in Seq(Groups) /\ Len(results') = Len(results) + 1
      /\ Len(results') <= MaxResults
      /\ \A r \in DOMAIN results : r \in DOMAIN results' /\ results'[r] = results[r]
  BY BlindAssumption DEF BlindInv, BlindTypeOK, save_run
<1>2. UNCHANGED <<scores, sessions, views, keyed, boot>>
  BY DEF save_run
<1>3. BlindTypeOK'
  BY <1>1, <1>2 DEF BlindInv, BlindTypeOK
<1>4. ViewsShowResults'
  BY <1>1, <1>2 DEF BlindInv, ViewsShowResults
<1>5. TokensAreViews' /\ KeysCloseSessions'
  BY <1>2 DEF BlindInv, TokensAreViews, KeysCloseSessions
<1>6. BlindIsOfAView' /\ BlindIsAttested'
  BY <1>1, <1>2 DEF BlindInv, BlindIsOfAView, BlindIsAttested
<1> QED BY <1>3, <1>4, <1>5, <1>6 DEF BlindInv

\* A new view is of what is there, under a token of its own.
LEMMA OpenStep == ASSUME BlindInv, NEW g \in Groups, open_blind_session(g) PROVE BlindInv'
<1> DEFINE token == Len(views) + 1
           view  == [group |-> g, shown |-> Of(g), boot |-> boot]
           open  == IF sessions[g] = NoToken THEN <<>> ELSE sessions[g]
           wider == [k \in DOMAIN open \cup {token} |->
                       IF k = token THEN Of(g) ELSE open[k]]
<1>1. /\ views' = Append(views, view)
      /\ sessions' = [sessions EXCEPT ![g] = wider]
      /\ UNCHANGED <<results, scores, keyed, boot>>
      /\ sessions[g] # Revealed /\ Len(views) < MaxTokens
  BY DEF open_blind_session
<1>2. /\ results \in Seq(Groups) /\ Len(results) \in Nat /\ Len(results) <= MaxResults
      /\ Len(views) \in Nat /\ token \in 1..MaxTokens
      /\ boot \in Nat
  BY <1>1, BlindAssumption DEF BlindInv, BlindTypeOK
<1>3. Of(g) \in SUBSET (1..MaxResults)
  BY <1>2, BlindAssumption DEF Of
<1>4. /\ views' \in Seq([group : Groups, shown : SUBSET (1..MaxResults), boot : Nat])
      /\ Len(views') = token
      /\ \A k \in DOMAIN views : k # token /\ k \in DOMAIN views' /\ views'[k] = views[k]
      /\ token \in DOMAIN views' /\ views'[token] = view
      /\ DOMAIN views' = DOMAIN views \cup {token}
  BY <1>1, <1>2, <1>3 DEF BlindInv, BlindTypeOK
<1>5. \A k \in DOMAIN open : k \in DOMAIN views
  BY <1>1 DEF BlindInv, TokensAreViews
<1>6. wider \in Session
  <2>1. DOMAIN views \subseteq 1..MaxTokens
    BY BlindAssumption DEF BlindInv, BlindTypeOK
  <2>2. DOMAIN open \cup {token} \in SUBSET (1..MaxTokens)
    BY <1>2, <1>5, <2>1
  <2>3. \A k \in DOMAIN open : open[k] \in SUBSET (1..MaxResults)
    <3>1. CASE sessions[g] = NoToken
      BY <3>1
    <3>2. CASE sessions[g] # NoToken
      <4>1. \A k \in DOMAIN open : open[k] = views[k].shown /\ k \in DOMAIN views
        BY <1>1, <3>2 DEF BlindInv, TokensAreViews
      <4>2. \A k \in DOMAIN views : views[k].shown \in SUBSET (1..MaxResults)
        <5> DEFINE View == [group : Groups, shown : SUBSET (1..MaxResults), boot : Nat]
        <5>1. views \in Seq(View)
          BY DEF BlindInv, BlindTypeOK
        <5>2. \A k \in DOMAIN views : views[k] \in View
          <6> HIDE DEF View
          <6> QED BY <5>1
        <5> QED BY <5>2
      <4> QED BY <4>1, <4>2
    <3> QED BY <3>1, <3>2
  <2>4. wider \in [DOMAIN open \cup {token} -> SUBSET (1..MaxResults)]
    BY <1>3, <2>3
  <2> QED BY <2>2, <2>4 DEF Session
<1>7. BlindTypeOK'
  <2>1. sessions' \in [Groups -> Session]
    BY <1>1, <1>6 DEF BlindInv, BlindTypeOK
  <2> QED BY <1>1, <1>2, <1>4, <2>1 DEF BlindInv, BlindTypeOK
<1>8. ViewsShowResults'
  BY <1>1, <1>2, <1>4 DEF BlindInv, ViewsShowResults, Of
<1>9. TokensAreViews'
  <2>1. sessions'[g] = wider /\ \A h \in Groups : h # g => sessions'[h] = sessions[h]
    BY <1>1 DEF BlindInv, BlindTypeOK
  <2>2. \A h \in Groups : h # g /\ sessions'[h] \notin {NoToken, Revealed} =>
           \A k \in DOMAIN sessions'[h] :
              /\ k \in DOMAIN views'
              /\ views'[k].group = h /\ views'[k].boot = boot'
              /\ sessions'[h][k] = views'[k].shown
    BY <1>1, <1>4, <2>1 DEF BlindInv, TokensAreViews
  <2>3. ASSUME NEW k \in DOMAIN wider
        PROVE  /\ k \in DOMAIN views'
               /\ views'[k].group = g /\ views'[k].boot = boot'
               /\ wider[k] = views'[k].shown
    <3>1. CASE k = token
      BY <1>1, <1>4, <3>1
    <3>2. CASE k # token
      <4>1. k \in DOMAIN open /\ wider[k] = open[k] /\ sessions[g] # NoToken
        BY <2>3, <3>2
      <4> QED BY <1>1, <1>4, <4>1 DEF BlindInv, TokensAreViews
    <3> QED BY <3>1, <3>2
  <2>4. \A k \in DOMAIN sessions'[g] :
          /\ k \in DOMAIN views'
          /\ views'[k].group = g /\ views'[k].boot = boot'
          /\ sessions'[g][k] = views'[k].shown
    <3> HIDE DEF wider, view
    <3> QED BY <2>1, <2>3
  <2> QED BY <2>2, <2>4 DEF TokensAreViews
<1>10. KeysCloseSessions'
  BY <1>1 DEF BlindInv, BlindTypeOK, KeysCloseSessions
<1>11. BlindIsOfAView' /\ BlindIsAttested'
  BY <1>1, <1>4 DEF BlindInv, BlindIsOfAView, BlindIsAttested
<1> QED BY <1>7, <1>8, <1>9, <1>10, <1>11 DEF BlindInv

LEMMA CloseStep == ASSUME BlindInv, NEW g \in Groups, close_blind_session(g) PROVE BlindInv'
<1>1. /\ sessions' = [sessions EXCEPT ![g] = Revealed] /\ keyed' = keyed \cup {<<g, boot>>}
      /\ UNCHANGED <<results, scores, views, boot>>
  BY DEF close_blind_session
<1>2. BlindTypeOK'
  BY <1>1 DEF BlindInv, BlindTypeOK, Session
<1>3. ViewsShowResults' /\ BlindIsOfAView' /\ BlindIsAttested'
  BY <1>1 DEF BlindInv, ViewsShowResults, BlindIsOfAView, BlindIsAttested
<1>4. TokensAreViews' /\ KeysCloseSessions'
  BY <1>1 DEF BlindInv, BlindTypeOK, TokensAreViews, KeysCloseSessions
<1> QED BY <1>2, <1>3, <1>4 DEF BlindInv

\* What the server says of a rating is true of it.
LEMMA SubmitStep ==
  ASSUME BlindInv, NEW g \in Groups, NEW token \in {NoToken} \cup DOMAIN views,
         NEW rated \in SUBSET DOMAIN results, NEW written \in SUBSET rated,
         submit_ratings(g, token, rated, written)
  PROVE  BlindInv'
<1> DEFINE shown == blind_session_for(g, token)
           Rating(r) == [result |-> r, token |-> token, blind |-> shown # NoToken,
                         boot |-> boot, keyed |-> {b \in 1..boot : <<g, b>> \in keyed}]
<1>1. /\ rated \subseteq Of(g)
      /\ shown # NoToken => rated \subseteq shown
      /\ scores' = scores \cup {Rating(r) : r \in written}
      /\ UNCHANGED <<results, sessions, views, keyed, boot>>
  BY DEF submit_ratings
<1>2. /\ DOMAIN results \subseteq 1..MaxResults /\ DOMAIN views \subseteq 1..MaxTokens
      /\ boot \in 1..boot
  BY BlindAssumption DEF BlindInv, BlindTypeOK
<1>3. BlindTypeOK'
  <2>1. \A r \in written : Rating(r) \in
          [result : 1..MaxResults, token : {NoToken} \cup (1..MaxTokens),
           blind : BOOLEAN, boot : 1..boot, keyed : SUBSET (1..boot)]
    BY <1>2
  <2>2. scores' \subseteq
          [result : 1..MaxResults, token : {NoToken} \cup (1..MaxTokens),
           blind : BOOLEAN, boot : 1..boot, keyed : SUBSET (1..boot)]
    <3> HIDE DEF Rating
    <3> QED BY <1>1, <2>1 DEF BlindInv, BlindTypeOK
  <2> QED BY <1>1, <2>2 DEF BlindInv, BlindTypeOK
<1>4. ASSUME shown # NoToken
      PROVE  /\ token \in DOMAIN views /\ token # NoToken
             /\ views[token].group = g /\ views[token].boot = boot
             /\ shown = views[token].shown
             /\ <<g, boot>> \notin keyed
  <2>1. sessions[g] \notin {NoToken, Revealed} /\ token \in DOMAIN sessions[g]
        /\ shown = sessions[g][token]
    BY <1>4 DEF blind_session_for
  <2>2. /\ token \in DOMAIN views
        /\ views[token].group = g /\ views[token].boot = boot
        /\ shown = views[token].shown
    BY <2>1 DEF BlindInv, TokensAreViews
  <2>3. token # NoToken
    BY <1>2, <2>2, BlindAssumption
  <2> QED BY <2>1, <2>2, <2>3 DEF BlindInv, KeysCloseSessions
<1>5. ViewsShowResults' /\ TokensAreViews' /\ KeysCloseSessions'
  BY <1>1 DEF BlindInv, ViewsShowResults, TokensAreViews, KeysCloseSessions
<1>6. ASSUME NEW s \in scores', s \notin scores, s.blind
      PROVE  /\ s.result \in DOMAIN results /\ s.token \in DOMAIN views
             /\ s.token # NoToken /\ s.result \in views[s.token].shown
             /\ results[s.result] = views[s.token].group
             /\ views[s.token].boot = s.boot
             /\ s.boot \notin s.keyed
  <2>1. PICK r \in written : s = Rating(r)
    BY <1>1, <1>6
  <2>2. /\ s.result = r /\ s.token = token /\ s.boot = boot
        /\ s.keyed = {b \in 1..boot : <<g, b>> \in keyed}
        /\ shown # NoToken
    BY <1>6, <2>1
  <2>3. r \in rated /\ r \in DOMAIN results /\ r \in Of(g)
    BY <1>1
  <2>4. results[r] = g
    BY <2>3 DEF Of
  <2>5. r \in shown
    <3> HIDE DEF shown
    <3> QED BY <1>1, <2>2, <2>3
  <2> HIDE DEF shown, Rating
  <2> QED BY <1>4, <2>2, <2>3, <2>4, <2>5
<1>7. BlindIsOfAView' /\ BlindIsAttested'
  <2> HIDE DEF shown, Rating
  <2>1. BlindIsOfAView'
    BY <1>1, <1>6 DEF BlindInv, BlindIsOfAView
  <2>2. BlindIsAttested'
    BY <1>1, <1>6 DEF BlindInv, BlindIsAttested
  <2> QED BY <2>1, <2>2
<1> QED BY <1>3, <1>5, <1>7 DEF BlindInv

\* A restart forgets the sessions and the keys it gave away with them; what
\* was recorded says which process it was.
LEMMA BlindBootStep == ASSUME BlindInv, BlindRestart PROVE BlindInv'
<1>1. /\ boot' = boot + 1 /\ sessions' = [g \in Groups |-> NoToken]
      /\ UNCHANGED <<results, scores, views, keyed>>
  BY DEF BlindRestart
<1>2. BlindTypeOK'
  <2>1. boot \in Nat /\ 1..boot \subseteq 1..boot'
    BY <1>1 DEF BlindInv, BlindTypeOK
  <2>2. keyed' \subseteq Groups \X (1..boot')
    BY <1>1, <2>1 DEF BlindInv, BlindTypeOK
  <2>3. scores' \subseteq [result : 1..MaxResults, token : {NoToken} \cup (1..MaxTokens),
                          blind : BOOLEAN, boot : 1..boot', keyed : SUBSET (1..boot')]
    BY <1>1, <2>1 DEF BlindInv, BlindTypeOK
  <2>4. sessions' \in [Groups -> Session]
    BY <1>1 DEF Session
  <2> QED BY <1>1, <2>1, <2>2, <2>3, <2>4 DEF BlindInv, BlindTypeOK
<1>3. ViewsShowResults' /\ BlindIsOfAView' /\ BlindIsAttested'
  BY <1>1 DEF BlindInv, ViewsShowResults, BlindIsOfAView, BlindIsAttested
<1>4. TokensAreViews' /\ KeysCloseSessions'
  BY <1>1 DEF BlindInv, BlindTypeOK, TokensAreViews, KeysCloseSessions
<1> QED BY <1>2, <1>3, <1>4 DEF BlindInv

LEMMA BlindStep == BlindInv /\ [BlindNext]_blindVars => BlindInv'
<1> SUFFICES ASSUME BlindInv, [BlindNext]_blindVars PROVE BlindInv'
  OBVIOUS
<1>1. CASE BlindNext
  BY <1>1, ResultStep, OpenStep, CloseStep, SubmitStep, BlindBootStep DEF BlindNext
<1>2. CASE UNCHANGED blindVars
  BY <1>2 DEF blindVars, BlindInv, BlindTypeOK, ViewsShowResults, TokensAreViews, KeysCloseSessions,
              BlindIsOfAView, BlindIsAttested
<1> QED BY <1>1, <1>2

\* Whatever is posted, when and with which token, a rating recorded blind came
\* under a token this process issued for that comparison, whose view held the
\* result, and no reveal since the boot came before it.
THEOREM BlindAlwaysAttested == BlindSpec => []BlindIsAttested
<1>1. BlindInv => BlindIsAttested
  BY DEF BlindInv
<1> QED BY <1>1, BlindStarts, BlindStep, PTL DEF BlindSpec
=============================================================================
