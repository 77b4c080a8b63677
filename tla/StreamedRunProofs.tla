------------------------- MODULE StreamedRunProofs -------------------------
(***************************************************************************)
(* Proofs about StreamedRun, for whatever frames a wire may send, in any   *)
(* order and number, whatever the price, the endpoint's answers and the    *)
(* rows older code left: a row is written once, says what its wire said,   *)
(* is labelled and priced by it, and the audit takes nothing from it.      *)
(***************************************************************************)
EXTENDS StreamedRun, TLAPS

-----------------------------------------------------------------------------
(***************************************************************************)
(* What the operators on one result return.                                *)
(***************************************************************************)
LEMMA Taken ==
  /\ \A v \in Int : as_token_count(v) \in Amount /\ as_money(v) \in Amount
  /\ \A v \in Int : as_token_count(v) = Usable(v) /\ as_money(v) = Usable(v)
  /\ \A v \in Amount : as_money(v) = v /\ Usable(v) = v
  /\ \A v \in Flags : as_flag(v) = v
  /\ \A v \in Flags \cup {"one"} : as_wire_flag(v) \in Flags /\ as_wire_flag(v) \in {v, "null"}
BY DEF Amount, as_token_count, as_money, Usable, as_flag, as_wire_flag, Flags, None

LEMMA NewResultType == NewResult \in Result
BY WireAssumption DEF NewResult, Result, Amount, Flags, Errors

LEMMA SettledType ==
  ASSUME NEW r \in Result, NEW id \in Labels
  PROVE  settle_generation_id(r, id) \in Result
BY DEF settle_generation_id, Result

LEMMA ConcludedType ==
  ASSUME NEW r \in Result, NEW error \in Errors
  PROVE  Concluded(r, error) \in Result
<1>1. PICK e \in Errors : e = empty_response_error(r)
  BY DEF empty_response_error, Errors
<1>2. Concluded(r, error) = [r EXCEPT !.error = IF error = "none" /\ r.text = "none"
                                                THEN e ELSE error]
  BY <1>1 DEF Concluded
<1> QED BY <1>2 DEF Result

LEMMA ChosenType ==
  ASSUME NEW r \in Result, NEW f \in Frame
  PROVE  Chosen(r, f) \in Result
BY DEF Chosen, Corrected, Result, Frame

\* A usage block, taken.
LEMMA UsageTaken ==
  ASSUME NEW r \in Result, NEW u \in Usages \cup {NoUsage}, NEW t, t = ingest_usage(r, u)
  PROVE  /\ t \in Result
         /\ t.text = r.text /\ t.error = r.error /\ t.id = r.id /\ t.provider = r.provider
         /\ t.finish = r.finish /\ t.native = r.native /\ t.request = r.request
         /\ u = NoUsage => t = r
         /\ u # NoUsage => /\ t.completion = Usable(u.completion)
                           /\ t.cost = Usable(u.cost)
                           /\ t.upstream = Usable(u.upstream)
                           /\ t.byok \in {u.byok, "null"}
         /\ u # NoUsage /\ u.reasoning >= 0
              => t.reasoning = u.reasoning /\ t.basis = Usable(u.completion)
         /\ u = NoUsage \/ ~(u.reasoning >= 0)
              => t.reasoning = r.reasoning /\ t.basis = r.basis
<1>1. CASE u = NoUsage
  BY <1>1 DEF ingest_usage
<1>2. CASE u # NoUsage
  <2>1. u \in Usages
    BY <1>2
  <2>2. /\ u.completion \in Int /\ u.cost \in Int /\ u.upstream \in Int
        /\ u.reasoning \in Int /\ u.byok \in Flags \cup {"one"}
    BY <2>1 DEF Usages
  <2>3. PICK c \in Amount : c = as_token_count(u.completion) /\ c = Usable(u.completion)
    BY <2>2, Taken
  <2>4. PICK m \in Amount : m = as_money(u.cost) /\ m = Usable(u.cost)
    BY <2>2, Taken
  <2>5. PICK n \in Amount : n = as_money(u.upstream) /\ n = Usable(u.upstream)
    BY <2>2, Taken
  <2>6. PICK b \in Flags : b = as_wire_flag(u.byok) /\ b \in {u.byok, "null"}
    BY <2>2, Taken
  <2>7. PICK k \in Amount : k = as_token_count(u.reasoning) /\ k = Usable(u.reasoning)
    BY <2>2, Taken
  <2>8. (k = None <=> ~(u.reasoning >= 0)) /\ (u.reasoning >= 0 => k = u.reasoning)
    BY <2>2, <2>7 DEF Usable, None
  <2>9. PICK taken : taken = [r EXCEPT !.completion = c, !.cost = m, !.upstream = n, !.byok = b]
    OBVIOUS
  <2>10. /\ taken \in Result
         /\ taken.text = r.text /\ taken.error = r.error /\ taken.id = r.id
         /\ taken.provider = r.provider /\ taken.finish = r.finish
         /\ taken.native = r.native /\ taken.request = r.request
         /\ taken.reasoning = r.reasoning /\ taken.basis = r.basis
         /\ taken.completion = c /\ taken.cost = m /\ taken.upstream = n /\ taken.byok = b
    BY <2>9 DEF Result
  <2>11. t = IF k = None THEN taken ELSE [taken EXCEPT !.reasoning = k, !.basis = c]
    BY <1>2, <2>3, <2>4, <2>5, <2>6, <2>7, <2>9 DEF ingest_usage
  <2>12. CASE k = None
    BY <1>2, <2>3, <2>4, <2>5, <2>6, <2>8, <2>10, <2>11, <2>12
  <2>13. CASE k # None
    <3>1. t = [taken EXCEPT !.reasoning = k, !.basis = c]
      BY <2>11, <2>13
    <3>2. /\ t \in Result
          /\ t.text = taken.text /\ t.error = taken.error /\ t.id = taken.id
          /\ t.provider = taken.provider /\ t.finish = taken.finish
          /\ t.native = taken.native /\ t.request = taken.request
          /\ t.reasoning = k /\ t.basis = c
          /\ t.completion = taken.completion /\ t.cost = taken.cost
          /\ t.upstream = taken.upstream /\ t.byok = taken.byok
      BY <2>10, <3>1 DEF Result
    <3> QED BY <1>2, <2>3, <2>4, <2>5, <2>6, <2>8, <2>10, <2>13, <3>2
  <2> QED BY <2>12, <2>13
<1> QED BY <1>1, <1>2

\* A chunk, ingested: its usage as above, and the first id and host kept.
IsIngested(t, r, f) ==
  /\ t \in Result
  /\ t.text = r.text /\ t.finish = r.finish /\ t.native = r.native
  /\ t.request = r.request
  /\ t.id = IF r.id = "" THEN f.id ELSE r.id
  /\ t.provider = IF r.provider = "" THEN f.provider ELSE r.provider
  /\ f.usage = NoUsage => /\ t.completion = r.completion /\ t.cost = r.cost
                          /\ t.upstream = r.upstream /\ t.byok = r.byok
  /\ f.usage # NoUsage => /\ t.completion = Usable(f.usage.completion)
                          /\ t.cost = Usable(f.usage.cost)
                          /\ t.upstream = Usable(f.usage.upstream)
                          /\ t.byok \in {f.usage.byok, "null"}
  /\ f.usage # NoUsage /\ f.usage.reasoning >= 0
       => t.reasoning = f.usage.reasoning /\ t.basis = Usable(f.usage.completion)
  /\ f.usage = NoUsage \/ ~(f.usage.reasoning >= 0)
       => t.reasoning = r.reasoning /\ t.basis = r.basis

LEMMA ChunkIngested ==
  ASSUME NEW r \in Result, NEW f \in Frame, NEW t, t = Ingested(r, f)
  PROVE  IsIngested(t, r, f)
<1>1. f.id \in Labels /\ f.provider \in Labels /\ f.usage \in Usages \cup {NoUsage}
  BY DEF Frame
<1>2. PICK s : s = settle_generation_id(r, f.id)
  OBVIOUS
<1>3. /\ s \in Result /\ s.id = (IF r.id = "" THEN f.id ELSE r.id)
      /\ s.text = r.text /\ s.finish = r.finish /\ s.native = r.native
      /\ s.request = r.request /\ s.provider = r.provider
      /\ s.completion = r.completion /\ s.cost = r.cost /\ s.upstream = r.upstream
      /\ s.byok = r.byok /\ s.reasoning = r.reasoning /\ s.basis = r.basis
  BY <1>1, <1>2 DEF settle_generation_id, Result
<1>4. PICK p : p = [s EXCEPT !.provider = IF @ = "" THEN f.provider ELSE @]
  OBVIOUS
<1>5. /\ p \in Result /\ p.id = s.id
      /\ p.provider = (IF r.provider = "" THEN f.provider ELSE r.provider)
      /\ p.text = r.text /\ p.finish = r.finish /\ p.native = r.native
      /\ p.request = r.request
      /\ p.completion = r.completion /\ p.cost = r.cost /\ p.upstream = r.upstream
      /\ p.byok = r.byok /\ p.reasoning = r.reasoning /\ p.basis = r.basis
  BY <1>1, <1>3, <1>4 DEF Result
<1>6. t = ingest_usage(p, f.usage)
  BY <1>2, <1>4 DEF Ingested
<1>7. PICK u \in Usages \cup {NoUsage} : u = f.usage
  BY <1>1
<1>u. t = ingest_usage(p, u) /\ p \in Result
  BY <1>5, <1>6, <1>7
<1>8. /\ t \in Result
      /\ t.text = p.text /\ t.error = p.error /\ t.id = p.id /\ t.provider = p.provider
      /\ t.finish = p.finish /\ t.native = p.native /\ t.request = p.request
      /\ u = NoUsage => t = p
      /\ u # NoUsage => /\ t.completion = Usable(u.completion)
                        /\ t.cost = Usable(u.cost)
                        /\ t.upstream = Usable(u.upstream)
                        /\ t.byok \in {u.byok, "null"}
      /\ u # NoUsage /\ u.reasoning >= 0
           => t.reasoning = u.reasoning /\ t.basis = Usable(u.completion)
      /\ u = NoUsage \/ ~(u.reasoning >= 0)
           => t.reasoning = p.reasoning /\ t.basis = p.basis
  BY <1>u, UsageTaken
<1> QED BY <1>3, <1>5, <1>7, <1>8 DEF IsIngested

-----------------------------------------------------------------------------
(***************************************************************************)
(* What a record tells of the wire read so far, field by field: the first  *)
(* id and host, and of the usages and the verdicts the last.               *)
(***************************************************************************)
IdTold(id) ==
  \/ IdsAt = {} /\ id = ""
  \/ \E i \in IdsAt : (\A j \in IdsAt : i <= j) /\ id = IdAt(i)

ProviderTold(host) ==
  \/ ProviderAt = {} /\ host = ""
  \/ \E i \in ProviderAt : (\A j \in ProviderAt : i <= j) /\ host = wire[i].provider

UsageTold(r) ==
  \/ /\ UsageAt = {}
     /\ r.completion = None /\ r.cost = None /\ r.upstream = None /\ r.byok = "null"
  \/ \E i \in UsageAt :
       /\ \A j \in UsageAt : j <= i
       /\ r.completion = Usable(wire[i].usage.completion)
       /\ r.cost = Usable(wire[i].usage.cost)
       /\ r.upstream = Usable(wire[i].usage.upstream)
       /\ r.byok \in {wire[i].usage.byok, "null"}

ReasonTold(r) ==
  \/ ReasonedAt = {} /\ r.reasoning = None /\ r.basis = None
  \/ \E i \in ReasonedAt :
       /\ \A j \in ReasonedAt : j <= i
       /\ r.reasoning = wire[i].usage.reasoning
       /\ r.basis = Usable(wire[i].usage.completion)

FinishTold(verdict) ==
  \/ FinishAt = {} /\ verdict = ""
  \/ \E i \in FinishAt : (\A j \in FinishAt : j <= i) /\ verdict = wire[i].finish

NativeTold(verdict) ==
  \/ NativeAt = {} /\ verdict = ""
  \/ \E i \in NativeAt : (\A j \in NativeAt : j <= i) /\ verdict = wire[i].native

TextTold(text) == (text = "visible") <=> TextSeen

Told(r) ==
  /\ IdTold(r.id) /\ ProviderTold(r.provider)
  /\ UsageTold(r) /\ ReasonTold(r)
  /\ FinishTold(r.finish) /\ NativeTold(r.native)

LEMMA FirstIsLeast ==
  ASSUME NEW S \in SUBSET Nat, NEW i \in S, \A j \in S : i <= j
  PROVE  FirstOf(S) = i
<1>1. \E k \in S : \A j \in S : k <= j
  OBVIOUS
<1>2. FirstOf(S) \in S /\ \A j \in S : FirstOf(S) <= j
  BY <1>1 DEF FirstOf
<1>3. PICK k \in S : k = FirstOf(S) /\ \A j \in S : k <= j
  BY <1>2
<1> QED BY <1>3

LEMMA LastIsGreatest ==
  ASSUME NEW S \in SUBSET Nat, NEW i \in S, \A j \in S : j <= i
  PROVE  LastOf(S) = i
<1>1. \E k \in S : \A j \in S : j <= k
  OBVIOUS
<1>2. LastOf(S) \in S /\ \A j \in S : j <= LastOf(S)
  BY <1>1 DEF LastOf
<1>3. PICK k \in S : k = LastOf(S) /\ \A j \in S : j <= k
  BY <1>2
<1> QED BY <1>3

LEMMA PlacesAreNat ==
  ASSUME wire \in Seq(Frame \cup [header : Labels])
  PROVE  /\ Len(wire) \in Nat
         /\ ChunksAt \subseteq 2 .. Len(wire)
         /\ IdsAt \subseteq 1 .. Len(wire) /\ ProviderAt \subseteq 2 .. Len(wire)
         /\ UsageAt \subseteq 2 .. Len(wire) /\ ReasonedAt \subseteq 2 .. Len(wire)
         /\ FinishAt \subseteq 2 .. Len(wire) /\ NativeAt \subseteq 2 .. Len(wire)
         /\ ErrorsAt \subseteq 2 .. Len(wire) /\ ChoicesAt \subseteq 2 .. Len(wire)
<1>1. Len(wire) \in Nat /\ DOMAIN wire = 1 .. Len(wire)
  OBVIOUS
<1>2. ChunksAt \subseteq 2 .. Len(wire)
  BY DEF ChunksAt
<1> QED
  BY <1>1, <1>2 DEF IdsAt, ProviderAt, UsageAt, ReasonedAt, FinishAt, NativeAt, ErrorsAt,
                    ChoicesAt

LEMMA LineReadAny ==
  ASSUME wire \in Seq(Frame \cup [header : Labels]), wire # <<>>, NEW f \in Frame,
         wire' = Append(wire, f), NEW n, n = Len(wire) + 1
  PROVE  /\ n \in Nat /\ n >= 2 /\ Len(wire) = n - 1 /\ Len(wire') = n
         /\ wire'[n] = f
         /\ \A i \in 1 .. n - 1 : wire'[i] = wire[i]
<1>1. Len(wire) \in Nat /\ Len(wire) # 0 /\ Len(wire') = Len(wire) + 1
  OBVIOUS
<1>2. wire'[n] = f /\ \A i \in 1 .. Len(wire) : wire'[i] = wire[i]
  BY <1>1
<1> QED BY <1>1, <1>2

\* A data line is read: the places it adds, and those that stay.
LEMMA LineRead ==
  ASSUME wire \in Seq(Frame \cup [header : Labels]), wire # <<>>, NEW f \in Frame,
         wire' = Append(wire, f), path' = path, NEW n, n = Len(wire) + 1
  PROVE  /\ n \in Nat /\ n >= 2 /\ Len(wire) = n - 1 /\ Len(wire') = n
         /\ wire'[n] = f
         /\ \A i \in 1 .. n - 1 : wire'[i] = wire[i]
         /\ ChunksAt' = IF f.kind = "chunk" THEN ChunksAt \cup {n} ELSE ChunksAt
<1>1. Len(wire) \in Nat /\ Len(wire) # 0 /\ Len(wire') = Len(wire) + 1
  OBVIOUS
<1>2. wire'[n] = f /\ \A i \in 1 .. Len(wire) : wire'[i] = wire[i]
  BY <1>1
<1>3. ChunksAt' = {i \in 2 .. n : wire'[i].kind = "chunk"}
  BY <1>1 DEF ChunksAt
<1>4. \A i : i \in 2 .. n <=> i \in 2 .. Len(wire) \/ i = n
  BY <1>1
<1>5. \A i : i \in ChunksAt' <=> i \in ChunksAt \/ (i = n /\ f.kind = "chunk")
  BY <1>1, <1>2, <1>3, <1>4 DEF ChunksAt
<1>6. ChunksAt' = IF f.kind = "chunk" THEN ChunksAt \cup {n} ELSE ChunksAt
  BY <1>5
<1> QED BY <1>1, <1>2, <1>6

\* The places of each field, grown by a chunk.
LEMMA ChunkPlaces ==
  ASSUME wire \in Seq(Frame \cup [header : Labels]), wire # <<>>, NEW f \in Frame,
         f.kind = "chunk", wire' = Append(wire, f), path' = path, NEW n, n = Len(wire) + 1,
         NEW erred, erred = (f.err /\ path = "stream")
  PROVE  /\ IdsAt' = IF f.id # "" THEN IdsAt \cup {n} ELSE IdsAt
         /\ ProviderAt' = IF f.provider # "" THEN ProviderAt \cup {n} ELSE ProviderAt
         /\ UsageAt' = IF f.usage # NoUsage THEN UsageAt \cup {n} ELSE UsageAt
         /\ ReasonedAt' = IF f.usage # NoUsage /\ f.usage.reasoning >= 0
                          THEN ReasonedAt \cup {n} ELSE ReasonedAt
         /\ ErrorsAt' = IF erred THEN ErrorsAt \cup {n} ELSE ErrorsAt
         /\ ChoicesAt' = IF f.choice /\ ~erred THEN ChoicesAt \cup {n} ELSE ChoicesAt
         /\ FinishAt' = IF f.choice /\ ~erred /\ f.finish # ""
                        THEN FinishAt \cup {n} ELSE FinishAt
         /\ NativeAt' = IF f.choice /\ ~erred /\ f.native # ""
                        THEN NativeAt \cup {n} ELSE NativeAt
         /\ DoneSeen' <=> DoneSeen
         /\ TextSeen' <=> TextSeen \/ (f.choice /\ ~erred /\ f.text = "visible")
<1>1. /\ n \in Nat /\ n >= 2 /\ Len(wire) = n - 1 /\ Len(wire') = n
      /\ wire'[n] = f
      /\ \A i \in 1 .. n - 1 : wire'[i] = wire[i]
      /\ ChunksAt' = ChunksAt \cup {n}
  BY LineRead
<1>2. ChunksAt \subseteq 2 .. n - 1 /\ n \notin ChunksAt
  BY <1>1, PlacesAreNat
<1>3. \A i \in ChunksAt : wire'[i] = wire[i]
  BY <1>1, <1>2
<1>4. DOMAIN wire = 1 .. n - 1 /\ DOMAIN wire' = 1 .. n /\ n # 1
      /\ \A i : i \in 1 .. n <=> i \in 1 .. n - 1 \/ i = n
  BY <1>1
<1>5. IdsAt' = IF f.id # "" THEN IdsAt \cup {n} ELSE IdsAt
  <2>1. \A i \in 1 .. n - 1 : IdAt(i)' = IdAt(i)
    BY <1>1 DEF IdAt
  <2>2. IdAt(n)' = f.id
    BY <1>1 DEF IdAt
  <2>3. \A i : i \in IdsAt' <=> i \in IdsAt \/ (i = n /\ f.id # "")
    BY <1>1, <1>2, <1>4, <2>1, <2>2 DEF IdsAt
  <2> QED BY <2>3
<1>6. ProviderAt' = IF f.provider # "" THEN ProviderAt \cup {n} ELSE ProviderAt
  BY <1>1, <1>2, <1>3 DEF ProviderAt
<1>7. UsageAt' = IF f.usage # NoUsage THEN UsageAt \cup {n} ELSE UsageAt
  BY <1>1, <1>2, <1>3 DEF UsageAt
<1>8. ReasonedAt' = IF f.usage # NoUsage /\ f.usage.reasoning >= 0
                    THEN ReasonedAt \cup {n} ELSE ReasonedAt
  <2>1. \A i \in UsageAt : i \in ChunksAt
    BY DEF UsageAt
  <2> QED BY <1>1, <1>2, <1>3, <1>7, <2>1 DEF ReasonedAt
<1>9. ErrorsAt' = IF erred THEN ErrorsAt \cup {n} ELSE ErrorsAt
  BY <1>1, <1>2, <1>3 DEF ErrorsAt
<1>10. ChoicesAt' = IF f.choice /\ ~erred THEN ChoicesAt \cup {n} ELSE ChoicesAt
  <2>1. n \notin ErrorsAt
    BY <1>2 DEF ErrorsAt
  <2> QED BY <1>1, <1>2, <1>3, <1>9, <2>1 DEF ChoicesAt
<1>11. \A i \in ChoicesAt : wire'[i] = wire[i]
  BY <1>3 DEF ChoicesAt
<1>12. n \notin ChoicesAt
  BY <1>2 DEF ChoicesAt
<1>13. FinishAt' = IF f.choice /\ ~erred /\ f.finish # "" THEN FinishAt \cup {n} ELSE FinishAt
  <2>1. \A i : i \in ChoicesAt' <=> i \in ChoicesAt \/ (i = n /\ f.choice /\ ~erred)
    BY <1>10
  <2>2. \A i : i \in FinishAt' <=> i \in FinishAt \/ (i = n /\ f.choice /\ ~erred /\ f.finish # "")
    BY <1>1, <1>11, <1>12, <2>1 DEF FinishAt
  <2> QED BY <2>2
<1>14. NativeAt' = IF f.choice /\ ~erred /\ f.native # "" THEN NativeAt \cup {n} ELSE NativeAt
  <2>1. \A i : i \in ChoicesAt' <=> i \in ChoicesAt \/ (i = n /\ f.choice /\ ~erred)
    BY <1>10
  <2>2. \A i : i \in NativeAt' <=> i \in NativeAt \/ (i = n /\ f.choice /\ ~erred /\ f.native # "")
    BY <1>1, <1>11, <1>12, <2>1 DEF NativeAt
  <2> QED BY <2>2
<1>15. DoneSeen' <=> DoneSeen
  BY <1>1, <1>2 DEF DoneSeen
<1>16. TextSeen' <=> TextSeen \/ (f.choice /\ ~erred /\ f.text = "visible")
  BY <1>1, <1>10, <1>11, <1>12 DEF TextSeen
<1> QED
  BY <1>5, <1>6, <1>7, <1>8, <1>9, <1>10, <1>13, <1>14, <1>15, <1>16

\* Before a first line: no response, or a response and its header.
HeaderOnly(id) ==
  \/ wire = <<>> /\ id = ""
  \/ Len(wire) = 1 /\ wire[1].header = id

ToldOnly(r, id) ==
  /\ r.id = id /\ r.provider = "" /\ r.finish = "" /\ r.native = ""
  /\ r.completion = None /\ r.cost = None /\ r.upstream = None /\ r.byok = "null"
  /\ r.reasoning = None /\ r.basis = None

LEMMA HeaderTold ==
  ASSUME NEW id \in Labels, wire' \in Seq(Frame \cup [header : Labels]), HeaderOnly(id)',
         NEW r \in Result, ToldOnly(r, id)
  PROVE  /\ Told(r)' /\ ErrorsAt' = {} /\ ~TextSeen'
         /\ \A i \in 2 .. Len(wire') : wire'[i] \in Frame
<1>0. Len(wire') = 0 \/ Len(wire') = 1
  <2>1. wire' = <<>> \/ Len(wire') = 1
    BY Zenon DEF HeaderOnly
  <2> QED BY <2>1
<1>1. 2 .. Len(wire') = {}
  <2>1. PICK l \in {0, 1} : l = Len(wire')
    BY <1>0
  <2> QED BY <2>1
<1>2. ChunksAt' = {}
  BY <1>1 DEF ChunksAt
<1>3. /\ ProviderAt' = {} /\ UsageAt' = {} /\ ErrorsAt' = {}
  BY <1>2 DEF ProviderAt, UsageAt, ErrorsAt
<1>4. ReasonedAt' = {} /\ ChoicesAt' = {}
  BY <1>2, <1>3 DEF ReasonedAt, ChoicesAt
<1>5. FinishAt' = {} /\ NativeAt' = {} /\ ~TextSeen'
  BY <1>4 DEF FinishAt, NativeAt, TextSeen
<1>6. IdTold(r.id)'
  <2>0. r.id = id
    BY DEF ToldOnly
  <2>1. CASE wire' = <<>> /\ id = ""
    <3>1. wire' = <<>>
      BY <2>1
    <3>2. DOMAIN wire' = {}
      BY ONLY <3>1
    <3>3. IdsAt' = {}
      BY <3>2, Zenon DEF IdsAt
    <3> QED BY <2>0, <2>1, <3>3, Zenon DEF IdTold
  <2>2. CASE Len(wire') = 1 /\ wire'[1].header = id
    <3>1. \A i : i \in DOMAIN wire' <=> i = 1
      BY <2>2
    <3>2. IdAt(1)' = id
      BY <2>2 DEF IdAt
    <3>3. \A i : i \in IdsAt' <=> i = 1 /\ id # ""
      BY <1>2, <3>1, <3>2, Zenon DEF IdsAt
    <3>4. CASE id = ""
      BY <2>0, <3>3, <3>4, Zenon DEF IdTold
    <3>5. CASE id # ""
      <4>1. 1 \in IdsAt' /\ \A j \in IdsAt' : j = 1
        BY <3>3, <3>5, Zenon
      <4>2. 1 <= 1
        OBVIOUS
      <4>3. \A j \in IdsAt' : 1 <= j
        BY <4>1, <4>2, Zenon
      <4> QED BY <2>0, <3>2, <4>1, <4>3, Zenon DEF IdTold
    <3> QED BY <3>4, <3>5, Zenon
  <2> QED BY <2>1, <2>2, Zenon DEF HeaderOnly
<1>7. ProviderTold(r.provider)' /\ FinishTold(r.finish)' /\ NativeTold(r.native)'
  BY <1>3, <1>5 DEF ProviderTold, FinishTold, NativeTold, ToldOnly
<1>8. UsageTold(r)' /\ ReasonTold(r)'
  BY <1>3, <1>4 DEF UsageTold, ReasonTold, ToldOnly
<1> QED BY <1>1, <1>3, <1>5, <1>6, <1>7, <1>8 DEF Told

\* A step that reads nothing.
LEMMA NothingRead ==
  ASSUME UNCHANGED <<wire, path>>
  PROVE  /\ \A r : Told(r) => Told(r)'
         /\ \A t : TextTold(t) => TextTold(t)'
         /\ ErrorsAt' = ErrorsAt /\ TextSeen' = TextSeen /\ FinishAt' = FinishAt
         /\ \A i \in 2 .. Len(wire') : wire'[i] = wire[i] /\ i \in 2 .. Len(wire)
<1>1. /\ IdsAt' = IdsAt /\ ProviderAt' = ProviderAt /\ UsageAt' = UsageAt
      /\ ReasonedAt' = ReasonedAt /\ FinishAt' = FinishAt /\ NativeAt' = NativeAt
      /\ ErrorsAt' = ErrorsAt /\ TextSeen' = TextSeen
  BY DEF IdsAt, ProviderAt, UsageAt, ReasonedAt, FinishAt, NativeAt, ErrorsAt, TextSeen,
         ChoicesAt, ChunksAt, IdAt
<1>2. \A i : IdAt(i)' = IdAt(i)
  BY DEF IdAt
<1>3. \A id : IdTold(id) => IdTold(id)'
  BY <1>1, <1>2 DEF IdTold
<1>4. \A v : /\ ProviderTold(v) => ProviderTold(v)'
             /\ FinishTold(v) => FinishTold(v)'
             /\ NativeTold(v) => NativeTold(v)'
  BY <1>1 DEF ProviderTold, FinishTold, NativeTold
<1>5. \A r : (UsageTold(r) => UsageTold(r)') /\ (ReasonTold(r) => ReasonTold(r)')
  BY <1>1 DEF UsageTold, ReasonTold
<1>6. ASSUME NEW r, Told(r) PROVE Told(r)'
  <2>1. IdTold(r.id)' /\ ProviderTold(r.provider)'
    BY <1>3, <1>4, <1>6 DEF Told
  <2>2. UsageTold(r)' /\ ReasonTold(r)'
    BY <1>5, <1>6 DEF Told
  <2>3. FinishTold(r.finish)' /\ NativeTold(r.native)'
    BY <1>4, <1>6 DEF Told
  <2> QED BY <2>1, <2>2, <2>3 DEF Told
<1>7. \A t : TextTold(t) => TextTold(t)'
  BY <1>1 DEF TextTold
<1> QED BY <1>1, <1>6, <1>7

\* [DONE], or a line that is no object: nothing more is told.
LEMMA OtherLineTold ==
  ASSUME wire \in Seq(Frame \cup [header : Labels]), wire # <<>>, NEW f \in Frame,
         f.kind # "chunk", wire' = Append(wire, f), path' = path
  PROVE  /\ \A r : Told(r) => Told(r)'
         /\ \A t : TextTold(t) => TextTold(t)'
         /\ ErrorsAt' = ErrorsAt /\ TextSeen' = TextSeen /\ FinishAt' = FinishAt
         /\ f.kind = "done" => DoneSeen'
<1> DEFINE n == Len(wire) + 1
<1> HIDE DEF n
<1>1. /\ n \in Nat /\ n >= 2 /\ Len(wire) = n - 1 /\ Len(wire') = n
      /\ wire'[n] = f
      /\ \A i \in 1 .. n - 1 : wire'[i] = wire[i]
      /\ ChunksAt' = ChunksAt
  BY LineRead DEF n
<1>2. ChunksAt \subseteq 2 .. n - 1
  BY <1>1, PlacesAreNat
<1>3. \A i \in ChunksAt : wire'[i] = wire[i]
  BY <1>1, <1>2
<1>4. ProviderAt' = ProviderAt /\ UsageAt' = UsageAt /\ ErrorsAt' = ErrorsAt
  BY <1>1, <1>3 DEF ProviderAt, UsageAt, ErrorsAt
<1>5. ReasonedAt' = ReasonedAt
  BY <1>3, <1>4 DEF ReasonedAt, UsageAt
<1>6. ChoicesAt' = ChoicesAt
  BY <1>1, <1>3, <1>4 DEF ChoicesAt
<1>7. \A i \in ChoicesAt : wire'[i] = wire[i]
  BY <1>3 DEF ChoicesAt
<1>8. FinishAt' = FinishAt /\ NativeAt' = NativeAt
  BY <1>6, <1>7 DEF FinishAt, NativeAt
<1>9. TextSeen' = TextSeen
  BY <1>6, <1>7 DEF TextSeen
<1>10. DOMAIN wire = 1 .. n - 1 /\ DOMAIN wire' = 1 .. n
       /\ (\A i : i \in 1 .. n <=> i \in 1 .. n - 1 \/ i = n) /\ n # 1 /\ n \notin ChunksAt
  BY <1>1, <1>2
<1>11. \A i \in 1 .. n - 1 : IdAt(i)' = IdAt(i)
  BY <1>1 DEF IdAt
<1>12. IdsAt' = IdsAt
  <2>1. \A i : i \in IdsAt' <=> i \in IdsAt
    BY <1>1, <1>2, <1>10, <1>11 DEF IdsAt
  <2> QED BY <2>1
<1>13. \A i \in IdsAt : IdAt(i)' = IdAt(i)
  BY <1>10, <1>11 DEF IdsAt
<1>14. f.kind = "done" => DoneSeen'
  BY <1>1 DEF DoneSeen
<1>15. \A id : IdTold(id) => IdTold(id)'
  BY <1>12, <1>13 DEF IdTold
<1>16. \A host : ProviderTold(host) => ProviderTold(host)'
  BY <1>3, <1>4 DEF ProviderTold, ProviderAt
<1>17. \A r : UsageTold(r) => UsageTold(r)'
  <2>1. \A i \in UsageAt : wire'[i] = wire[i]
    BY <1>3 DEF UsageAt
  <2> QED BY <1>4, <2>1 DEF UsageTold
<1>18. \A r : ReasonTold(r) => ReasonTold(r)'
  <2>1. \A i \in ReasonedAt : wire'[i] = wire[i]
    BY <1>3 DEF ReasonedAt, UsageAt
  <2> QED BY <1>5, <2>1 DEF ReasonTold
<1>19. \A v : (FinishTold(v) => FinishTold(v)') /\ (NativeTold(v) => NativeTold(v)')
  <2>1. \A i \in FinishAt \cup NativeAt : wire'[i] = wire[i]
    BY <1>7 DEF FinishAt, NativeAt
  <2> QED BY <1>8, <2>1 DEF FinishTold, NativeTold
<1>20. ASSUME NEW r, Told(r) PROVE Told(r)'
  <2>1. IdTold(r.id)' /\ ProviderTold(r.provider)'
    BY <1>15, <1>16, <1>20 DEF Told
  <2>2. UsageTold(r)' /\ ReasonTold(r)'
    BY <1>17, <1>18, <1>20 DEF Told
  <2>3. FinishTold(r.finish)' /\ NativeTold(r.native)'
    BY <1>19, <1>20 DEF Told
  <2> QED BY <2>1, <2>2, <2>3 DEF Told
<1>21. \A t : TextTold(t) => TextTold(t)'
  BY <1>9 DEF TextTold
<1> QED BY <1>4, <1>8, <1>9, <1>14, <1>20, <1>21

\* A place after all others: the first stays the first and the last is new.
LEMMA PlaceAdded ==
  ASSUME NEW n \in Nat, NEW S \in SUBSET (1 .. n - 1)
  PROVE  /\ \A j \in S \cup {n} : j <= n
         /\ \A i \in S : (\A j \in S : i <= j) => \A j \in S \cup {n} : i <= j
         /\ S = {} => \A j \in S \cup {n} : n <= j
OBVIOUS

\* A chunk is read: what was told of the wire is told of the longer one.
LEMMA ChunkTold ==
  ASSUME wire \in Seq(Frame \cup [header : Labels]), wire # <<>>, NEW f \in Frame,
         f.kind = "chunk", wire' = Append(wire, f), path' = path,
         NEW r \in Result, Told(r), NEW t, t = Ingested(r, f)
  PROVE  IdTold(t.id)' /\ ProviderTold(t.provider)' /\ UsageTold(t)' /\ ReasonTold(t)'
<1>n. PICK n : n = Len(wire) + 1
  OBVIOUS
<1>1. /\ n \in Nat /\ n >= 2 /\ Len(wire) = n - 1 /\ Len(wire') = n
      /\ wire'[n] = f
      /\ \A i \in 1 .. n - 1 : wire'[i] = wire[i]
  BY <1>n, LineRead
<1>e. PICK erred : erred = (f.err /\ path = "stream")
  OBVIOUS
<1>2. /\ IdsAt' = IF f.id # "" THEN IdsAt \cup {n} ELSE IdsAt
      /\ ProviderAt' = IF f.provider # "" THEN ProviderAt \cup {n} ELSE ProviderAt
      /\ UsageAt' = IF f.usage # NoUsage THEN UsageAt \cup {n} ELSE UsageAt
      /\ ReasonedAt' = IF f.usage # NoUsage /\ f.usage.reasoning >= 0
                       THEN ReasonedAt \cup {n} ELSE ReasonedAt
  BY <1>n, <1>e, ChunkPlaces
<1>3. IdsAt \subseteq 1 .. n - 1 /\ ProviderAt \subseteq 1 .. n - 1
      /\ UsageAt \subseteq 1 .. n - 1 /\ ReasonedAt \subseteq 1 .. n - 1
  BY <1>1, PlacesAreNat
<1>c. IsIngested(t, r, f)
  BY ChunkIngested
<1>4. /\ t \in Result
      /\ t.id = IF r.id = "" THEN f.id ELSE r.id
      /\ t.provider = IF r.provider = "" THEN f.provider ELSE r.provider
      /\ f.usage = NoUsage => /\ t.completion = r.completion /\ t.cost = r.cost
                              /\ t.upstream = r.upstream /\ t.byok = r.byok
      /\ f.usage # NoUsage => /\ t.completion = Usable(f.usage.completion)
                              /\ t.cost = Usable(f.usage.cost)
                              /\ t.upstream = Usable(f.usage.upstream)
                              /\ t.byok \in {f.usage.byok, "null"}
      /\ f.usage # NoUsage /\ f.usage.reasoning >= 0
           => t.reasoning = f.usage.reasoning /\ t.basis = Usable(f.usage.completion)
      /\ f.usage = NoUsage \/ ~(f.usage.reasoning >= 0)
           => t.reasoning = r.reasoning /\ t.basis = r.basis
  BY <1>c, Zenon DEF IsIngested
<1>5. IdTold(r.id) /\ ProviderTold(r.provider) /\ UsageTold(r) /\ ReasonTold(r)
  BY DEF Told
<1>6. IdTold(t.id)'
  <2>1. \A i \in IdsAt : IdAt(i)' = IdAt(i)
    BY <1>1, <1>3 DEF IdAt
  <2>2. IdAt(n)' = f.id
    BY <1>1 DEF IdAt
  <2>3. CASE r.id = ""
    <3>1. IdsAt = {} /\ t.id = f.id
      BY <1>4, <1>5, <2>3, Zenon DEF IdTold, IdsAt
    <3>2. CASE f.id = ""
      BY <1>2, <3>1, <3>2, Zenon DEF IdTold
    <3>3. CASE f.id # ""
      <4>1. n \in IdsAt' /\ IdsAt' = IdsAt \cup {n}
        BY <1>2, <3>3, Zenon
      <4>2. \A j \in IdsAt \cup {n} : n <= j
        BY <1>1, <1>3, <3>1, PlaceAdded
      <4> QED BY <2>2, <3>1, <4>1, <4>2, Zenon DEF IdTold
    <3> QED BY <3>2, <3>3, Zenon
  <2>4. CASE r.id # ""
    <3>1. PICK i \in IdsAt : (\A j \in IdsAt : i <= j) /\ r.id = IdAt(i)
      BY <1>5, <2>4, Zenon DEF IdTold
    <3>2. \A j \in IdsAt \cup {n} : i <= j
      BY <1>1, <1>3, <3>1, PlaceAdded
    <3>3. IdsAt' = IdsAt \/ IdsAt' = IdsAt \cup {n}
      BY <1>2, Zenon
    <3>4. i \in IdsAt' /\ \A j \in IdsAt' : i <= j
      BY <3>2, <3>3, Zenon
    <3>5. t.id = IdAt(i)'
      BY <1>4, <2>1, <2>4, <3>1, Zenon
    <3> QED BY <3>4, <3>5, Zenon DEF IdTold
  <2> QED BY <2>3, <2>4, Zenon
<1>7. ProviderTold(t.provider)'
  <2>1. \A i \in ProviderAt : wire'[i] = wire[i]
    BY <1>1, <1>3
  <2>3. CASE r.provider = ""
    <3>1. ProviderAt = {} /\ t.provider = f.provider
      BY <1>4, <1>5, <2>3, Zenon DEF ProviderTold, ProviderAt
    <3>2. CASE f.provider = ""
      BY <1>2, <3>1, <3>2, Zenon DEF ProviderTold
    <3>3. CASE f.provider # ""
      <4>1. n \in ProviderAt' /\ ProviderAt' = ProviderAt \cup {n}
        BY <1>2, <3>3, Zenon
      <4>2. \A j \in ProviderAt \cup {n} : n <= j
        BY <1>1, <1>3, <3>1, PlaceAdded
      <4> QED BY <1>1, <3>1, <4>1, <4>2, Zenon DEF ProviderTold
    <3> QED BY <3>2, <3>3, Zenon
  <2>4. CASE r.provider # ""
    <3>1. PICK i \in ProviderAt : (\A j \in ProviderAt : i <= j) /\ r.provider = wire[i].provider
      BY <1>5, <2>4, Zenon DEF ProviderTold
    <3>2. \A j \in ProviderAt \cup {n} : i <= j
      BY <1>1, <1>3, <3>1, PlaceAdded
    <3>3. ProviderAt' = ProviderAt \/ ProviderAt' = ProviderAt \cup {n}
      BY <1>2, Zenon
    <3>4. i \in ProviderAt' /\ \A j \in ProviderAt' : i <= j
      BY <3>2, <3>3, Zenon
    <3>5. t.provider = wire'[i].provider
      BY <1>4, <2>1, <2>4, <3>1, Zenon
    <3> QED BY <3>4, <3>5, Zenon DEF ProviderTold
  <2> QED BY <2>3, <2>4, Zenon
<1>8. UsageTold(t)'
  <2>1. CASE f.usage = NoUsage
    <3>1. UsageAt' = UsageAt /\ \A i \in UsageAt : wire'[i] = wire[i]
      BY <1>1, <1>2, <1>3, <2>1
    <3> QED BY <1>4, <1>5, <2>1, <3>1, Zenon DEF UsageTold
  <2>2. CASE f.usage # NoUsage
    <3>1. n \in UsageAt' /\ UsageAt' = UsageAt \cup {n}
      BY <1>2, <2>2, Zenon
    <3>2. \A j \in UsageAt \cup {n} : j <= n
      BY <1>1, <1>3, PlaceAdded
    <3> QED BY <1>1, <1>4, <2>2, <3>1, <3>2, Zenon DEF UsageTold
  <2> QED BY <2>1, <2>2, Zenon
<1>9. ReasonTold(t)'
  <2>1. CASE f.usage = NoUsage \/ ~(f.usage.reasoning >= 0)
    <3>1. ReasonedAt' = ReasonedAt
      BY <1>2, <2>1, Zenon
    <3>2. \A i \in ReasonedAt : wire'[i] = wire[i]
      BY <1>1, <1>3
    <3> QED BY <1>4, <1>5, <2>1, <3>1, <3>2, Zenon DEF ReasonTold
  <2>2. CASE f.usage # NoUsage /\ f.usage.reasoning >= 0
    <3>1. n \in ReasonedAt' /\ ReasonedAt' = ReasonedAt \cup {n}
      BY <1>2, <2>2, Zenon
    <3>2. \A j \in ReasonedAt \cup {n} : j <= n
      BY <1>1, <1>3, PlaceAdded
    <3> QED BY <1>1, <1>4, <2>2, <3>1, <3>2, Zenon DEF ReasonTold
  <2> QED BY <2>1, <2>2, Zenon
<1> QED BY <1>6, <1>7, <1>8, <1>9, Zenon

\* The verdicts of a chunk: its choice is the last word, unless it is blank
\* or the chunk is an error frame of a stream.
LEMMA VerdictTold ==
  ASSUME wire \in Seq(Frame \cup [header : Labels]), wire # <<>>, NEW f \in Frame,
         f.kind = "chunk", wire' = Append(wire, f), path' = path,
         NEW r \in Result, FinishTold(r.finish), NativeTold(r.native)
  PROVE  /\ f.err /\ path = "stream" => FinishTold(r.finish)' /\ NativeTold(r.native)'
         /\ ~(f.err /\ path = "stream") =>
              FinishTold(Chosen(r, f).finish)' /\ NativeTold(Chosen(r, f).native)'
<1>n. PICK n : n = Len(wire) + 1
  OBVIOUS
<1>1. /\ n \in Nat /\ n >= 2 /\ Len(wire) = n - 1 /\ wire'[n] = f
      /\ \A i \in 1 .. n - 1 : wire'[i] = wire[i]
  BY <1>n, LineRead
<1>e. PICK erred : erred = (f.err /\ path = "stream")
  OBVIOUS
<1>2. /\ FinishAt' = IF f.choice /\ ~erred /\ f.finish # ""
                     THEN FinishAt \cup {n} ELSE FinishAt
      /\ NativeAt' = IF f.choice /\ ~erred /\ f.native # ""
                     THEN NativeAt \cup {n} ELSE NativeAt
  BY <1>n, <1>e, ChunkPlaces
<1>3. FinishAt \subseteq 1 .. n - 1 /\ NativeAt \subseteq 1 .. n - 1
  BY <1>1, PlacesAreNat
<1>4. (\A j \in FinishAt \cup {n} : j <= n) /\ (\A j \in NativeAt \cup {n} : j <= n)
  BY <1>1, <1>3, PlaceAdded
<1>5. \A i \in FinishAt \cup NativeAt : wire'[i] = wire[i]
  BY <1>1, <1>3
<1>6. FinishAt' = FinishAt => FinishTold(r.finish)'
  BY <1>5, Zenon DEF FinishTold
<1>7. NativeAt' = NativeAt => NativeTold(r.native)'
  BY <1>5, Zenon DEF NativeTold
<1>8. CASE erred
  BY <1>2, <1>6, <1>7, <1>8, <1>e, Zenon
<1>9. CASE ~erred
  <2>1. /\ f.choice /\ f.finish # "" => Chosen(r, f).finish = f.finish
        /\ ~(f.choice /\ f.finish # "") => Chosen(r, f).finish = r.finish
        /\ f.choice /\ f.native # "" => Chosen(r, f).native = f.native
        /\ ~(f.choice /\ f.native # "") => Chosen(r, f).native = r.native
    BY DEF Chosen, Corrected, Result
  <2>2. PICK c : c = Chosen(r, f)
    OBVIOUS
  <2>3. FinishTold(c.finish)'
    <3>1. CASE f.choice /\ f.finish # ""
      <4>1. FinishAt' = FinishAt \cup {n} /\ n \in FinishAt'
        BY <1>2, <1>9, <3>1, Zenon
      <4> QED BY <1>1, <1>4, <2>1, <2>2, <3>1, <4>1, Zenon DEF FinishTold
    <3>2. CASE ~(f.choice /\ f.finish # "")
      BY <1>2, <1>6, <2>1, <2>2, <3>2, Zenon
    <3> QED BY <3>1, <3>2, Zenon
  <2>4. NativeTold(c.native)'
    <3>1. CASE f.choice /\ f.native # ""
      <4>1. NativeAt' = NativeAt \cup {n} /\ n \in NativeAt'
        BY <1>2, <1>9, <3>1, Zenon
      <4> QED BY <1>1, <1>4, <2>1, <2>2, <3>1, <4>1, Zenon DEF NativeTold
    <3>2. CASE ~(f.choice /\ f.native # "")
      BY <1>2, <1>7, <2>1, <2>2, <3>2, Zenon
    <3> QED BY <3>1, <3>2, Zenon
  <2> QED BY <1>9, <1>e, <2>2, <2>3, <2>4, Zenon
<1> QED BY <1>8, <1>9, Zenon

-----------------------------------------------------------------------------
(***************************************************************************)
(* From what a record has been told to what its row says.                  *)
(***************************************************************************)
SaysId(id) == id = IF IdsAt = {} THEN "" ELSE IdAt(FirstOf(IdsAt))
SaysHost(host) == host = IF ProviderAt = {} THEN "" ELSE wire[FirstOf(ProviderAt)].provider
SaysNative(v) == v = IF NativeAt = {} THEN "" ELSE wire[LastOf(NativeAt)].native
SaysUsage(r) ==
  IF UsageAt = {}
  THEN r.completion = None /\ r.cost = None /\ r.upstream = None /\ r.byok = "null"
  ELSE /\ r.completion = Usable(LastUsage.completion)
       /\ r.cost = Usable(LastUsage.cost)
       /\ r.upstream = Usable(LastUsage.upstream)
       /\ r.byok \in {LastUsage.byok, "null"}
SaysReason(r) ==
  IF ReasonedAt = {} THEN r.reasoning = None /\ r.basis = None
  ELSE /\ r.reasoning = Reasoned.reasoning
       /\ r.basis = Usable(Reasoned.completion)

LEMMA PlacesNextNat ==
  ASSUME wire' \in Seq(Frame \cup [header : Labels])
  PROVE  /\ IdsAt' \subseteq Nat /\ ProviderAt' \subseteq Nat /\ UsageAt' \subseteq Nat
         /\ ReasonedAt' \subseteq Nat /\ FinishAt' \subseteq Nat /\ NativeAt' \subseteq Nat
         /\ ReasonedAt' \subseteq 2 .. Len(wire')
<1>1. Len(wire') \in Nat /\ DOMAIN wire' = 1 .. Len(wire')
  OBVIOUS
<1>2. ChunksAt' \subseteq 2 .. Len(wire')
  BY DEF ChunksAt
<1>3. 2 .. Len(wire') \subseteq Nat /\ 1 .. Len(wire') \subseteq Nat
  BY <1>1
<1>4. IdsAt' \subseteq 1 .. Len(wire')
  BY <1>1, Zenon DEF IdsAt
<1>5. ProviderAt' \subseteq ChunksAt' /\ UsageAt' \subseteq ChunksAt'
  BY Zenon DEF ProviderAt, UsageAt
<1>6. ChoicesAt' \subseteq ChunksAt'
  BY Zenon DEF ChoicesAt
<1>7. FinishAt' \subseteq ChunksAt' /\ NativeAt' \subseteq ChunksAt'
  BY <1>6, Zenon DEF FinishAt, NativeAt
<1>8. ReasonedAt' \subseteq ChunksAt'
  BY <1>5, Zenon DEF ReasonedAt
<1> QED BY <1>2, <1>3, <1>4, <1>5, <1>7, <1>8, Zenon

LEMMA ToldIsSaid ==
  ASSUME wire' \in Seq(Frame \cup [header : Labels])
  PROVE  /\ \A id : IdTold(id)' => SaysId(id)'
         /\ \A host : ProviderTold(host)' => SaysHost(host)'
         /\ \A r : UsageTold(r)' => SaysUsage(r)'
         /\ \A r : ReasonTold(r)' => SaysReason(r)'
         /\ \A v : FinishTold(v)' => v = FinishSaid'
         /\ \A v : NativeTold(v)' => SaysNative(v)'
<1>0. /\ IdsAt' \subseteq Nat /\ ProviderAt' \subseteq Nat /\ UsageAt' \subseteq Nat
      /\ ReasonedAt' \subseteq Nat /\ FinishAt' \subseteq Nat /\ NativeAt' \subseteq Nat
  BY PlacesNextNat, Zenon
<1>1. ASSUME NEW id, IdTold(id)' PROVE SaysId(id)'
  <2>1. CASE IdsAt' = {}
    BY <1>1, <2>1, Zenon DEF IdTold, SaysId
  <2>2. CASE IdsAt' # {}
    <3>1. PICK i \in IdsAt' : (\A j \in IdsAt' : i <= j) /\ id = IdAt(i)'
      BY <1>1, <2>2, Zenon DEF IdTold
    <3>2. FirstOf(IdsAt') = i
      BY <1>0, <3>1, FirstIsLeast
    <3>3. (IdAt(FirstOf(IdsAt)))' = IdAt(i)'
      BY <3>2, Zenon DEF IdAt
    <3> QED BY <2>2, <3>1, <3>3, Zenon DEF SaysId
  <2> QED BY <2>1, <2>2
<1>2. ASSUME NEW host, ProviderTold(host)' PROVE SaysHost(host)'
  <2>1. CASE ProviderAt' = {}
    BY <1>2, <2>1, Zenon DEF ProviderTold, SaysHost
  <2>2. CASE ProviderAt' # {}
    <3>1. PICK i \in ProviderAt' : (\A j \in ProviderAt' : i <= j) /\ host = wire'[i].provider
      BY <1>2, <2>2, Zenon DEF ProviderTold
    <3>2. FirstOf(ProviderAt') = i
      BY <1>0, <3>1, FirstIsLeast
    <3> QED BY <2>2, <3>1, <3>2, Zenon DEF SaysHost
  <2> QED BY <2>1, <2>2
<1>3. ASSUME NEW r, UsageTold(r)' PROVE SaysUsage(r)'
  <2>1. CASE UsageAt' = {}
    BY <1>3, <2>1, Zenon DEF UsageTold, SaysUsage
  <2>2. CASE UsageAt' # {}
    <3>1. PICK i \in UsageAt' :
            /\ \A j \in UsageAt' : j <= i
            /\ r.completion = Usable(wire'[i].usage.completion)
            /\ r.cost = Usable(wire'[i].usage.cost)
            /\ r.upstream = Usable(wire'[i].usage.upstream)
            /\ r.byok \in {wire'[i].usage.byok, "null"}
      BY <1>3, <2>2, Zenon DEF UsageTold
    <3>2. LastOf(UsageAt') = i
      BY <1>0, <3>1, LastIsGreatest
    <3>3. LastUsage' = wire'[i].usage
      BY <3>2, Zenon DEF LastUsage
    <3> QED BY <2>2, <3>1, <3>3, Zenon DEF SaysUsage
  <2> QED BY <2>1, <2>2
<1>4. ASSUME NEW r, ReasonTold(r)' PROVE SaysReason(r)'
  <2>1. CASE ReasonedAt' = {}
    BY <1>4, <2>1, Zenon DEF ReasonTold, SaysReason
  <2>2. CASE ReasonedAt' # {}
    <3>1. PICK i \in ReasonedAt' :
            /\ \A j \in ReasonedAt' : j <= i
            /\ r.reasoning = wire'[i].usage.reasoning
            /\ r.basis = Usable(wire'[i].usage.completion)
      BY <1>4, <2>2, Zenon DEF ReasonTold
    <3>2. LastOf(ReasonedAt') = i
      BY <1>0, <3>1, LastIsGreatest
    <3>3. Reasoned' = wire'[i].usage
      BY <3>2, Zenon DEF Reasoned
    <3> QED BY <2>2, <3>1, <3>3, Zenon DEF SaysReason
  <2> QED BY <2>1, <2>2
<1>5. ASSUME NEW v, FinishTold(v)' PROVE v = FinishSaid'
  <2>1. CASE FinishAt' = {}
    BY <1>5, <2>1, Zenon DEF FinishTold, FinishSaid
  <2>2. CASE FinishAt' # {}
    <3>1. PICK i \in FinishAt' : (\A j \in FinishAt' : j <= i) /\ v = wire'[i].finish
      BY <1>5, <2>2, Zenon DEF FinishTold
    <3>2. LastOf(FinishAt') = i
      BY <1>0, <3>1, LastIsGreatest
    <3> QED BY <2>2, <3>1, <3>2, Zenon DEF FinishSaid
  <2> QED BY <2>1, <2>2
<1>6. ASSUME NEW v, NativeTold(v)' PROVE SaysNative(v)'
  <2>1. CASE NativeAt' = {}
    BY <1>6, <2>1, Zenon DEF NativeTold, SaysNative
  <2>2. CASE NativeAt' # {}
    <3>1. PICK i \in NativeAt' : (\A j \in NativeAt' : j <= i) /\ v = wire'[i].native
      BY <1>6, <2>2, Zenon DEF NativeTold
    <3>2. LastOf(NativeAt') = i
      BY <1>0, <3>1, LastIsGreatest
    <3> QED BY <2>2, <3>1, <3>2, Zenon DEF SaysNative
  <2> QED BY <2>1, <2>2
<1> QED BY <1>1, <1>2, <1>3, <1>4, <1>5, <1>6, Zenon

\* A row that says it all, and one cut short.
LEMMA FaithfulSays ==
  ASSUME NEW row, SaysId(row.id)', SaysHost(row.provider)', TextTold(row.text)',
         \/ /\ row.error # "aborted"
            /\ row.finish = FinishSaid' /\ SaysNative(row.native)'
            /\ SaysUsage(row)' /\ SaysReason(row)'
         \/ /\ row.error = "aborted"
            /\ row.finish = "" /\ row.native = "" /\ row.byok = "null"
            /\ row.completion = None /\ row.reasoning = None /\ row.basis = None
            /\ row.cost = None /\ row.upstream = None
  PROVE  FaithfulRow(row)'
<1>1. CASE row.error # "aborted"
  BY <1>1, Zenon DEF FaithfulRow, SaysId, SaysHost, SaysNative, SaysUsage, SaysReason, TextTold
<1>2. CASE row.error = "aborted"
  BY <1>2, Zenon DEF FaithfulRow, SaysId, SaysHost, TextTold
<1> QED BY <1>1, <1>2, Zenon

\* What the report files a row under, read back.
Filed(row) ==
  IF price_bucket(Repaired(row)) = "billed" THEN Repaired(row).cost
  ELSE IF price_bucket(Repaired(row)) = "estimated" THEN Repaired(row).estimate ELSE 0

LEMMA EstimateType ==
  ASSUME NEW r \in Result
  PROVE  cost_usd(r) \in Amount
<1>1. r.completion \in Amount
  BY DEF Result
<1>2. CASE Price = None \/ r.completion = None
  BY <1>2 DEF cost_usd, Amount
<1>3. CASE Price # None /\ r.completion # None
  <2>1. PICK a \in Nat, b \in Nat : a = r.completion /\ b = Price
    BY <1>1, <1>3, WireAssumption DEF Amount
  <2>2. a * b \in Nat
    BY ONLY a \in Nat, b \in Nat
  <2>3. cost_usd(r) = a * b
    BY <1>3, <2>1 DEF cost_usd
  <2> QED BY <2>2, <2>3 DEF Amount
<1> QED BY <1>2, <1>3

LEMMA RowWritten ==
  ASSUME NEW r \in Result, NEW row, row = Row(r)
  PROVE  /\ row \in StoredRow
         /\ row.text = r.text /\ row.error = r.error /\ row.id = r.id
         /\ row.provider = r.provider /\ row.finish = r.finish /\ row.native = r.native
         /\ row.request = r.request /\ row.completion = r.completion
         /\ row.reasoning = r.reasoning /\ row.basis = r.basis /\ row.cost = r.cost
         /\ row.upstream = r.upstream /\ row.byok = r.byok /\ row.cost \in Amount
         /\ ceiling_cost(r) \in Nat /\ ceiling_cost(r) = Filed(row)
<1>1. PICK e \in Amount : e = cost_usd(r)
  BY EstimateType
<1>q. PICK q \in Labels : q = ""
  BY WireAssumption, Zenon
<1>2. as_flag(r.byok) = r.byok /\ r.byok \in Flags
  BY Taken DEF Result
<1>3. row = [text |-> r.text, error |-> r.error, id |-> r.id, provider |-> r.provider,
             finish |-> r.finish, native |-> r.native, request |-> r.request,
             completion |-> r.completion, reasoning |-> r.reasoning, basis |-> r.basis,
             cost |-> r.cost, upstream |-> r.upstream, byok |-> r.byok,
             estimate |-> e, quant |-> q]
  BY <1>1, <1>2, <1>q DEF Row
<1>4. /\ r.text \in {"none", "visible"} /\ r.error \in Errors /\ r.id \in Labels
      /\ r.provider \in Labels /\ r.finish \in Labels /\ r.native \in Labels
      /\ r.request \in BOOLEAN /\ r.completion \in Amount /\ r.reasoning \in Amount
      /\ r.basis \in Amount /\ r.cost \in Amount /\ r.upstream \in Amount
  BY DEF Result
<1>5. Amount \subseteq Int
  BY DEF Amount, None
<1>6. row \in StoredRow
  <2>1. /\ r.completion \in Int /\ r.reasoning \in Int /\ r.basis \in Int
        /\ r.cost \in Int /\ r.upstream \in Int /\ e \in Int
    BY <1>1, <1>4, <1>5
  <2> QED BY <1>2, <1>3, <1>4, <2>1 DEF StoredRow
<1>7. row.cost = r.cost /\ row.estimate = e
  BY <1>3
<1>8. Repaired(row).cost = r.cost /\ Repaired(row).estimate = e
  <2>1. as_money(r.cost) = r.cost
    BY <1>4, Taken
  <2> QED BY <1>6, <1>7, <2>1 DEF Repaired, StoredRow
<1>9. PICK c \in Amount : c = r.cost /\ as_money(r.cost) = c
  BY <1>4, Taken
<1>10. ceiling_cost(r) = IF c # None THEN c ELSE IF e # None THEN e ELSE 0
  BY <1>1, <1>9 DEF ceiling_cost
<1>11. Filed(row) = IF c # None THEN c ELSE IF e # None THEN e ELSE 0
  <2>1. CASE c # None
    BY <1>8, <1>9, <2>1 DEF Filed, price_bucket
  <2>2. CASE c = None /\ e # None
    BY <1>8, <1>9, <2>2 DEF Filed, price_bucket
  <2>3. CASE c = None /\ e = None
    BY <1>8, <1>9, <2>3 DEF Filed, price_bucket
  <2> QED BY <2>1, <2>2, <2>3
<1>12. ceiling_cost(r) \in Nat
  BY <1>1, <1>9, <1>10 DEF Amount
<1>13. /\ row.text = r.text /\ row.error = r.error /\ row.id = r.id
       /\ row.provider = r.provider /\ row.finish = r.finish /\ row.native = r.native
       /\ row.request = r.request /\ row.completion = r.completion
       /\ row.reasoning = r.reasoning /\ row.basis = r.basis /\ row.cost = r.cost
       /\ row.upstream = r.upstream /\ row.byok = r.byok
  BY <1>3
<1>14. row.cost \in Amount /\ ceiling_cost(r) = Filed(row)
  BY <1>4, <1>10, <1>11, <1>13
<1> QED BY <1>6, <1>12, <1>13, <1>14, Zenon

\* What an ending without an error takes.
EndWarranted(r, error) ==
  error = "none" => ErrorsAt = {} /\ (path = "stream" => DoneSeen \/ r.finish # "")

\* A whole result: its row says what it was told, under a label that is true.
LEMMA Concludes ==
  ASSUME wire' \in Seq(Frame \cup [header : Labels]),
         \A i \in 2 .. Len(wire') : wire'[i] \in Frame,
         NEW r \in Result, Told(r)', TextTold(r.text)',
         NEW error \in Errors \ {"aborted", "empty", "exhausted", "reasoned"},
         EndWarranted(r, error)', NEW row, row = Row(Concluded(r, error))
  PROVE  FaithfulRow(row)' /\ TrueLabel(row)'
<1>1. PICK e \in {"empty", "exhausted", "reasoned"} : e = empty_response_error(r)
  BY DEF empty_response_error
<1>2. PICK c \in Result : c = Concluded(r, error)
  BY ConcludedType
<1>3. c = [r EXCEPT !.error = IF error = "none" /\ r.text = "none" THEN e ELSE error]
  BY <1>1, <1>2 DEF Concluded
<1>4. /\ c.text = r.text /\ c.id = r.id /\ c.provider = r.provider /\ c.finish = r.finish
      /\ c.native = r.native /\ c.completion = r.completion /\ c.reasoning = r.reasoning
      /\ c.basis = r.basis /\ c.cost = r.cost /\ c.upstream = r.upstream /\ c.byok = r.byok
      /\ c.error = IF error = "none" /\ r.text = "none" THEN e ELSE error
  BY <1>3 DEF Result
<1>5. row = Row(c)
  BY <1>2
<1>6. /\ row.text = c.text /\ row.error = c.error /\ row.id = c.id
      /\ row.provider = c.provider /\ row.finish = c.finish /\ row.native = c.native
      /\ row.completion = c.completion
      /\ row.reasoning = c.reasoning /\ row.basis = c.basis /\ row.cost = c.cost
      /\ row.upstream = c.upstream /\ row.byok = c.byok
  BY <1>5, RowWritten
<1>7. IdTold(r.id)' /\ ProviderTold(r.provider)' /\ UsageTold(r)' /\ ReasonTold(r)'
      /\ FinishTold(r.finish)' /\ NativeTold(r.native)'
  BY Zenon DEF Told
<1>8. SaysId(r.id)' /\ SaysHost(r.provider)' /\ SaysUsage(r)' /\ SaysReason(r)'
      /\ r.finish = FinishSaid' /\ SaysNative(r.native)'
  BY <1>7, ToldIsSaid, Zenon
<1>9. FaithfulRow(row)'
  <2>1. SaysUsage(row)' /\ SaysReason(row)'
    BY <1>4, <1>6, <1>8, Zenon DEF SaysUsage, SaysReason
  <2>2. row.error # "aborted"
    BY <1>1, <1>4, <1>6
  <2>3. row.id = r.id /\ row.provider = r.provider /\ row.text = r.text
        /\ row.finish = r.finish /\ row.native = r.native
    BY <1>4, <1>6, Zenon
  <2>4. SaysId(row.id)' /\ SaysHost(row.provider)' /\ TextTold(row.text)'
        /\ row.finish = FinishSaid' /\ SaysNative(row.native)'
    BY <1>8, <2>3, Zenon
  <2> QED BY <2>1, <2>2, <2>4, FaithfulSays, Zenon
<1>10. row.error = IF error = "none" /\ r.text = "none" THEN e ELSE error
  BY <1>4, <1>6, Zenon
<1>11. row.error = "none" => error = "none" /\ r.text = "visible"
  BY <1>1, <1>10 DEF Result
<1>12. row.error \in {"empty", "exhausted", "reasoned"} => row.error = e
  BY <1>1, <1>10
<1>13. r.finish # "" => FinishAt' # {}
  BY <1>8, Zenon DEF FinishSaid
<1>14. row.error = "none" => TextSeen' /\ ErrorsAt' = {}
                             /\ (path' = "stream" => DoneSeen' \/ FinishAt' # {})
  BY <1>11, <1>13, Zenon DEF TextTold, EndWarranted
<1>15. PICK share : share = exhaustion_pair(r)
  OBVIOUS
<1>16. /\ e = "exhausted" => r.finish = "length"
       /\ e \in {"exhausted", "reasoned"} <=> reasoning_ate_the_output(share)
  BY <1>1, <1>15 DEF empty_response_error
<1>17. share.completion = (IF r.basis # None THEN r.basis ELSE r.completion)
       /\ share.reasoning = r.reasoning
  BY <1>15 DEF exhaustion_pair
<1>18. reasoning_ate_the_output(share) =>
         ReasonedAt' # {} /\ (Reasoned'.completion >= 0 => AteIt(Reasoned'))
  <2>1. SUFFICES ASSUME reasoning_ate_the_output(share)
                 PROVE  ReasonedAt' # {} /\ (Reasoned'.completion >= 0 => AteIt(Reasoned'))
    OBVIOUS
  <2>2. share.reasoning > 0 /\ share.completion > 0
        /\ share.reasoning * 10 >= share.completion * 9
    BY <2>1 DEF reasoning_ate_the_output
  <2>3. r.reasoning # None
    BY <1>17, <2>2 DEF None
  <2>4. ReasonedAt' # {}
    BY <1>8, <2>3, Zenon DEF SaysReason
  <2>5. r.reasoning = Reasoned'.reasoning /\ r.basis = Usable(Reasoned'.completion)
    BY <1>8, <2>4, Zenon DEF SaysReason
  <2>6. ASSUME Reasoned'.completion >= 0 PROVE AteIt(Reasoned')
    <3>1. PICK b : b = Reasoned'.completion
      OBVIOUS
    <3>2. Usable(b) = b
      BY <2>6, <3>1 DEF Usable
    <3>3. r.basis = b
      BY <2>5, <3>1, <3>2
    <3>4. b # None
      BY <2>6, <3>1 DEF None
    <3>5. share.completion = b
      BY <1>17, <3>3, <3>4
    <3> QED BY <1>17, <2>2, <2>5, <3>1, <3>5 DEF AteIt
  <2> QED BY <2>4, <2>6
<1>19. e = "empty" => ReasonedAt' = {} \/ ~AteIt(Reasoned')
  <2>1. SUFFICES ASSUME e = "empty", ReasonedAt' # {}, AteIt(Reasoned') PROVE FALSE
    OBVIOUS
  <2>2. ~reasoning_ate_the_output(share)
    BY <1>16, <2>1
  <2>3. PICK b : b = Reasoned'.completion
    OBVIOUS
  <2>4. b > 0 /\ r.reasoning > 0 /\ r.reasoning * 10 >= b * 9
        /\ r.basis = Usable(b)
    BY <1>8, <2>1, <2>3 DEF SaysReason, AteIt
  <2>i. b \in Int
    <3>1. PICK i \in ReasonedAt' : \A j \in ReasonedAt' : j <= i
      BY <1>7, <2>1, Zenon DEF ReasonTold
    <3>2. LastOf(ReasonedAt') = i
      BY <3>1, PlacesNextNat, LastIsGreatest
    <3>3. wire'[i] \in Frame
      BY <3>1, PlacesNextNat
    <3>4. wire'[i].usage # NoUsage
      BY <3>1, Zenon DEF ReasonedAt, UsageAt
    <3>5. wire'[i].usage.completion \in Int
      BY <3>3, <3>4 DEF Frame, Usages
    <3> QED BY <2>3, <3>2, <3>5, Zenon DEF Reasoned
  <2>5. r.basis = b /\ b # None
    BY <2>4, <2>i DEF Usable, None
  <2> QED BY <1>17, <2>2, <2>4, <2>5 DEF reasoning_ate_the_output
<1>20. /\ row.error = "exhausted" => FinishSaid' = "length"
       /\ row.error \in {"exhausted", "reasoned"} =>
            ReasonedAt' # {} /\ (Reasoned'.completion >= 0 => AteIt(Reasoned'))
       /\ row.error = "empty" => ReasonedAt' = {} \/ ~AteIt(Reasoned')
  BY <1>8, <1>12, <1>16, <1>18, <1>19
<1>21. TrueLabel(row)'
  BY <1>14, <1>20, Zenon DEF TrueLabel, AteIt
<1> QED BY <1>9, <1>21

-----------------------------------------------------------------------------
(***************************************************************************)
(* The invariant.  Course is where a call stands: what each state has done *)
(* and not done yet.  Telling is what its record tells of its wire.        *)
(***************************************************************************)
Underway == {"started", "connecting", "reading", "delta"}

Resting ==
  /\ path = "none" /\ result = NewResult /\ parts = "none" /\ holder = NoHolder
  /\ wire = <<>> /\ counted = 0 /\ saved = 0 /\ lost = FALSE

\* The generator's holder keeps up with what stream_model has been told.
HolderAgrees ==
  holder.id = result.id /\ holder.provider = result.provider
    /\ holder.request = result.request

Course ==
  /\ pc \in {"idle", "down"} => Resting
  /\ todo # {} => pc = "down"
  /\ pc \in {"started", "delta", "doneframe"} => path = "stream"
  /\ pc = "gathered" => path = "batch"
  /\ pc \in {"connecting", "reading", "over"} => path \in {"stream", "batch"}
  /\ pc = "started" => wire = <<>> /\ result = NewResult /\ parts = "none"
  /\ pc \in {"connecting", "reading", "delta", "gathered"} => result.request
  /\ pc = "connecting" => wire = <<>> /\ result = [NewResult EXCEPT !.request = TRUE] /\ parts = "none"
  /\ pc \in Underway /\ path = "stream" => HolderAgrees
  /\ pc \in Underway => counted = 0 /\ saved = 0 /\ lost = FALSE
  /\ pc = "gathered" => counted = ceiling_cost(result) /\ saved = 0 /\ lost = FALSE
  /\ OnTheRecordOnce

Telling ==
  /\ \A i \in 2 .. Len(wire) : wire[i] \in Frame
  /\ pc \in {"reading", "delta"} => wire # <<>>
  /\ pc \in Underway => Told(result) /\ ErrorsAt = {}
  /\ pc \in Underway /\ path = "stream" => TextTold(parts)
  /\ pc \in Underway /\ path = "batch" => result.text = "none" /\ ~TextSeen
  /\ pc = "gathered" => FaithfulRow(Row(result)) /\ TrueLabel(Row(result))

IInv == TypeOK /\ Course /\ Telling

\* A step that saves adds a row true to its wire, at the price it counted.
WellSaved ==
  Saves \/ table' # table =>
    \E row \in StoredRow : /\ table' = Append(table, row) /\ NewRow' = row
                           /\ FaithfulRow(row)' /\ TrueLabel(row)'
                           /\ counted' = Filed(row) /\ row.cost \in Amount

LEMMA ResultTold ==
  ASSUME NEW r, NEW q, q.id = r.id, q.provider = r.provider, q.finish = r.finish,
         q.native = r.native, q.completion = r.completion, q.cost = r.cost,
         q.upstream = r.upstream, q.byok = r.byok, q.reasoning = r.reasoning,
         q.basis = r.basis, Told(r)'
  PROVE  Told(q)'
<1>1. UsageTold(q)' /\ ReasonTold(q)'
  BY Zenon DEF Told, UsageTold, ReasonTold
<1>2. IdTold(q.id)' /\ ProviderTold(q.provider)' /\ FinishTold(q.finish)' /\ NativeTold(q.native)'
  BY Zenon DEF Told
<1> QED BY <1>1, <1>2, Zenon DEF Told

LEMMA RowSaved ==
  ASSUME TypeOK, NEW r \in Result, SaveRun(r)
  PROVE  /\ table' \in Seq(StoredRow) /\ saved' \in Nat /\ lost' \in BOOLEAN
         /\ \/ /\ saved' = saved + 1 /\ lost' = lost
               /\ NewRow' = Row(r) /\ table' = Append(table, Row(r))
            \/ saved' = saved /\ lost' = TRUE /\ table' = table
<1>1. table \in Seq(StoredRow) /\ saved \in Nat /\ lost \in BOOLEAN
  BY DEF TypeOK
<1>2. CASE lost' = TRUE /\ UNCHANGED <<table, saved>>
  BY <1>1, <1>2
<1>3. CASE table' = Append(table, Row(r)) /\ saved' = saved + 1 /\ UNCHANGED lost
  <2>1. PICK row \in StoredRow : row = Row(r)
    BY RowWritten
  <2>2. table' = Append(table, row)
    BY <1>3, <2>1
  <2>3. table' \in Seq(StoredRow) /\ Len(table') = Len(table) + 1
        /\ table'[Len(table) + 1] = row
    BY <1>1, <2>2
  <2>4. NewRow' = row
    BY <2>3, Zenon DEF NewRow
  <2> QED BY <1>1, <1>3, <2>1, <2>3, <2>4
<1> QED BY <1>2, <1>3 DEF SaveRun

\* A call ends, whole.
LEMMA FinishStep ==
  ASSUME IInv, pc \in Underway, path \in {"stream", "batch"},
         NEW r \in Result, r.request,
         NEW error \in Errors \ {"aborted", "empty", "exhausted", "reasoned"},
         Finish(r, error), UNCHANGED auditVars,
         wire' \in Seq(Frame \cup [header : Labels]),
         \A i \in 2 .. Len(wire') : wire'[i] \in Frame,
         Told(r)', EndWarranted(r, error)',
         path = "stream" => TextTold(parts)', path = "batch" => TextTold(r.text)'
  PROVE  IInv' /\ WellSaved
<1>1. /\ counted = 0 /\ saved = 0 /\ lost = FALSE /\ todo = {}
      /\ path' = path /\ parts' = parts /\ holder' = holder
      /\ todo' = {} /\ applying' = applying
  BY Zenon DEF IInv, Course, Finish, auditVars, Underway
<1>2. PICK q : q = IF path = "stream" THEN WithParts(r) ELSE r
  OBVIOUS
<1>3. /\ q \in Result /\ q.request = r.request
      /\ q.id = r.id /\ q.provider = r.provider /\ q.finish = r.finish
      /\ q.native = r.native /\ q.completion = r.completion /\ q.cost = r.cost
      /\ q.upstream = r.upstream /\ q.byok = r.byok /\ q.reasoning = r.reasoning
      /\ q.basis = r.basis /\ q.text = IF path = "stream" THEN parts ELSE r.text
  <2>1. parts \in {"none", "visible"}
    BY DEF IInv, TypeOK
  <2> QED BY <1>2, <2>1 DEF WithParts, Result
<1>4. Told(q)' /\ TextTold(q.text)' /\ EndWarranted(q, error)'
  <2>1. Told(q)'
    BY <1>3, ResultTold
  <2>2. CASE path = "stream"
    <3>1. q.text = parts' /\ TextTold(parts)'
      BY <1>1, <1>3, <2>2
    <3> QED BY <1>3, <2>1, <3>1, Zenon DEF EndWarranted, TextTold
  <2>3. CASE path = "batch"
    <3>1. q.text = r.text /\ TextTold(r.text)'
      BY <1>3, <2>3
    <3> QED BY <1>3, <2>1, <3>1, Zenon DEF EndWarranted, TextTold
  <2> QED BY <2>2, <2>3
<1>5. PICK final \in Result : final = Concluded(q, error)
  BY <1>3, ConcludedType
<1>6. /\ result' = final /\ counted' = counted + ceiling_cost(final)
      /\ IF path = "stream" THEN SaveRun(final) /\ pc' = "doneframe"
         ELSE pc' = "gathered" /\ UNCHANGED <<table, saved, lost>>
  BY <1>2, <1>5 DEF Finish
<1>7. final.request
  BY <1>3, <1>5 DEF Concluded, Result
<1>8. PICK row \in StoredRow : row = Row(final)
  BY <1>5, RowWritten
<1>9. FaithfulRow(row)' /\ TrueLabel(row)'
  <2>1. row = Row(Concluded(q, error))
    BY <1>5, <1>8
  <2> QED BY <1>3, <1>4, <2>1, Concludes
<1>10. counted' = ceiling_cost(final) /\ counted' = Filed(row) /\ counted' \in Nat
       /\ row.request /\ row.cost \in Amount
  <2>1. ceiling_cost(final) \in Nat /\ ceiling_cost(final) = Filed(row)
        /\ row.request = final.request /\ row.cost \in Amount
    BY <1>5, <1>8, RowWritten
  <2> QED BY <1>1, <1>6, <1>7, <2>1
<1>11. CASE path = "stream"
  <2>1. /\ table' \in Seq(StoredRow) /\ saved' \in Nat /\ lost' \in BOOLEAN
        /\ \/ /\ saved' = saved + 1 /\ lost' = lost
              /\ NewRow' = Row(final) /\ table' = Append(table, Row(final))
           \/ saved' = saved /\ lost' = TRUE /\ table' = table
    BY <1>5, <1>6, <1>11, RowSaved DEF IInv
  <2>2. pc' = "doneframe"
    BY <1>6, <1>11
  <2>3. TypeOK'
    BY <1>1, <1>5, <1>6, <1>10, <1>11, <2>1, <2>2 DEF IInv, TypeOK
  <2>4. OnTheRecordOnce'
    <3>1. (saved' = 1 /\ NewRow' = row) \/ (saved' = 0 /\ lost')
      BY <1>1, <1>8, <2>1
    <3> QED BY <1>10, <3>1 DEF OnTheRecordOnce
  <2>5. Course'
    BY <1>1, <1>11, <2>2, <2>4, Zenon DEF Course, Underway
  <2>6. Telling'
    BY <2>2, Zenon DEF Telling, Underway
  <2>7. WellSaved
    BY <1>1, <1>8, <1>9, <1>10, <2>1 DEF WellSaved, Saves
  <2> QED BY <2>3, <2>5, <2>6, <2>7 DEF IInv
<1>12. CASE path = "batch"
  <2>1. pc' = "gathered" /\ UNCHANGED <<table, saved, lost>>
    BY <1>6, <1>12
  <2>3. TypeOK'
    BY <1>1, <1>5, <1>6, <1>10, <1>12, <2>1 DEF IInv, TypeOK
  <2>4. OnTheRecordOnce'
    BY <1>1, <2>1 DEF OnTheRecordOnce
  <2>5. Course'
    <3>1. counted' = ceiling_cost(result)' /\ result'.request
      BY <1>6, <1>7, <1>10, Zenon DEF ceiling_cost, cost_usd
    <3> QED BY <1>1, <1>12, <2>1, <2>4, <3>1, Zenon DEF Course, Underway
  <2>6. Telling'
    <3>1. Row(result)' = row
      BY <1>6, <1>8, Zenon DEF Row, cost_usd
    <3>2. FaithfulRow(Row(result))' /\ TrueLabel(Row(result))'
      BY <1>9, <3>1, Zenon DEF FaithfulRow, TrueLabel
    <3> QED BY <2>1, <3>2, Zenon DEF Telling, Underway
  <2>7. WellSaved
    BY <1>1, <2>1 DEF WellSaved, Saves
  <2> QED BY <2>3, <2>5, <2>6, <2>7 DEF IInv
<1> QED BY <1>11, <1>12

-----------------------------------------------------------------------------
(***************************************************************************)
(* The steps, one lemma for each.                                          *)
(***************************************************************************)
LEMMA UnderwayFacts ==
  ASSUME IInv, pc \in Underway
  PROVE  /\ counted = 0 /\ saved = 0 /\ lost = FALSE /\ todo = {}
         /\ Told(result) /\ ErrorsAt = {}
         /\ path = "stream" => TextTold(parts) /\ HolderAgrees
         /\ path = "batch" => result.text = "none" /\ ~TextSeen
         /\ path \in {"stream", "batch"}
         /\ wire \in Seq(Frame \cup [header : Labels])
         /\ \A i \in 2 .. Len(wire) : wire[i] \in Frame
         /\ result \in Result
         /\ pc # "started" => result.request
BY Zenon DEF IInv, Course, Telling, TypeOK, Underway

LEMMA InitInv == Init => IInv
<1> SUFFICES ASSUME Init PROVE IInv
  OBVIOUS
<1>1. table \in Seq(StoredRow)
  <2>1. CASE table = <<>>
    BY <2>1
  <2>2. CASE \E row \in LegacyRows : table = <<row>>
    <3>1. PICK row \in StoredRow : table = <<row>>
      BY <2>2, WireAssumption, Zenon
    <3> QED BY <3>1
  <2> QED BY <2>1, <2>2, Zenon DEF Init
<1>2. NoHolder \in [id : Labels, provider : Labels, request : BOOLEAN]
  BY WireAssumption DEF NoHolder
<1>3. TypeOK
  <2>1. pc = "idle" /\ path = "none" /\ result \in Result /\ parts = "none"
    BY NewResultType, Zenon DEF Init
  <2>2. holder \in [id : Labels, provider : Labels, request : BOOLEAN]
    BY <1>2, Zenon DEF Init
  <2>3. wire \in Seq(Frame \cup [header : Labels])
    <3>1. wire = <<>>
      BY Zenon DEF Init
    <3> QED BY <3>1
  <2>4. counted = 0 /\ saved = 0 /\ lost = FALSE /\ todo = {} /\ applying = FALSE
    BY Zenon DEF Init
  <2> QED BY <1>1, <2>1, <2>2, <2>3, <2>4 DEF TypeOK
<1>4. Course
  BY DEF Init, Course, Resting, OnTheRecordOnce, Underway
<1>5. Telling
  <2>1. wire = <<>> /\ pc = "idle"
    BY DEF Init
  <2>2. \A i \in 2 .. Len(wire) : wire[i] \in Frame
    BY <2>1
  <2> QED BY <2>1, <2>2, Zenon DEF Telling, Underway
<1> QED BY <1>3, <1>4, <1>5 DEF IInv

\* What a step told of its wire is what the invariant says of the next state.
LEMMA TellingNext ==
  ASSUME pc' \in Underway, NEW r, result' = r, NEW q, parts' = q, NEW p, path' = p,
         Told(r)', ErrorsAt' = {}, p = "stream" => TextTold(q)',
         p = "batch" => r.text = "none" /\ ~TextSeen',
         \A i \in 2 .. Len(wire') : wire'[i] \in Frame,
         pc' \in {"reading", "delta"} => wire' # <<>>
  PROVE  Telling'
<1>1. Told(result)'
  <2>1. IdTold(result.id)' /\ ProviderTold(result.provider)'
    BY Zenon DEF Told, IdTold, ProviderTold
  <2>2. UsageTold(result)' /\ ReasonTold(result)'
    BY Zenon DEF Told, UsageTold, ReasonTold
  <2>3. FinishTold(result.finish)' /\ NativeTold(result.native)'
    BY Zenon DEF Told, FinishTold, NativeTold
  <2> QED BY <2>1, <2>2, <2>3, Zenon DEF Told
<1>2. path' = "stream" => TextTold(parts)'
  BY Zenon DEF TextTold
<1>3. pc' # "gathered"
  BY DEF Underway
<1> QED BY <1>1, <1>2, <1>3, Zenon DEF Telling

\* A new result, its request recorded or not.
Fresh(r) ==
  \/ r = NewResult
  \/ r = [NewResult EXCEPT !.request = TRUE]

LEMMA FreshTells ==
  ASSUME NEW r, Fresh(r)
  PROVE  r \in Result /\ ToldOnly(r, "") /\ r.text = "none" /\ r.error = "none"
<1>1. CASE r = NewResult
  BY <1>1, NewResultType DEF NewResult, ToldOnly
<1>2. CASE r = [NewResult EXCEPT !.request = TRUE]
  <2>1. r \in Result
    BY <1>2, NewResultType DEF Result
  <2> QED BY <1>2, <2>1 DEF NewResult, ToldOnly
<1> QED BY <1>1, <1>2 DEF Fresh

LEMMA NothingTold ==
  ASSUME wire' = <<>>, NEW r, Fresh(r)
  PROVE  /\ Told(r)' /\ ErrorsAt' = {} /\ ~TextSeen'
         /\ \A i \in 2 .. Len(wire') : wire'[i] \in Frame
<1>1. PICK id \in Labels : id = ""
  BY WireAssumption, Zenon
<1>2. ToldOnly(r, id) /\ r \in Result
  BY <1>1, FreshTells, Zenon
<1>3. HeaderOnly(id)'
  BY <1>1, Zenon DEF HeaderOnly
<1>4. wire' \in Seq(Frame \cup [header : Labels])
  OBVIOUS
<1> QED BY <1>2, <1>3, <1>4, HeaderTold

LEMMA StartStep ==
  ASSUME IInv, Start \/ Post \/ StartedTaken
  PROVE  IInv' /\ WellSaved
<1>1. /\ \/ pc = "idle" /\ path' = "stream" /\ pc' = "started"
            /\ UNCHANGED <<result, holder>>
         \/ pc = "idle" /\ path' = "batch" /\ pc' = "connecting"
            /\ result' = [result EXCEPT !.request = TRUE] /\ UNCHANGED holder
         \/ pc = "started" /\ pc' = "connecting" /\ path' = path
            /\ result' = [result EXCEPT !.request = TRUE]
            /\ holder' = [holder EXCEPT !.request = TRUE]
      /\ parts' = parts /\ wire' = wire /\ counted' = counted /\ table' = table
      /\ saved' = saved /\ lost' = lost /\ todo' = todo /\ applying' = applying
  BY DEF Start, Post, StartedTaken, storeVars, auditVars
<1>2. /\ result = NewResult /\ parts = "none" /\ wire = <<>>
      /\ counted = 0 /\ saved = 0 /\ lost = FALSE /\ todo = {}
      /\ pc = "idle" => path = "none" /\ holder = NoHolder
      /\ pc = "started" => path = "stream" /\ HolderAgrees
  BY <1>1, Zenon DEF IInv, Course, Underway, Resting
<1>3. PICK r : r = result'
  OBVIOUS
<1>4. Fresh(r) /\ (pc' = "connecting" => r = [NewResult EXCEPT !.request = TRUE])
               /\ (pc' = "started" => r = NewResult)
  BY <1>1, <1>2, <1>3, Zenon DEF Fresh
<1>5. r \in Result /\ r.text = "none"
  BY <1>4, FreshTells, Zenon
<1>6. /\ Told(r)' /\ ErrorsAt' = {} /\ ~TextSeen'
      /\ \A i \in 2 .. Len(wire') : wire'[i] \in Frame
  BY <1>1, <1>2, <1>4, NothingTold, Zenon
<1>7. pc' \in {"started", "connecting"} /\ path' \in {"stream", "batch"}
  BY <1>1, <1>2
<1>8. TypeOK'
  BY <1>1, <1>3, <1>5, <1>7 DEF IInv, TypeOK
<1>9. Telling'
  <2>2. PICK q : q = parts' /\ q = "none"
    BY <1>1, <1>2
  <2>3. TextTold(q)'
    BY <1>6, <2>2, Zenon DEF TextTold
  <2>4. pc' \in Underway /\ pc' \notin {"reading", "delta"}
    BY <1>7 DEF Underway
  <2>5. PICK p : p = path'
    OBVIOUS
  <2> QED BY <1>3, <1>5, <1>6, <2>2, <2>3, <2>4, <2>5, TellingNext
<1>10. path' = "stream" => HolderAgrees'
  <2>1. CASE pc = "idle"
    <3>1. path' = "stream" => holder' = NoHolder /\ result' = NewResult
      BY <1>1, <1>2, <2>1
    <3>2. NoHolder.id = NewResult.id /\ NoHolder.provider = NewResult.provider
          /\ NoHolder.request = NewResult.request
      BY DEF NoHolder, NewResult
    <3> QED BY <3>1, <3>2, Zenon DEF HolderAgrees
  <2>2. CASE pc = "started"
    BY <1>1, <1>2, <2>2 DEF HolderAgrees, IInv, TypeOK, Result
  <2> QED BY <1>1, <2>1, <2>2
<1>11. OnTheRecordOnce'
  BY <1>1, <1>2, <1>7 DEF OnTheRecordOnce
<1>12. pc' = "connecting" => result'.request
  BY <1>3, <1>4, NewResultType DEF Result
<1>13. Course'
  <2>1. result' = NewResult \/ pc' = "connecting"
    BY <1>1, <1>2
  <2>2. pc' = "started" => path' = "stream"
    BY <1>1, <1>2
  <2>3. pc' = "connecting" => result' = [NewResult EXCEPT !.request = TRUE]
    BY <1>3, <1>4
  <2>4. pc' \notin {"idle", "down", "delta", "doneframe", "gathered", "reading", "over"}
    BY <1>7
  <2>5. todo' = {} /\ wire' = <<>> /\ parts' = "none" /\ counted' = 0 /\ saved' = 0
        /\ lost' = FALSE
    BY <1>1, <1>2
  <2> QED
    BY <1>7, <1>10, <1>11, <1>12, <2>1, <2>2, <2>3, <2>4, <2>5, Zenon DEF Course
<1>14. WellSaved
  BY <1>1, <1>2 DEF WellSaved, Saves
<1> QED BY <1>8, <1>9, <1>13, <1>14, Zenon DEF IInv

\* The call ends on nothing more than it had read.
LEMMA EndStep ==
  ASSUME IInv, pc \in {"connecting", "reading"}, UNCHANGED <<wire, auditVars>>,
         NEW error \in Errors \ {"aborted", "empty", "exhausted", "reasoned"},
         Finish(result, error), EndWarranted(result, error)
  PROVE  IInv' /\ WellSaved
<1>1. pc \in Underway /\ pc # "started"
  BY DEF Underway
<1>2. /\ Told(result) /\ ErrorsAt = {} /\ path \in {"stream", "batch"}
      /\ path = "stream" => TextTold(parts)
      /\ path = "batch" => result.text = "none" /\ ~TextSeen
      /\ wire \in Seq(Frame \cup [header : Labels])
      /\ \A i \in 2 .. Len(wire) : wire[i] \in Frame
      /\ result \in Result /\ result.request
  BY <1>1, UnderwayFacts, Zenon
<1>3. path' = path /\ parts' = parts /\ wire' = wire
  BY Zenon DEF Finish
<1>4. PICK r \in Result : r = result
  BY <1>2
<1>5. Finish(r, error) /\ r.request /\ Told(r) /\ EndWarranted(r, error)
      /\ (path = "batch" => r.text = "none")
  BY <1>2, <1>4
<1>6. UNCHANGED <<wire, path>>
  BY <1>3
<1>7. Told(r)' /\ ErrorsAt' = ErrorsAt /\ (TextSeen' <=> TextSeen)
  BY <1>5, <1>6, NothingRead
<1>8. EndWarranted(r, error)'
  <2>1. DoneSeen' <=> DoneSeen
    BY <1>3 DEF DoneSeen
  <2> QED BY <1>3, <1>5, <1>7, <2>1, Zenon DEF EndWarranted
<1>9. path = "stream" => TextTold(parts)'
  BY <1>2, <1>3, <1>7 DEF TextTold
<1>10. path = "batch" => TextTold(r.text)'
  <2>1. path = "batch" => ~TextSeen' /\ r.text # "visible"
    BY <1>2, <1>5, <1>7
  <2> QED BY <2>1, Zenon DEF TextTold
<1>11. wire' \in Seq(Frame \cup [header : Labels])
       /\ \A i \in 2 .. Len(wire') : wire'[i] \in Frame
  BY <1>2, <1>3
<1> QED
  BY <1>1, <1>2, <1>5, <1>7, <1>8, <1>9, <1>10, <1>11, FinishStep

LEMMA WireFailsStep ==
  ASSUME IInv, WireFails
  PROVE  IInv' /\ WellSaved
<1>1. /\ pc \in {"connecting", "reading"} /\ UNCHANGED <<wire, auditVars>>
  BY DEF WireFails
<1>2. PICK error \in {"stalled", "failed", "no connection"} : Finish(result, error)
  BY DEF WireFails
<1>3. error \in Errors \ {"aborted", "empty", "exhausted", "reasoned"}
      /\ EndWarranted(result, error)
  BY DEF Errors, EndWarranted
<1> QED BY <1>1, <1>2, <1>3, EndStep

LEMMA EndOfLinesStep ==
  ASSUME IInv, EndOfLines
  PROVE  IInv' /\ WellSaved
<1>1. pc \in {"connecting", "reading"} /\ UNCHANGED <<wire, auditVars>>
  BY DEF EndOfLines
<1>2. PICK error : error = EndError /\ Finish(result, error)
  BY DEF EndOfLines
<1>3. error \in {"none", "incomplete"} /\ (error = "none" => result.finish # "")
  BY <1>2, Zenon DEF EndError
<1>4. error \in Errors \ {"aborted", "empty", "exhausted", "reasoned"}
  BY <1>3 DEF Errors
<1>5. ErrorsAt = {}
  BY <1>1, UnderwayFacts DEF Underway
<1>6. EndWarranted(result, error)
  BY <1>3, <1>5, Zenon DEF EndWarranted
<1> QED BY <1>1, <1>2, <1>4, <1>6, EndStep

LEMMA HeaderSettled ==
  ASSUME NEW r0, Fresh(r0), NEW id \in Labels, NEW r, r = settle_generation_id(r0, id)
  PROVE  r \in Result /\ ToldOnly(r, id) /\ r.text = "none" /\ r.request = r0.request
<1>1. r0 \in Result /\ ToldOnly(r0, "") /\ r0.text = "none"
  BY FreshTells, Zenon
<1>2. r \in Result
  BY <1>1, SettledType
<1>3. CASE id = ""
  BY <1>1, <1>2, <1>3, Zenon DEF settle_generation_id
<1>4. CASE id # ""
  <2>1. r0.id = ""
    BY <1>1, Zenon DEF ToldOnly
  <2>2. r = [r0 EXCEPT !.id = id]
    BY <1>4, <2>1, Zenon DEF settle_generation_id
  <2>3. /\ r.id = id /\ r.provider = r0.provider /\ r.finish = r0.finish
        /\ r.native = r0.native /\ r.completion = r0.completion /\ r.cost = r0.cost
        /\ r.upstream = r0.upstream /\ r.byok = r0.byok /\ r.reasoning = r0.reasoning
        /\ r.basis = r0.basis /\ r.text = r0.text /\ r.request = r0.request
    BY <1>1, <2>2 DEF Result
  <2> QED BY <1>1, <1>2, <2>3, Zenon DEF ToldOnly
<1> QED BY <1>3, <1>4

LEMMA RespondStep ==
  ASSUME IInv, Respond
  PROVE  IInv' /\ WellSaved
<1>1. pc = "connecting" /\ UNCHANGED auditVars /\ pc \in Underway /\ pc # "started"
  BY DEF Respond, Underway
<1>0. PICK id \in Labels :
      \E r :
        /\ r = settle_generation_id(result, id)
        /\ wire' = <<[header |-> id]>>
        /\ \/ /\ pc' = "reading" /\ result' = r
              /\ holder' = IF path = "stream" THEN settle_generation_id(holder, id)
                           ELSE holder
              /\ UNCHANGED <<path, parts, storeVars>>
           \/ Finish(r, "http")
  BY WireAssumption DEF Respond
<1>2. PICK r :
        /\ r = settle_generation_id(result, id)
        /\ wire' = <<[header |-> id]>>
        /\ \/ /\ pc' = "reading" /\ result' = r
              /\ holder' = IF path = "stream" THEN settle_generation_id(holder, id)
                           ELSE holder
              /\ UNCHANGED <<path, parts, storeVars>>
           \/ Finish(r, "http")
  BY <1>0
<1>3. /\ counted = 0 /\ saved = 0 /\ lost = FALSE /\ todo = {}
      /\ path = "stream" => HolderAgrees
      /\ path \in {"stream", "batch"} /\ result.request
  BY <1>1, UnderwayFacts, Zenon
<1>4. result = [NewResult EXCEPT !.request = TRUE] /\ parts = "none" /\ wire = <<>>
  BY <1>1, Zenon DEF IInv, Course
<1>5. r \in Result /\ ToldOnly(r, id) /\ r.text = "none" /\ r.request
  <2>1. Fresh(result)
    BY <1>4, Zenon DEF Fresh
  <2> QED BY <1>2, <1>3, <2>1, HeaderSettled, Zenon
<1>6. wire' \in Seq(Frame \cup [header : Labels]) /\ HeaderOnly(id)' /\ wire' # <<>>
  <2>1. PICK h \in [header : Labels] : h = [header |-> id]
    OBVIOUS
  <2>2. wire' = <<h>> /\ h.header = id
    BY <1>2, <2>1
  <2>3. wire' \in Seq(Frame \cup [header : Labels]) /\ Len(wire') = 1 /\ wire'[1] = h
        /\ wire' # <<>>
    BY <2>2
  <2> QED BY <2>2, <2>3, Zenon DEF HeaderOnly
<1>7. /\ Told(r)' /\ ErrorsAt' = {} /\ ~TextSeen'
      /\ \A i \in 2 .. Len(wire') : wire'[i] \in Frame
  BY <1>5, <1>6, HeaderTold
<1>8. CASE Finish(r, "http")
  <2>1. parts' = "none"
    BY <1>4, <1>8, Zenon DEF Finish
  <2>2. TextTold(parts)' /\ TextTold(r.text)'
    <3>1. "none" # "visible"
      OBVIOUS
    <3> QED BY <1>5, <1>7, <2>1, <3>1, Zenon DEF TextTold
  <2>3. "http" \in Errors \ {"aborted", "empty", "exhausted", "reasoned"}
        /\ EndWarranted(r, "http")'
    BY DEF Errors, EndWarranted
  <2> QED BY <1>1, <1>3, <1>5, <1>6, <1>7, <1>8, <2>2, <2>3, FinishStep
<1>9. CASE /\ pc' = "reading" /\ result' = r
           /\ holder' = IF path = "stream" THEN settle_generation_id(holder, id)
                        ELSE holder
           /\ UNCHANGED <<path, parts, storeVars>>
  <2>1. /\ path' = path /\ parts' = parts /\ counted' = counted /\ table' = table
        /\ saved' = saved /\ lost' = lost /\ todo' = todo /\ applying' = applying
    BY <1>1, <1>9 DEF storeVars, auditVars
  <2>2. holder \in [id : Labels, provider : Labels, request : BOOLEAN]
        /\ result \in Result
    BY DEF IInv, TypeOK
  <2>3. holder' \in [id : Labels, provider : Labels, request : BOOLEAN]
    BY <1>9, <2>2 DEF settle_generation_id
  <2>4. TypeOK'
    BY <1>5, <1>6, <1>9, <2>1, <2>3 DEF IInv, TypeOK
  <2>5. Telling'
    <3>1. PICK q : q = parts' /\ q = "none"
      BY <1>4, <2>1
    <3>2. TextTold(q)'
      <4>1. "none" # "visible"
        OBVIOUS
      <4> QED BY <1>7, <3>1, <4>1, Zenon DEF TextTold
    <3>3. PICK p : p = path'
      OBVIOUS
    <3>4. pc' \in Underway
      BY <1>9 DEF Underway
    <3> QED BY <1>5, <1>6, <1>7, <1>9, <3>1, <3>2, <3>3, <3>4, TellingNext
  <2>6. path' = "stream" => HolderAgrees'
    <3>1. SUFFICES ASSUME path = "stream" PROVE HolderAgrees'
      BY <2>1
    <3>2. holder' = settle_generation_id(holder, id)
          /\ result' = settle_generation_id(result, id)
      BY <1>2, <1>9, <3>1
    <3>3. holder.id = result.id /\ holder.provider = result.provider
          /\ holder.request = result.request
      BY <1>3, <3>1 DEF HolderAgrees
    <3>4. CASE id = "" \/ result.id # ""
      BY <3>2, <3>3, <3>4, Zenon DEF settle_generation_id, HolderAgrees
    <3>5. CASE ~(id = "" \/ result.id # "")
      <4>1. holder' = [holder EXCEPT !.id = id] /\ result' = [result EXCEPT !.id = id]
        BY <3>2, <3>3, <3>5, Zenon DEF settle_generation_id
      <4>2. /\ holder'.id = id /\ holder'.provider = holder.provider
            /\ holder'.request = holder.request
            /\ result'.id = id /\ result'.provider = result.provider
            /\ result'.request = result.request
        BY <2>2, <4>1 DEF Result
      <4> QED BY <3>3, <4>2, Zenon DEF HolderAgrees
    <3> QED BY <3>4, <3>5
  <2>7. OnTheRecordOnce'
    BY <1>3, <1>9, <2>1 DEF OnTheRecordOnce
  <2>8. Course'
    BY <1>3, <1>5, <1>9, <2>1, <2>6, <2>7 DEF Course, Underway
  <2>9. WellSaved
    BY <1>3, <2>1 DEF WellSaved, Saves
  <2> QED BY <2>4, <2>5, <2>8, <2>9, Zenon DEF IInv
<1> QED BY <1>2, <1>8, <1>9

LEMMA ReadStep ==
  ASSUME IInv, Read
  PROVE  IInv' /\ WellSaved
<1>1. /\ pc = "reading" /\ path = "stream" /\ UNCHANGED auditVars /\ pc \in Underway
      /\ pc # "started"
  BY DEF Read, Underway
<1>2. PICK f \in Frame :
        /\ wire' = Append(wire, f)
        /\ CASE f.kind = "done" -> Finish(result, "none")
             [] f.kind = "junk" -> Finish(result, "malformed")
             [] OTHER -> Chunk(f)
  BY WireAssumption, Zenon DEF Read
<1>3. /\ counted = 0 /\ saved = 0 /\ lost = FALSE /\ todo = {}
      /\ Told(result) /\ ErrorsAt = {} /\ TextTold(parts) /\ HolderAgrees
      /\ wire \in Seq(Frame \cup [header : Labels])
      /\ \A i \in 2 .. Len(wire) : wire[i] \in Frame
      /\ result \in Result /\ result.request
  BY <1>1, UnderwayFacts, Zenon
<1>4. wire # <<>>
  BY <1>1, Zenon DEF IInv, Telling
<1>5. PICK r \in Result : r = result
  BY <1>3
<1>6. Told(r) /\ r.request
  BY <1>3, <1>5
<1>n. PICK n : n = Len(wire) + 1
  OBVIOUS
<1>7. /\ n \in Nat /\ n >= 2 /\ Len(wire) = n - 1 /\ Len(wire') = n /\ wire'[n] = f
      /\ \A i \in 1 .. n - 1 : wire'[i] = wire[i]
  BY <1>2, <1>3, <1>4, <1>n, LineReadAny
<1>8. wire' \in Seq(Frame \cup [header : Labels]) /\ wire' # <<>>
  BY <1>2, <1>3
<1>9. \A i \in 2 .. Len(wire') : wire'[i] \in Frame
  <2>1. \A i \in 2 .. n : i = n \/ (i \in 2 .. n - 1 /\ i \in 1 .. n - 1)
    BY <1>7
  <2> QED BY <1>3, <1>7, <2>1
<1>10. CASE f.kind # "chunk"
  <2>1. PICK error \in {"none", "malformed"} :
          Finish(result, error) /\ (error = "none" => f.kind = "done")
    BY <1>2, <1>10 DEF Frame
  <2>2. path' = path /\ parts' = parts
    BY <2>1, Zenon DEF Finish
  <2>3. /\ Told(r)' /\ ErrorsAt' = ErrorsAt /\ TextSeen' = TextSeen
        /\ f.kind = "done" => DoneSeen'
    BY <1>2, <1>3, <1>4, <1>6, <1>10, <2>2, OtherLineTold
  <2>4. TextTold(parts)'
    BY <1>3, <2>2, <2>3 DEF TextTold
  <2>5. EndWarranted(r, error)'
    BY <1>3, <2>1, <2>3, Zenon DEF EndWarranted
  <2>6. error \in Errors \ {"aborted", "empty", "exhausted", "reasoned"}
    BY <2>1 DEF Errors
  <2>7. Finish(r, error)
    BY <1>5, <2>1
  <2> QED BY <1>1, <1>6, <1>8, <1>9, <2>3, <2>4, <2>5, <2>6, <2>7, FinishStep
<1>11. CASE f.kind = "chunk"
  <2>1. Chunk(f)
    BY <1>2, <1>11
  <2>2. PICK told : told = Ingested(r, f)
    OBVIOUS
  <2>3. IsIngested(told, r, f)
    BY <2>2, ChunkIngested
  <2>4. /\ told \in Result /\ told.request = r.request /\ told.finish = r.finish
        /\ told.native = r.native /\ told.text = r.text
    BY <2>3, Zenon DEF IsIngested
  <2>5. PICK c \in Result : c = Chosen(told, f)
    BY <2>4, ChosenType
  <2>6. c.id = told.id /\ c.provider = told.provider /\ c.request = told.request
        /\ c.completion = told.completion /\ c.cost = told.cost /\ c.upstream = told.upstream
        /\ c.byok = told.byok /\ c.reasoning = told.reasoning /\ c.basis = told.basis
    BY <2>4, <2>5 DEF Chosen, Result
  <2>7. \/ f.err /\ Finish(told, "upstream")
        \/ /\ ~f.err /\ result' = c
           /\ holder' = [holder EXCEPT !.id = c.id, !.provider = c.provider]
           /\ parts' = IF f.choice /\ f.text = "visible" THEN "visible" ELSE parts
           /\ pc' = IF f.choice /\ f.text # "none" THEN "delta" ELSE pc
           /\ UNCHANGED <<path, storeVars>>
    BY <1>5, <2>1, <2>2, <2>5, Zenon DEF Chunk
  <2>8. path' = path
    BY <2>7, Zenon DEF Finish
  <2>9. IdTold(told.id)' /\ ProviderTold(told.provider)' /\ UsageTold(told)'
        /\ ReasonTold(told)'
    BY <1>2, <1>3, <1>4, <1>6, <1>11, <2>2, <2>8, ChunkTold
  <2>10. FinishTold(told.finish) /\ NativeTold(told.native)
    BY <1>6, <2>4, Zenon DEF Told
  <2>11. /\ f.err /\ path = "stream" => FinishTold(told.finish)' /\ NativeTold(told.native)'
         /\ ~(f.err /\ path = "stream") =>
              FinishTold(Chosen(told, f).finish)' /\ NativeTold(Chosen(told, f).native)'
    BY <1>2, <1>3, <1>4, <1>11, <2>4, <2>8, <2>10, VerdictTold
  <2>e. PICK erred : erred = (f.err /\ path = "stream")
    OBVIOUS
  <2>12. /\ ErrorsAt' = IF erred THEN ErrorsAt \cup {n} ELSE ErrorsAt
         /\ TextSeen' <=> TextSeen \/ (f.choice /\ ~erred /\ f.text = "visible")
    BY <1>2, <1>3, <1>4, <1>11, <1>n, <2>8, <2>e, ChunkPlaces
  <2>13. CASE f.err /\ Finish(told, "upstream")
    <3>1. parts' = parts
      BY <2>13, Zenon DEF Finish
    <3>2. TextTold(parts)'
      BY <1>1, <1>3, <2>12, <2>13, <2>e, <3>1, Zenon DEF TextTold
    <3>3. Told(told)'
      BY <1>1, <2>9, <2>11, <2>13, Zenon DEF Told
    <3>4. "upstream" \in Errors \ {"aborted", "empty", "exhausted", "reasoned"}
          /\ EndWarranted(told, "upstream")'
      BY DEF Errors, EndWarranted
    <3> QED
      BY <1>1, <1>6, <1>8, <1>9, <2>4, <2>13, <3>2, <3>3, <3>4, FinishStep
  <2>14. CASE /\ ~f.err /\ result' = c
              /\ holder' = [holder EXCEPT !.id = c.id, !.provider = c.provider]
              /\ parts' = IF f.choice /\ f.text = "visible" THEN "visible" ELSE parts
              /\ pc' = IF f.choice /\ f.text # "none" THEN "delta" ELSE pc
              /\ UNCHANGED <<path, storeVars>>
    <3>1. /\ counted' = counted /\ table' = table
          /\ saved' = saved /\ lost' = lost /\ todo' = todo /\ applying' = applying
      BY <1>1, <2>14 DEF storeVars, auditVars
    <3>2. Told(c)'
      <4>1. FinishTold(c.finish)' /\ NativeTold(c.native)'
        BY <2>5, <2>11, <2>14, Zenon
      <4>2. UsageTold(c)' /\ ReasonTold(c)'
        BY <2>6, <2>9, Zenon DEF UsageTold, ReasonTold
      <4>3. IdTold(c.id)' /\ ProviderTold(c.provider)'
        BY <2>6, <2>9, Zenon
      <4> QED BY <4>1, <4>2, <4>3, Zenon DEF Told
    <3>3. PICK q : q = parts'
      OBVIOUS
    <3>4. TextTold(q)'
      <4>1. (q = "visible") <=> (parts = "visible" \/ (f.choice /\ f.text = "visible"))
        BY <2>14, <3>3
      <4> QED BY <1>3, <2>12, <2>14, <2>e, <4>1, Zenon DEF TextTold
    <3>5. ErrorsAt' = {}
      BY <1>3, <2>12, <2>14, <2>e, Zenon
    <3>6. pc' \in {"delta", "reading"} /\ pc' \in Underway
      BY <1>1, <2>14 DEF Underway
    <3>7. Telling'
      BY <1>1, <1>8, <1>9, <2>8, <2>14, <3>2, <3>3, <3>4, <3>5, <3>6, TellingNext
    <3>8. TypeOK'
      <4>1. holder' \in [id : Labels, provider : Labels, request : BOOLEAN]
        BY <2>14 DEF IInv, TypeOK, Result
      <4>2. parts' \in {"none", "visible"}
        BY <2>14 DEF IInv, TypeOK
      <4> QED BY <1>8, <2>8, <2>14, <3>1, <3>6, <4>1, <4>2 DEF IInv, TypeOK
    <3>9. HolderAgrees'
      <4>1. holder'.id = c.id /\ holder'.provider = c.provider
            /\ holder'.request = holder.request
        BY <2>14 DEF IInv, TypeOK
      <4>2. holder.request = c.request
        BY <1>3, <1>5, <2>4, <2>6, Zenon DEF HolderAgrees
      <4> QED BY <2>14, <4>1, <4>2, Zenon DEF HolderAgrees
    <3>10. OnTheRecordOnce'
      BY <1>3, <3>1, <3>6 DEF OnTheRecordOnce
    <3>11. result'.request
      BY <1>6, <2>4, <2>6, <2>14
    <3>12. Course'
      BY <1>1, <1>3, <2>8, <3>1, <3>6, <3>9, <3>10, <3>11 DEF Course, Underway
    <3>13. WellSaved
      BY <1>3, <3>1 DEF WellSaved, Saves
    <3> QED BY <3>7, <3>8, <3>12, <3>13, Zenon DEF IInv
  <2> QED BY <2>7, <2>13, <2>14
<1> QED BY <1>10, <1>11

LEMMA BodyStep ==
  ASSUME IInv, Body
  PROVE  IInv' /\ WellSaved
<1>1. /\ pc = "reading" /\ path = "batch" /\ UNCHANGED auditVars /\ pc \in Underway
      /\ pc # "started"
  BY DEF Body, Underway
<1>2. PICK f \in Frame :
        /\ f.kind = "chunk"
        /\ \/ f.choice /\ wire' = Append(wire, f) /\ Finish(BodyRead(f), "none")
           \/ ~f.choice /\ UNCHANGED wire /\ Finish(result, "malformed")
  BY WireAssumption, Zenon DEF Body
<1>3. CASE ~f.choice /\ UNCHANGED wire /\ Finish(result, "malformed")
  <2>1. "malformed" \in Errors \ {"aborted", "empty", "exhausted", "reasoned"}
        /\ EndWarranted(result, "malformed")
    BY DEF Errors, EndWarranted
  <2>2. pc \in {"connecting", "reading"} /\ UNCHANGED <<wire, auditVars>>
    BY <1>1, <1>3
  <2> QED BY <1>3, <2>1, <2>2, EndStep
<1>4. CASE f.choice /\ wire' = Append(wire, f) /\ Finish(BodyRead(f), "none")
  <2>1. /\ Told(result) /\ ErrorsAt = {} /\ result.text = "none" /\ ~TextSeen
        /\ wire \in Seq(Frame \cup [header : Labels])
        /\ \A i \in 2 .. Len(wire) : wire[i] \in Frame
        /\ result \in Result /\ result.request
    BY <1>1, UnderwayFacts, Zenon
  <2>2. wire # <<>>
    BY <1>1, Zenon DEF IInv, Telling
  <2>3. PICK r \in Result : r = result
    BY <2>1
  <2>4. Told(r) /\ r.request
    BY <2>1, <2>3
  <2>5. PICK told : told = Ingested(r, f)
    OBVIOUS
  <2>6. /\ told \in Result /\ told.request = r.request /\ told.finish = r.finish
        /\ told.native = r.native
    <3>1. IsIngested(told, r, f)
      BY <2>5, ChunkIngested
    <3> QED BY <3>1, Zenon DEF IsIngested
  <2>7. PICK c \in Result : c = Chosen(told, f)
    BY <2>6, ChosenType
  <2>8. c.id = told.id /\ c.provider = told.provider /\ c.request = told.request
        /\ c.completion = told.completion /\ c.cost = told.cost /\ c.upstream = told.upstream
        /\ c.byok = told.byok /\ c.reasoning = told.reasoning /\ c.basis = told.basis
    BY <2>6, <2>7 DEF Chosen, Result
  <2>9. PICK b \in Result :
          /\ b = BodyRead(f) /\ b.request
          /\ b.text = IF f.text = "visible" THEN "visible" ELSE "none"
          /\ b.id = c.id /\ b.provider = c.provider /\ b.finish = c.finish
          /\ b.native = c.native /\ b.completion = c.completion /\ b.cost = c.cost
          /\ b.upstream = c.upstream /\ b.byok = c.byok /\ b.reasoning = c.reasoning
          /\ b.basis = c.basis
    <3>1. BodyRead(f) = [c EXCEPT !.text = IF f.text = "visible" THEN "visible" ELSE "none"]
      BY <2>3, <2>5, <2>7 DEF BodyRead
    <3>2. c.request
      BY <2>4, <2>6, <2>8
    <3> QED BY <3>1, <3>2 DEF Result
  <2>10. path' = path
    BY <1>4, Zenon DEF Finish
  <2>11. IdTold(told.id)' /\ ProviderTold(told.provider)' /\ UsageTold(told)'
         /\ ReasonTold(told)'
    BY <1>2, <1>4, <2>1, <2>2, <2>4, <2>5, <2>10, ChunkTold
  <2>12. FinishTold(told.finish) /\ NativeTold(told.native)
    BY <2>4, <2>6, Zenon DEF Told
  <2>13. FinishTold(c.finish)' /\ NativeTold(c.native)'
    <3>1. ~(f.err /\ path = "stream") =>
            FinishTold(Chosen(told, f).finish)' /\ NativeTold(Chosen(told, f).native)'
      BY <1>2, <1>4, <2>1, <2>2, <2>6, <2>10, <2>12, VerdictTold
    <3>2. path # "stream"
      BY <1>1
    <3> QED BY <2>7, <3>1, <3>2, Zenon
  <2>14. Told(c)'
    <3>2. UsageTold(c)' /\ ReasonTold(c)'
      BY <2>8, <2>11, Zenon DEF UsageTold, ReasonTold
    <3>3. IdTold(c.id)' /\ ProviderTold(c.provider)'
      BY <2>8, <2>11, Zenon
    <3> QED BY <2>13, <3>2, <3>3, Zenon DEF Told
  <2>15. Told(b)'
    BY <2>9, <2>14, ResultTold
  <2>16. PICK n : n = Len(wire) + 1
    OBVIOUS
  <2>e. PICK erred : erred = (f.err /\ path = "stream")
    OBVIOUS
  <2>17. /\ ErrorsAt' = IF erred THEN ErrorsAt \cup {n} ELSE ErrorsAt
         /\ TextSeen' <=> TextSeen \/ (f.choice /\ ~erred /\ f.text = "visible")
    BY <1>2, <1>4, <2>1, <2>2, <2>10, <2>16, <2>e, ChunkPlaces
  <2>18. ~erred
    BY <1>1, <2>e
  <2>19. TextTold(b.text)'
    <3>1. (b.text = "visible") <=> f.text = "visible"
      BY <2>9
    <3> QED BY <1>4, <2>1, <2>17, <2>18, <3>1, Zenon DEF TextTold
  <2>20. EndWarranted(b, "none")'
    <3>1. path' # "stream"
      BY <1>1, <2>10
    <3> QED BY <2>1, <2>17, <2>18, <3>1, Zenon DEF EndWarranted
  <2>21. wire' \in Seq(Frame \cup [header : Labels])
    BY <1>4, <2>1
  <2>22. \A i \in 2 .. Len(wire') : wire'[i] \in Frame
    <3>1. /\ n \in Nat /\ n >= 2 /\ Len(wire) = n - 1 /\ Len(wire') = n /\ wire'[n] = f
          /\ \A i \in 1 .. n - 1 : wire'[i] = wire[i]
      BY <1>4, <2>1, <2>2, <2>16, LineReadAny
    <3>2. \A i \in 2 .. n : i = n \/ (i \in 2 .. n - 1 /\ i \in 1 .. n - 1)
      BY <3>1
    <3> QED BY <2>1, <3>1, <3>2
  <2>23. "none" \in Errors \ {"aborted", "empty", "exhausted", "reasoned"}
    BY DEF Errors
  <2>24. Finish(b, "none") /\ path # "stream"
    BY <1>1, <1>4, <2>9
  <2> QED
    BY <1>1, <2>9, <2>15, <2>19, <2>20, <2>21, <2>22, <2>23, <2>24, FinishStep
<1> QED BY <1>2, <1>3, <1>4

\* The client takes a frame, or does not: nothing is told and nothing saved.
LEMMA TakenStep ==
  ASSUME IInv, DeltaTaken \/ DoneTaken
  PROVE  IInv' /\ WellSaved
<1>1. /\ \/ pc = "delta" /\ pc' = "reading"
         \/ pc = "doneframe" /\ pc' = "over"
      /\ path' = path /\ result' = result /\ parts' = parts /\ holder' = holder
      /\ wire' = wire /\ counted' = counted /\ table' = table /\ saved' = saved
      /\ lost' = lost /\ todo' = todo /\ applying' = applying
  BY DEF DeltaTaken, DoneTaken, storeVars, auditVars
<1>2. path = "stream" /\ todo = {}
  BY <1>1 DEF IInv, Course
<1>3. TypeOK'
  BY <1>1 DEF IInv, TypeOK
<1>4. OnTheRecordOnce'
  <2>1. NewRow' = NewRow
    BY <1>1 DEF NewRow
  <2>2. OnTheRecordOnce
    BY DEF IInv, Course
  <2> QED BY <1>1, <2>1, <2>2 DEF OnTheRecordOnce
<1>5. CASE pc = "delta"
  <2>1. pc \in Underway
    BY <1>5 DEF Underway
  <2>2. /\ counted = 0 /\ saved = 0 /\ lost = FALSE
        /\ Told(result) /\ ErrorsAt = {} /\ TextTold(parts) /\ HolderAgrees
        /\ \A i \in 2 .. Len(wire) : wire[i] \in Frame
        /\ result.request
    BY <1>2, <1>5, <2>1, UnderwayFacts, Zenon
  <2>3. PICK r : r = result
    OBVIOUS
  <2>4. PICK q : q = parts
    OBVIOUS
  <2>5. Told(r) /\ TextTold(q)
    BY <2>2, <2>3, <2>4
  <2>6. UNCHANGED <<wire, path>>
    BY <1>1
  <2>7. Told(r)' /\ TextTold(q)' /\ ErrorsAt' = {}
    BY <2>2, <2>5, <2>6, NothingRead, Zenon
  <2>8. wire # <<>>
    BY <1>5, Zenon DEF IInv, Telling
  <2>9. pc' \in Underway /\ pc' = "reading" /\ wire' # <<>>
    BY <1>1, <1>5, <2>8 DEF Underway
  <2>10. \A i \in 2 .. Len(wire') : wire'[i] \in Frame
    BY <1>1, <2>2
  <2>11. result' = r /\ parts' = q /\ path' = "stream"
    BY <1>1, <1>2, <2>3, <2>4
  <2>12. Telling'
    BY <2>7, <2>9, <2>10, <2>11, TellingNext
  <2>13. HolderAgrees'
    BY <1>1, <2>2 DEF HolderAgrees
  <2>14. Course'
    BY <1>1, <1>2, <1>4, <2>2, <2>9, <2>13 DEF Course, Underway
  <2> QED BY <1>1, <1>3, <2>2, <2>12, <2>14 DEF IInv, WellSaved, Saves
<1>6. CASE pc = "doneframe"
  <2>1. pc' = "over"
    BY <1>1, <1>6
  <2>2. Telling'
    <3>1. \A i \in 2 .. Len(wire') : wire'[i] \in Frame
      BY <1>1 DEF IInv, Telling
    <3> QED BY <2>1, <3>1, Zenon DEF Telling, Underway
  <2>3. Course'
    BY <1>1, <1>2, <1>4, <2>1, Zenon DEF Course, Underway
  <2>4. saved \in Nat
    BY DEF IInv, TypeOK
  <2> QED BY <1>1, <1>3, <2>2, <2>3, <2>4 DEF IInv, WellSaved, Saves
<1> QED BY <1>1, <1>5, <1>6

\* Where a call is over, there is nothing left to tell.
LEMMA OverStep ==
  ASSUME IInv, pc' = "over", UNCHANGED <<path, wire, auditVars>>, TypeOK',
         path \in {"stream", "batch"}, todo = {}, OnTheRecordOnce'
  PROVE  Course' /\ Telling'
<1>1. Telling'
  <2>1. \A i \in 2 .. Len(wire') : wire'[i] \in Frame
    BY DEF IInv, Telling
  <2> QED BY <2>1, Zenon DEF Telling, Underway
<1>2. todo' = {} /\ path' = path
  BY DEF auditVars
<1>3. Course'
  BY <1>2, Zenon DEF Course, Underway
<1> QED BY <1>1, <1>3

\* A row that was true to its wire is true to it after a step that reads nothing.
LEMMA RowStays ==
  ASSUME UNCHANGED <<wire, path>>, NEW row, FaithfulRow(row), TrueLabel(row)
  PROVE  FaithfulRow(row)' /\ TrueLabel(row)'
<1>w. wire' = wire /\ path' = path
  OBVIOUS
<1>f. FaithfulRow(row) /\ TrueLabel(row)
  OBVIOUS
<1>1. /\ IdsAt' = IdsAt /\ ProviderAt' = ProviderAt /\ UsageAt' = UsageAt
      /\ ReasonedAt' = ReasonedAt /\ FinishAt' = FinishAt /\ NativeAt' = NativeAt
      /\ ErrorsAt' = ErrorsAt /\ (TextSeen' <=> TextSeen) /\ (DoneSeen' <=> DoneSeen)
  BY <1>w DEF IdsAt, ProviderAt, UsageAt, ReasonedAt, FinishAt, NativeAt, ErrorsAt, TextSeen,
              ChoicesAt, ChunksAt, IdAt, DoneSeen
<1>2. LastUsage' = LastUsage /\ Reasoned' = Reasoned /\ FinishSaid' = FinishSaid
  BY <1>w, <1>1, Zenon DEF LastUsage, Reasoned, FinishSaid
<1>3. IdAt(FirstOf(IdsAt))' = IdAt(FirstOf(IdsAt))
  BY <1>w, <1>1, Zenon DEF IdAt
<1>4. FaithfulRow(row)'
  <2>3. SaysId(row.id) /\ SaysHost(row.provider) /\ TextTold(row.text)
    BY <1>f, Zenon DEF FaithfulRow, SaysId, SaysHost, TextTold
  <2>4. /\ row.id = (IF IdsAt' = {} THEN "" ELSE IdAt(FirstOf(IdsAt))')
        /\ row.provider = (IF ProviderAt' = {} THEN "" ELSE wire'[FirstOf(ProviderAt')].provider)
        /\ (row.text = "visible") <=> TextSeen'
    BY <1>w, <1>1, <1>3, <2>3, Zenon DEF SaysId, SaysHost, TextTold
  <2>5. CASE row.error = "aborted"
    BY <1>f, <2>4, <2>5, Zenon DEF FaithfulRow
  <2>6. CASE row.error # "aborted"
    <3>1. row.native = (IF NativeAt' = {} THEN "" ELSE wire'[LastOf(NativeAt')].native)
      BY <1>w, <1>f, <1>1, <2>6, Zenon DEF FaithfulRow
    <3>2. row.finish = FinishSaid'
      BY <1>f, <1>2, <2>6, Zenon DEF FaithfulRow
    <3>3. IF UsageAt' = {} THEN row.completion = None /\ row.cost = None /\ row.byok = "null"
          ELSE /\ row.completion = Usable(LastUsage'.completion)
               /\ row.cost = Usable(LastUsage'.cost)
               /\ row.upstream = Usable(LastUsage'.upstream)
               /\ row.byok \in {LastUsage'.byok, "null"}
      BY <1>f, <1>1, <1>2, <2>6, Zenon DEF FaithfulRow
    <3>4. IF ReasonedAt' = {} THEN row.reasoning = None
          ELSE /\ row.reasoning = Reasoned'.reasoning
               /\ row.basis = Usable(Reasoned'.completion)
      BY <1>f, <1>1, <1>2, <2>6, Zenon DEF FaithfulRow
    <3> QED BY <2>4, <2>6, <3>1, <3>2, <3>3, <3>4, Zenon DEF FaithfulRow
  <2> QED BY <2>5, <2>6
<1>5. TrueLabel(row)'
  BY <1>w, <1>f, <1>1, <1>2, Zenon DEF TrueLabel
<1> QED BY <1>4, <1>5

LEMMA GatheredStep ==
  ASSUME IInv, Gathered
  PROVE  IInv' /\ WellSaved
<1>1. /\ pc = "gathered" /\ pc' = "over" /\ SaveRun(result)
      /\ path' = path /\ result' = result /\ parts' = parts /\ holder' = holder
      /\ wire' = wire /\ counted' = counted /\ todo' = todo /\ applying' = applying
  BY DEF Gathered, auditVars
<1>2. /\ path = "batch" /\ todo = {} /\ result.request
      /\ counted = ceiling_cost(result) /\ saved = 0 /\ lost = FALSE
      /\ FaithfulRow(Row(result)) /\ TrueLabel(Row(result))
  BY <1>1 DEF IInv, Course, Telling
<1>3. PICK r \in Result : r = result
  BY DEF IInv, TypeOK
<1>4. PICK row \in StoredRow : row = Row(r)
  BY RowWritten
<1>5. /\ row.request /\ counted = Filed(row) /\ FaithfulRow(row) /\ TrueLabel(row)
      /\ row.cost \in Amount
  <2>1. row.request = r.request /\ ceiling_cost(r) = Filed(row) /\ row.cost \in Amount
    BY <1>4, RowWritten
  <2>2. row = Row(result)
    BY <1>3, <1>4
  <2> QED BY <1>2, <1>3, <2>1, <2>2
<1>6. FaithfulRow(row)' /\ TrueLabel(row)'
  BY <1>1, <1>5, RowStays
<1>7. /\ table' \in Seq(StoredRow) /\ saved' \in Nat /\ lost' \in BOOLEAN
      /\ \/ /\ saved' = saved + 1 /\ lost' = lost
            /\ NewRow' = Row(r) /\ table' = Append(table, Row(r))
         \/ saved' = saved /\ lost' = TRUE /\ table' = table
  <2>1. SaveRun(r) /\ TypeOK
    BY <1>1, <1>3 DEF IInv
  <2> QED BY <2>1, RowSaved
<1>8. TypeOK'
  BY <1>1, <1>7 DEF IInv, TypeOK
<1>9. OnTheRecordOnce'
  BY <1>1, <1>2, <1>4, <1>5, <1>7 DEF OnTheRecordOnce
<1>10. Course' /\ Telling'
  <2>1. UNCHANGED <<path, wire, auditVars>>
    BY <1>1 DEF auditVars
  <2> QED BY <1>1, <1>2, <1>8, <1>9, <2>1, OverStep
<1>11. WellSaved
  BY <1>1, <1>2, <1>4, <1>5, <1>6, <1>7 DEF WellSaved, Saves
<1> QED BY <1>8, <1>10, <1>11 DEF IInv

\* A stream cut short: the row of the holder and the text so far.
LEMMA AbortStep ==
  ASSUME IInv, Abort
  PROVE  IInv' /\ WellSaved
<1>1. /\ pc \in Underway /\ path = "stream" /\ pc' = "over" /\ SaveRun(AbortedRow)
      /\ path' = path /\ result' = result /\ parts' = parts /\ holder' = holder
      /\ wire' = wire /\ counted' = counted /\ todo' = todo /\ applying' = applying
  BY DEF Abort, auditVars, Underway
<1>2. /\ counted = 0 /\ saved = 0 /\ lost = FALSE /\ todo = {}
      /\ Told(result) /\ TextTold(parts) /\ HolderAgrees
      /\ wire \in Seq(Frame \cup [header : Labels])
      /\ pc # "started" => result.request
  BY <1>1, UnderwayFacts, Zenon
<1>3. PICK r \in Result :
        /\ r = AbortedRow
        /\ r.text = parts /\ r.error = "aborted" /\ r.id = holder.id
        /\ r.provider = holder.provider /\ r.request = holder.request
        /\ r.finish = "" /\ r.native = "" /\ r.byok = "null"
        /\ r.completion = None /\ r.reasoning = None /\ r.basis = None
        /\ r.cost = None /\ r.upstream = None
  <2>1. parts \in {"none", "visible"} /\ holder.id \in Labels /\ holder.provider \in Labels
        /\ holder.request \in BOOLEAN
    BY DEF IInv, TypeOK
  <2>2. AbortedRow \in Result
    <3>1. "aborted" \in Errors
      BY DEF Errors
    <3> QED BY <2>1, <3>1, NewResultType DEF AbortedRow, Result
  <2> QED BY <2>2 DEF AbortedRow, NewResult
<1>4. PICK row \in StoredRow : row = Row(r)
  BY RowWritten
<1>5. /\ row.text = r.text /\ row.error = r.error /\ row.id = r.id
      /\ row.provider = r.provider /\ row.finish = r.finish /\ row.native = r.native
      /\ row.request = r.request /\ row.completion = r.completion
      /\ row.reasoning = r.reasoning /\ row.basis = r.basis /\ row.cost = r.cost
      /\ row.upstream = r.upstream /\ row.byok = r.byok
      /\ ceiling_cost(r) = Filed(row) /\ row.cost \in Amount
  BY <1>4, RowWritten
<1>6. ceiling_cost(r) = 0
  BY <1>3 DEF ceiling_cost, cost_usd, as_money, None
<1>7. IdTold(row.id) /\ ProviderTold(row.provider) /\ TextTold(row.text)
  <2>1. row.id = result.id /\ row.provider = result.provider /\ row.text = parts
    BY <1>2, <1>3, <1>5, Zenon DEF HolderAgrees
  <2> QED BY <1>2, <2>1, Zenon DEF Told
<1>8. FaithfulRow(row)'
  <2>1. IdTold(row.id)' /\ ProviderTold(row.provider)' /\ TextTold(row.text)'
    <3>1. /\ IdsAt' = IdsAt /\ ProviderAt' = ProviderAt /\ (TextSeen' <=> TextSeen)
      BY <1>1 DEF IdsAt, ProviderAt, ErrorsAt, TextSeen, ChoicesAt, ChunksAt, IdAt
    <3>2. \A i : IdAt(i)' = IdAt(i)
      BY <1>1 DEF IdAt
    <3> QED BY <1>1, <1>7, <3>1, <3>2, Zenon DEF IdTold, ProviderTold, TextTold
  <2>2. wire' \in Seq(Frame \cup [header : Labels])
    BY <1>1, <1>2
  <2>3. SaysId(row.id)' /\ SaysHost(row.provider)'
    BY <2>1, <2>2, ToldIsSaid, Zenon
  <2> QED BY <1>3, <1>5, <2>1, <2>3, FaithfulSays, Zenon
<1>9. TrueLabel(row)'
  <2>1. row.error \notin {"none", "exhausted", "reasoned", "empty"}
    BY <1>3, <1>5
  <2> QED BY <2>1, Zenon DEF TrueLabel
<1>10. /\ table' \in Seq(StoredRow) /\ saved' \in Nat /\ lost' \in BOOLEAN
       /\ \/ /\ saved' = saved + 1 /\ lost' = lost
            /\ NewRow' = Row(r) /\ table' = Append(table, Row(r))
          \/ saved' = saved /\ lost' = TRUE /\ table' = table
  <2>1. SaveRun(r) /\ TypeOK
    BY <1>1, <1>3 DEF IInv
  <2> QED BY <2>1, RowSaved
<1>11. TypeOK'
  BY <1>1, <1>10 DEF IInv, TypeOK
<1>12. wire' # <<>> => row.request
  <2>1. wire # <<>> => pc # "started"
    BY Zenon DEF IInv, Course
  <2> QED BY <1>1, <1>2, <1>3, <1>5, <2>1 DEF HolderAgrees
<1>13. OnTheRecordOnce'
  BY <1>1, <1>2, <1>4, <1>10, <1>12 DEF OnTheRecordOnce
<1>14. Course' /\ Telling'
  <2>1. UNCHANGED <<path, wire, auditVars>>
    BY <1>1 DEF auditVars
  <2> QED BY <1>1, <1>2, <1>11, <1>13, <2>1, OverStep
<1>15. WellSaved
  <2>1. counted' = Filed(row)
    BY <1>1, <1>2, <1>5, <1>6, Zenon
  <2>2. saved' > saved \/ table' # table => NewRow' = row /\ table' = Append(table, row)
    BY <1>2, <1>4, <1>10
  <2> QED BY <1>5, <1>8, <1>9, <2>1, <2>2, Zenon DEF WellSaved, Saves
<1> QED BY <1>11, <1>14, <1>15 DEF IInv

LEMMA CrashStep ==
  ASSUME IInv, Crash
  PROVE  IInv' /\ WellSaved
<1>1. /\ pc \notin {"idle", "over", "down"} /\ pc' = "over" /\ lost' = TRUE
      /\ path' = path /\ result' = result /\ parts' = parts /\ holder' = holder
      /\ wire' = wire /\ counted' = counted /\ table' = table /\ saved' = saved
      /\ todo' = todo /\ applying' = applying
  BY DEF Crash, auditVars
<1>2. path \in {"stream", "batch"} /\ todo = {}
  BY <1>1 DEF IInv, Course, TypeOK
<1>3. TypeOK'
  BY <1>1 DEF IInv, TypeOK
<1>4. OnTheRecordOnce'
  <2>1. NewRow' = NewRow
    BY <1>1 DEF NewRow
  <2>2. OnTheRecordOnce
    BY DEF IInv, Course
  <2> QED BY <1>1, <2>1, <2>2 DEF OnTheRecordOnce
<1>5. Course' /\ Telling'
  <2>1. UNCHANGED <<path, wire, auditVars>>
    BY <1>1 DEF auditVars
  <2> QED BY <1>1, <1>2, <1>3, <1>4, <2>1, OverStep
<1>6. WellSaved
  BY <1>1 DEF WellSaved, Saves, IInv, TypeOK
<1> QED BY <1>3, <1>5, <1>6 DEF IInv

\* A step at rest: the server is down, and so is what the call kept.
LEMMA RestStep ==
  ASSUME IInv, pc' = "down", Resting', TypeOK'
  PROVE  IInv' /\ ~Saves
<1>1. OnTheRecordOnce'
  BY DEF OnTheRecordOnce, Resting
<1>2. Course'
  BY <1>1, Zenon DEF Course, Underway
<1>3. Telling'
  <2>1. wire' = <<>>
    BY DEF Resting
  <2>2. \A i \in 2 .. Len(wire') : wire'[i] \in Frame
    BY <2>1
  <2> QED BY <2>2, Zenon DEF Telling, Underway
<1>4. ~Saves
  BY DEF IInv, TypeOK, Saves, Resting
<1> QED BY <1>2, <1>3, <1>4 DEF IInv

LEMMA DownStep ==
  ASSUME IInv, Down
  PROVE  IInv' /\ WellSaved
<1>1. /\ pc' = "down" /\ path' = "none"
      /\ result' = NewResult /\ parts' = "none" /\ holder' = NoHolder
      /\ wire' = <<>> /\ counted' = 0 /\ saved' = 0 /\ lost' = FALSE
      /\ table' = table /\ todo' = todo /\ applying' = applying
  BY DEF Down, auditVars
<1>2. Resting'
  BY <1>1, Zenon DEF Resting
<1>3. NoHolder \in [id : Labels, provider : Labels, request : BOOLEAN]
  BY WireAssumption DEF NoHolder
<1>4. TypeOK'
  <2>1. wire' \in Seq(Frame \cup [header : Labels])
    BY <1>1
  <2>2. result' \in Result /\ holder' \in [id : Labels, provider : Labels, request : BOOLEAN]
    BY <1>1, <1>3, NewResultType
  <2> QED BY <1>1, <2>1, <2>2 DEF IInv, TypeOK
<1>5. IInv' /\ ~Saves
  BY <1>1, <1>2, <1>4, RestStep
<1> QED BY <1>1, <1>5, Zenon DEF WellSaved

LEMMA Unchanged ==
  ASSUME IInv, UNCHANGED <<pc, path, result, parts, holder, wire, counted, table, saved, lost,
                           todo, applying>>
  PROVE  Telling'
<1>1. Telling
  BY DEF IInv
<1>2. \A i \in 2 .. Len(wire') : wire'[i] \in Frame
  BY <1>1 DEF Telling
<1>3. CASE pc \in Underway
  <2>1. PICK r : r = result
    OBVIOUS
  <2>2. PICK q : q = parts
    OBVIOUS
  <2>3. PICK p : p = path
    OBVIOUS
  <2>4. Told(r) /\ ErrorsAt = {} /\ (p = "stream" => TextTold(q))
        /\ (p = "batch" => r.text = "none" /\ ~TextSeen)
    BY <1>1, <1>3, <2>1, <2>2, <2>3, Zenon DEF Telling
  <2>5. Told(r)' /\ ErrorsAt' = {} /\ (p = "stream" => TextTold(q)')
        /\ (p = "batch" => r.text = "none" /\ ~TextSeen')
    BY <2>4, NothingRead
  <2>6. pc' \in {"reading", "delta"} => wire' # <<>>
    BY <1>1 DEF Telling
  <2> QED BY <1>2, <1>3, <2>1, <2>2, <2>3, <2>5, <2>6, TellingNext
<1>4. CASE pc \notin Underway
  <2>1. ASSUME pc = "gathered" PROVE FaithfulRow(Row(result))' /\ TrueLabel(Row(result))'
    <3>1. FaithfulRow(Row(result)) /\ TrueLabel(Row(result))
      BY <1>1, <2>1, Zenon DEF Telling
    <3>2. PICK row : row = Row(result)
      OBVIOUS
    <3>3. FaithfulRow(row)' /\ TrueLabel(row)'
      BY <3>1, <3>2, RowStays
    <3>4. Row(result)' = row
      BY <3>2 DEF Row, cost_usd
    <3> QED BY <3>3, <3>4, Zenon DEF FaithfulRow, TrueLabel
  <2> QED BY <1>1, <1>2, <1>4, <2>1, Zenon DEF Telling, Underway
<1> QED BY <1>3, <1>4

-----------------------------------------------------------------------------
(***************************************************************************)
(* The audit.                                                              *)
(***************************************************************************)
AuditKeeps(old, new) ==
  /\ Repaired(old).cost # None => Repaired(new).cost # None
  /\ old.byok # "null" => new.byok = old.byok
  /\ old.upstream # None =>
       /\ new.upstream = old.upstream
       /\ upstream_bucket(Repaired(old)) \in {"byok", "not_byok"} =>
            upstream_bucket(Repaired(new)) = upstream_bucket(Repaired(old))
  /\ \A c \in {"text", "error", "id", "finish", "completion", "estimate"} : new[c] = old[c]

\* A charge a database of this code can hold: one its readers take, or one
\* the work list tells from it.
Charges == Nat \cup {None, Text, Negative}

LEMMA AuditApplied ==
  ASSUME NEW old \in StoredRow, NEW d \in Document, NEW new,
         new = apply_reconciliation(old, Fetched(d))
  PROVE  new \in StoredRow /\ AuditKeeps(old, new) /\ (old.cost \in Charges => new.cost \in Charges)
<1>1. /\ old.cost \in Int /\ old.upstream \in Int /\ old.byok \in Flags
      /\ old.provider \in Labels /\ old.quant \in Labels /\ old.native \in Labels
      /\ old.estimate \in Int
  BY DEF StoredRow
<1>2. /\ d.cost \in Int /\ d.upstream \in Int /\ d.byok \in Flags \cup {"one"}
      /\ d.provider \in Labels /\ d.quant \in Labels /\ d.native \in Labels
  BY DEF Document
<1>3. PICK c \in Amount : c = as_money(d.cost)
  BY <1>2, Taken
<1>4. PICK u \in Amount : u = as_money(d.upstream)
  BY <1>2, Taken
<1>5. PICK b \in Flags : b = as_wire_flag(d.byok)
  BY <1>2, Taken
<1>6. PICK host \in Labels : host = Corrected(d.provider, old.provider)
  BY <1>1, <1>2, Zenon DEF Corrected
<1>7. PICK quant \in Labels : quant = Corrected(d.quant, old.quant)
  BY <1>1, <1>2, Zenon DEF Corrected
<1>8. PICK native \in Labels : native = Corrected(d.native, old.native)
  BY <1>1, <1>2, Zenon DEF Corrected
<1>9. PICK charge \in Int : charge = IF c # None THEN c
                                     ELSE IF old.cost \in {None, Text, Negative} THEN None
                                     ELSE old.cost
  BY <1>1 DEF Amount, None
<1>10. PICK inference \in Int : inference = IF old.upstream # None THEN old.upstream ELSE u
  BY <1>1 DEF Amount, None
<1>11. PICK flag \in Flags : flag = IF old.byok # "null" THEN old.byok ELSE b
  BY <1>1
<1>12. new = [old EXCEPT !.cost = charge, !.provider = host, !.quant = quant,
                         !.native = native, !.upstream = inference, !.byok = flag]
  BY <1>3, <1>4, <1>5, <1>6, <1>7, <1>8, <1>9, <1>10, <1>11
     DEF apply_reconciliation, Fetched
<1>13. new \in StoredRow
  BY <1>12 DEF StoredRow
<1>14. /\ new.cost = charge /\ new.upstream = inference /\ new.byok = flag
       /\ new.text = old.text /\ new.error = old.error /\ new.id = old.id
       /\ new.finish = old.finish /\ new.completion = old.completion
       /\ new.estimate = old.estimate
  BY <1>12 DEF StoredRow
<1>15. \A c2 \in {"text", "error", "id", "finish", "completion", "estimate"} :
         new[c2] = old[c2]
  BY <1>14
<1>16. /\ Repaired(old).cost = as_money(old.cost) /\ Repaired(old).byok = old.byok
       /\ Repaired(old).upstream = old.upstream /\ Repaired(old).estimate = old.estimate
       /\ Repaired(new).cost = as_money(charge) /\ Repaired(new).byok = flag
       /\ Repaired(new).upstream = inference /\ Repaired(new).estimate = old.estimate
  <2>1. as_flag(old.byok) = old.byok /\ as_flag(flag) = flag
    BY <1>1, Taken
  <2> QED BY <1>13, <1>14, <2>1 DEF Repaired, StoredRow
<1>17. as_money(old.cost) # None => as_money(charge) # None
  <2>1. SUFFICES ASSUME as_money(old.cost) # None PROVE as_money(charge) # None
    OBVIOUS
  <2>2. old.cost \in Nat
    BY <2>1 DEF as_money
  <2>3. charge \in Nat
    BY <1>9, <2>2 DEF Amount, None, Text, Negative
  <2> QED BY <2>3 DEF as_money, None
<1>18. ASSUME old.upstream # None
       PROVE  /\ new.upstream = old.upstream
              /\ upstream_bucket(Repaired(old)) \in {"byok", "not_byok"} =>
                   upstream_bucket(Repaired(new)) = upstream_bucket(Repaired(old))
  <2>1. inference = old.upstream
    BY <1>10, <1>18
  <2>2. CASE old.byok = "null"
    BY <1>16, <1>18, <2>2, <1>14, <2>1 DEF upstream_bucket
  <2>3. CASE old.byok = "yes"
    <3>1. flag = "yes"
      BY <1>11, <2>3
    <3> QED BY <1>16, <1>18, <2>3, <1>14, <2>1, <3>1 DEF upstream_bucket
  <2>4. CASE old.byok = "no"
    <3>1. flag = "no"
      BY <1>11, <2>4
    <3>2. price_bucket(Repaired(old)) # "unpriced" => price_bucket(Repaired(new)) # "unpriced"
      BY <1>16, <1>17 DEF price_bucket
    <3> QED BY <1>16, <1>18, <2>4, <1>14, <2>1, <3>1, <3>2 DEF upstream_bucket
  <2> QED BY <1>1, <2>2, <2>3, <2>4 DEF Flags
<1>19. old.byok # "null" => new.byok = old.byok
  BY <1>11, <1>14
<1>20. old.cost \in Charges => new.cost \in Charges
  BY <1>9, <1>14 DEF Charges, Amount
<1> QED BY <1>13, <1>15, <1>16, <1>17, <1>18, <1>19, <1>20 DEF AuditKeeps

\* A step of the audit, and of a process that is not there to take one.
AuditWrite ==
  \E i \in Nat, d \in Document :
    table' = [table EXCEPT ![i] = apply_reconciliation(@, Fetched(d))]

LEMMA AuditStep ==
  ASSUME IInv, Reconcile \/ LookUp \/ Interrupt
  PROVE  IInv' /\ ~Saves /\ (table' = table \/ AuditWrite)
<1>1. /\ UNCHANGED <<callVars, counted, saved, lost>> /\ pc = "down"
      /\ todo' \subseteq Nat /\ applying' \in BOOLEAN
      /\ table' = table \/ AuditWrite
  <2>1. /\ todo \subseteq Nat /\ applying \in BOOLEAN /\ table \in Seq(StoredRow)
        /\ todo # {} => pc = "down"
    BY DEF IInv, TypeOK, Course
  <2>2. CASE Reconcile
    <3>1. todo' \subseteq DOMAIN table
      BY <2>2, Zenon DEF Reconcile, results_awaiting_reconciliation
    <3>2. DOMAIN table \subseteq Nat
      BY <2>1
    <3> QED BY <2>2, <3>1, <3>2 DEF Reconcile, storeVars
  <2>3. CASE LookUp
    <3>1. PICK i \in todo, d \in Document :
            /\ todo' = todo \ {i}
            /\ table' = IF applying /\ has_writes(Fetched(d))
                        THEN [table EXCEPT ![i] = apply_reconciliation(@, Fetched(d))]
                        ELSE table
            /\ UNCHANGED <<callVars, counted, saved, lost, applying>>
      BY <2>3, WireAssumption, Zenon DEF LookUp
    <3>2. i \in Nat /\ pc = "down"
      BY <2>1, <3>1
    <3>3. table' = table \/ AuditWrite
      BY <3>1, <3>2, Zenon DEF AuditWrite
    <3> QED BY <2>1, <3>1, <3>2, <3>3
  <2>4. CASE Interrupt
    BY <2>1, <2>4 DEF Interrupt, storeVars
  <2> QED BY <2>2, <2>3, <2>4
<1>2. table' \in Seq(StoredRow)
  <2>1. table \in Seq(StoredRow)
    BY DEF IInv, TypeOK
  <2>2. CASE AuditWrite
    <3>1. PICK i \in Nat, d \in Document :
            table' = [table EXCEPT ![i] = apply_reconciliation(@, Fetched(d))]
      BY <2>2 DEF AuditWrite
    <3>2. PICK new : new = apply_reconciliation(table[i], Fetched(d))
      OBVIOUS
    <3>3. i \in DOMAIN table => new \in StoredRow
      BY <2>1, <3>2, AuditApplied
    <3>4. table' = [table EXCEPT ![i] = new]
      BY <3>1, <3>2, Zenon
    <3>5. table \in [1 .. Len(table) -> StoredRow] /\ Len(table) \in Nat
      BY <2>1
    <3>6. table' \in [1 .. Len(table) -> StoredRow]
      BY <3>3, <3>4, <3>5
    <3> QED BY <3>5, <3>6
  <2> QED BY <1>1, <2>1, <2>2
<1>3. TypeOK'
  BY <1>1, <1>2 DEF IInv, TypeOK, callVars
<1>4. Resting'
  BY <1>1 DEF IInv, Course, Resting, callVars
<1>5. pc' = "down"
  BY <1>1 DEF callVars
<1>6. IInv' /\ ~Saves
  BY <1>3, <1>4, <1>5, RestStep
<1> QED BY <1>1, <1>6

-----------------------------------------------------------------------------
(***************************************************************************)
(* The theorems.                                                           *)
(***************************************************************************)
\* Every step keeps the invariant and saves nothing untrue; only the audit
\* changes a row.
LEMMA EveryStep ==
  ASSUME IInv, [Next]_vars
  PROVE  IInv' /\ (WellSaved \/ (~Saves /\ AuditWrite))
<1>1. CASE CallStep
  <2>1. CASE Start \/ Post \/ StartedTaken
    BY <2>1, StartStep
  <2>2. CASE WireFails
    BY <2>2, WireFailsStep
  <2>3. CASE Respond
    BY <2>3, RespondStep
  <2>4. CASE Read
    BY <2>4, ReadStep
  <2>5. CASE EndOfLines
    BY <2>5, EndOfLinesStep
  <2>6. CASE DeltaTaken \/ DoneTaken
    BY <2>6, TakenStep
  <2>7. CASE Body
    BY <2>7, BodyStep
  <2>8. CASE Gathered
    BY <2>8, GatheredStep
  <2>9. CASE Abort
    BY <2>9, AbortStep
  <2>10. CASE Crash
    BY <2>10, CrashStep
  <2>11. CASE Down
    BY <2>11, DownStep
  <2> QED
    BY <1>1, <2>1, <2>2, <2>3, <2>4, <2>5, <2>6, <2>7, <2>8, <2>9, <2>10, <2>11
       DEF CallStep
<1>2. CASE Reconcile \/ LookUp \/ Interrupt
  <2>1. IInv' /\ ~Saves /\ (table' = table \/ AuditWrite)
    BY <1>2, AuditStep
  <2> QED BY <2>1 DEF WellSaved
<1>3. CASE UNCHANGED vars
  <2>1. /\ UNCHANGED <<pc, path, result, parts, holder, wire, counted, table, saved, lost,
                       todo, applying>>
    BY <1>3 DEF vars, callVars, storeVars, auditVars
  <2>2. TypeOK'
    BY <2>1 DEF IInv, TypeOK
  <2>3. Course'
    <3>1. HolderAgrees' <=> HolderAgrees
      BY <2>1 DEF HolderAgrees
    <3>2. Resting' <=> Resting
      BY <2>1 DEF Resting
    <3>3. OnTheRecordOnce' <=> OnTheRecordOnce
      BY <2>1 DEF OnTheRecordOnce, NewRow
    <3>4. ceiling_cost(result)' = ceiling_cost(result)
      BY <2>1 DEF ceiling_cost, cost_usd
    <3> QED BY <2>1, <3>1, <3>2, <3>3, <3>4 DEF IInv, Course
  <2>4. Telling'
    BY <2>1, Unchanged
  <2>5. ~Saves /\ table' = table
    BY <2>1 DEF Saves, IInv, TypeOK
  <2> QED BY <2>2, <2>3, <2>4, <2>5 DEF IInv, WellSaved
<1> QED BY <1>1, <1>2, <1>3 DEF Next

\* The invariant holds of every behaviour: the types, where a call stands, and
\* what it has been told of its wire.
THEOREM WholeInvariant == Spec => []IInv
<1>1. IInv /\ [Next]_vars => IInv'
  BY EveryStep
<1> QED BY InitInv, <1>1, PTL DEF Spec

\* A call that took its slot leaves exactly one row, whoever ends it and
\* wherever it stands, unless the process died or the write failed.
THEOREM CallsAreRecordedOnce == Spec => []OnTheRecordOnce
<1>1. IInv => OnTheRecordOnce
  BY DEF IInv, Course
<1> QED BY WholeInvariant, <1>1, PTL

\* Every row says what its wire said, whatever the wire sent and however the
\* call ended.
THEOREM RowsTellTheWire == Spec => RecordIsTheWire
<1>1. IInv /\ [Next]_vars => [Saves => FaithfulRow(NewRow)']_vars
  <2>1. SUFFICES ASSUME IInv, [Next]_vars, Saves PROVE FaithfulRow(NewRow)'
    OBVIOUS
  <2>2. PICK row : NewRow' = row /\ FaithfulRow(row)'
    BY <2>1, EveryStep DEF WellSaved
  <2> QED BY <2>2, Zenon DEF FaithfulRow
<1> QED BY WholeInvariant, <1>1, PTL DEF Spec, RecordIsTheWire

\* The error a row ends with is true of its wire.
THEOREM LabelsHold == Spec => LabelsAreTrue
<1>1. IInv /\ [Next]_vars => [Saves => TrueLabel(NewRow)']_vars
  <2>1. SUFFICES ASSUME IInv, [Next]_vars, Saves PROVE TrueLabel(NewRow)'
    OBVIOUS
  <2>2. PICK row : NewRow' = row /\ TrueLabel(row)'
    BY <2>1, EveryStep DEF WellSaved
  <2> QED BY <2>2, Zenon DEF TrueLabel
<1> QED BY WholeInvariant, <1>1, PTL DEF Spec, LabelsAreTrue

\* What a call adds to recorded spend is the price the report files its row
\* under.
THEOREM LedgerIsTheReport == Spec => LedgerAgreesWithReport
<1> DEFINE Agreed == Saves => counted' = LET row == Repaired(NewRow)' IN
                         IF price_bucket(row) = "billed" THEN row.cost
                         ELSE IF price_bucket(row) = "estimated" THEN row.estimate
                         ELSE 0
<1>1. IInv /\ [Next]_vars => [Agreed]_vars
  <2>1. SUFFICES ASSUME IInv, [Next]_vars, Saves PROVE Agreed
    BY DEF Agreed
  <2>2. PICK row : NewRow' = row /\ counted' = Filed(row)
    BY <2>1, EveryStep DEF WellSaved
  <2>3. Repaired(NewRow)' = Repaired(row)
    BY <2>2 DEF Repaired
  <2> QED BY <2>2, <2>3 DEF Agreed, Filed
<1> QED BY WholeInvariant, <1>1, PTL DEF Spec, LedgerAgreesWithReport, Agreed

\* The audit never takes from a row what a reader had, nor changes its bucket.
THEOREM AuditTakesNothing == Spec => AuditOnlyAdds
<1> DEFINE Kept == \A i \in DOMAIN table : AuditKeeps(table[i], table'[i])
<1>1. IInv /\ [Next]_vars => [Kept]_vars
  <2>1. SUFFICES ASSUME IInv, [Next]_vars PROVE Kept
    OBVIOUS
  <2>2. table \in Seq(StoredRow)
    BY <2>1 DEF IInv, TypeOK
  <2>3. \A row \in StoredRow : AuditKeeps(row, row)
    BY DEF AuditKeeps
  <2>4. CASE table' = table
    BY <2>2, <2>3, <2>4
  <2>5. CASE \E row \in StoredRow : table' = Append(table, row)
    <3>1. PICK row \in StoredRow : table' = Append(table, row)
      BY <2>5
    <3>2. \A i \in DOMAIN table : table'[i] = table[i]
      BY <2>2, <3>1
    <3> QED BY <2>2, <2>3, <3>2
  <2>6. CASE AuditWrite
    <3>1. PICK i \in Nat, d \in Document :
            table' = [table EXCEPT ![i] = apply_reconciliation(@, Fetched(d))]
      BY <2>6 DEF AuditWrite
    <3>2. PICK new : new = apply_reconciliation(table[i], Fetched(d))
      OBVIOUS
    <3>3. i \in DOMAIN table => AuditKeeps(table[i], new)
      BY <2>2, <3>2, AuditApplied
    <3>4. \A j \in DOMAIN table : table'[j] = IF j = i THEN new ELSE table[j]
      BY <2>2, <3>1, <3>2
    <3> QED BY <2>2, <2>3, <3>3, <3>4
  <2> QED BY <2>1, <2>4, <2>5, <2>6, EveryStep DEF WellSaved
<1>2. [Kept]_vars => [\A i \in DOMAIN table :
       LET old == table[i] new == table'[i] IN
       /\ Repaired(old).cost # None => Repaired(new).cost # None
       /\ old.byok # "null" => new.byok = old.byok
       /\ old.upstream # None =>
            /\ new.upstream = old.upstream
            /\ upstream_bucket(Repaired(old)) \in {"byok", "not_byok"} =>
                 upstream_bucket(Repaired(new)) = upstream_bucket(Repaired(old))
       /\ \A c \in {"text", "error", "id", "finish", "completion", "estimate"} :
            new[c] = old[c]]_vars
  BY DEF Kept, AuditKeeps
<1> HIDE DEF Kept
<1> QED BY WholeInvariant, <1>1, <1>2, PTL DEF Spec, AuditOnlyAdds

\* What the work list no longer offers, a reader can use, in a database whose
\* older rows have no charge but a number, none, no number at all or one below
\* zero: an infinite one is what UntrustedIsOffered shows.
THEOREM OffTheListIsUsable ==
  ASSUME \A row \in LegacyRows : row.cost \in Charges
  PROVE  Spec => []OffTheListIsWhole
<1> DEFINE Charged == \A i \in DOMAIN table : table[i].cost \in Charges
<1>1. Init => Charged
  <2>1. SUFFICES ASSUME Init PROVE Charged
    OBVIOUS
  <2>2. CASE table = <<>>
    BY <2>2
  <2>3. CASE \E row \in LegacyRows : table = <<row>>
    <3>1. PICK row \in LegacyRows : table = <<row>>
      BY <2>3
    <3>2. \A i \in DOMAIN table : table[i] = row
      BY <3>1
    <3> QED BY <3>1, <3>2
  <2> QED BY <2>1, <2>2, <2>3, Zenon DEF Init
<1>2. IInv /\ Charged /\ [Next]_vars => Charged'
  <2>1. SUFFICES ASSUME IInv, Charged, [Next]_vars PROVE Charged'
    OBVIOUS
  <2>2. table \in Seq(StoredRow)
    BY <2>1 DEF IInv, TypeOK
  <2>4. CASE table' = table
    BY <2>1, <2>4
  <2>5. CASE \E row \in StoredRow : table' = Append(table, row) /\ row.cost \in Amount
    <3>1. PICK row \in StoredRow : table' = Append(table, row) /\ row.cost \in Amount
      BY <2>5
    <3>2. row.cost \in Charges
      BY <3>1 DEF Amount, Charges
    <3>3. \A i \in DOMAIN table' : (i \in DOMAIN table /\ table'[i] = table[i]) \/ table'[i] = row
      BY <2>2, <3>1
    <3> QED BY <2>1, <3>2, <3>3
  <2>6. CASE AuditWrite
    <3>1. PICK i \in Nat, d \in Document :
            table' = [table EXCEPT ![i] = apply_reconciliation(@, Fetched(d))]
      BY <2>6 DEF AuditWrite
    <3>2. PICK new : new = apply_reconciliation(table[i], Fetched(d))
      OBVIOUS
    <3>3. i \in DOMAIN table => new.cost \in Charges
      BY <2>1, <2>2, <3>2, AuditApplied
    <3>4. /\ DOMAIN table' = DOMAIN table
          /\ \A j \in DOMAIN table : table'[j] = IF j = i THEN new ELSE table[j]
      BY <2>2, <3>1, <3>2
    <3> QED BY <2>1, <3>3, <3>4
  <2> HIDE DEF Charged
  <2> QED BY <2>1, <2>4, <2>5, <2>6, EveryStep DEF WellSaved
<1>3. IInv /\ Charged => OffTheListIsWhole
  <2>1. SUFFICES ASSUME IInv, Charged, NEW i \in DOMAIN table, Repaired(table[i]).id # "",
                        i \notin results_awaiting_reconciliation
                 PROVE  LET row == Repaired(table[i]) IN
                        row.cost # None /\ row.provider # "" /\ row.byok # "null"
                          /\ row.native # ""
    BY DEF OffTheListIsWhole
  <2>t. table \in Seq(StoredRow) /\ i \in DOMAIN table
    BY <2>1, Zenon DEF IInv, TypeOK
  <2>e. table[i] \in StoredRow
    BY ONLY <2>t
  <2>2. PICK old \in StoredRow : old = table[i]
    BY <2>e
  <2>3. PICK row : row = Repaired(old)
    OBVIOUS
  <2>4. /\ row.id = old.id /\ row.provider = old.provider /\ row.native = old.native
        /\ row.cost = as_money(old.cost) /\ row.byok = old.byok
    <3>1. as_flag(old.byok) = old.byok
      BY Taken DEF StoredRow
    <3> QED BY <2>3, <3>1 DEF Repaired, StoredRow
  <2>5. ~awaiting(old) /\ old.id # "" /\ old.cost \in Charges
    BY <2>1, <2>2, <2>3, <2>4, Zenon DEF results_awaiting_reconciliation
  <2>6. old.cost \notin {None, Text, Negative} /\ old.provider # "" /\ old.byok # "null"
        /\ old.native # ""
    BY <2>5, Zenon DEF awaiting
  <2>7. as_money(old.cost) # None
    BY <2>5, <2>6 DEF Charges, as_money, None
  <2> QED BY <2>2, <2>3, <2>4, <2>6, <2>7, Zenon
<1> HIDE DEF Charged
<1>4. IInv /\ [Next]_vars => IInv'
  BY EveryStep
<1> QED BY WholeInvariant, <1>1, <1>2, <1>3, PTL DEF Spec

=============================================================================
