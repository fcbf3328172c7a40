--------------------------- MODULE RequestProofs ----------------------------
(***************************************************************************)
(* What upstream gets of a request is a native Codex's: whatever the gate  *)
(* lets through, an app's request is completed into one the native check   *)
(* takes, for every set of requests, catalog and cache setting; its        *)
(* conversation is one Codex thread, for every set of apps and room for    *)
(* them; a key-login Codex's tools are those of a Codex signed in with     *)
(* ChatGPT and its answers are shown one way only, for every client,       *)
(* catalog, number of conversations and length of the call log.            *)
(***************************************************************************)
EXTENDS RequestShape, Conversations, KeyLogin, FiniteSetTheorems, SequenceTheorems,
        NaturalsInduction, WellFoundedInduction, TLAPS

-----------------------------------------------------------------------------
(* The entries of a value                                                   *)

Listing(s) ==
  Len(s) \in Nat /\ DOMAIN s = 1..Len(s) /\ s = [i \in DOMAIN s |-> s[i]]

Valued(v) == v = [kind |-> v.kind, list |-> v.list] /\ Listing(v.list)

(* Distinct places of a finite set of numbers have distinct ranks.          *)
LEMMA RanksDiffer ==
  ASSUME NEW kept \in SUBSET Nat, IsFiniteSet(kept), NEW i \in kept, NEW j \in kept, i < j
  PROVE  Cardinality({k \in kept : k <= i}) < Cardinality({k \in kept : k <= j})
<1> DEFINE low == {k \in kept : k <= i}
           high == {k \in kept : k <= j}
<1>1. IsFiniteSet(high) /\ IsFiniteSet(low)
  BY FS_Subset
<1>2. low \in SUBSET high /\ j \in high /\ j \notin low
  <2>1. i \in Nat /\ j \in Nat /\ \A k \in kept : k \in Nat
    OBVIOUS
  <2>2. j <= j /\ ~ j <= i /\ \A k \in kept : k <= i => k <= j
    BY <2>1
  <2>3. QED BY <2>2
<1> HIDE DEF low, high
<1>3. Cardinality(low) \in Nat /\ Cardinality(high) \in Nat
  BY <1>1, FS_CardinalityType
<1>4. /\ Cardinality(low) <= Cardinality(high)
      /\ Cardinality(high) = Cardinality(low) => high = low
  <2>1. IsFiniteSet(high)
    BY <1>1
  <2>2. low \in SUBSET high
    BY <1>2
  <2>3. Cardinality(high) = Cardinality(low) => high = low
    BY <2>1, <2>2, FS_Subset
  <2>4. Cardinality(low) <= Cardinality(high)
    BY <2>1, <2>2, FS_Subset
  <2>5. QED BY <2>3, <2>4
<1>5. Cardinality(low) # Cardinality(high)
  BY <1>2, <1>4
<1>6. QED BY <1>3, <1>4, <1>5 DEF low, high

(* What Only keeps comes from the list and from the set.                    *)
LEMMA OnlyEntries ==
  ASSUME NEW s, Listing(s), NEW S
  PROVE  /\ Listing(Only(s, S))
         /\ \A n \in DOMAIN Only(s, S) :
              Only(s, S)[n] \in S /\ \E i \in DOMAIN s : Only(s, S)[n] = s[i]
<1> DEFINE kept == {i \in DOMAIN s : s[i] \in S}
           Rank(i) == Cardinality({j \in kept : j <= i})
           ranks == [i \in kept |-> Rank(i)]
           c == Cardinality(kept)
<1>1. kept \in SUBSET Nat /\ IsFiniteSet(kept) /\ c \in Nat
  <2>1. Len(s) \in Nat /\ DOMAIN s = 1..Len(s)
    BY DEF Listing
  <2>2. kept \in SUBSET (1..Len(s)) /\ 1..Len(s) \in SUBSET Nat
    BY <2>1
  <2>3. IsFiniteSet(1..Len(s))
    BY <2>1, FS_Interval
  <2> HIDE DEF kept
  <2>4. QED BY <2>2, <2>3, FS_Subset, FS_CardinalityType
<1>2. \A i \in kept : Rank(i) \in 1..c
  <2>1. SUFFICES ASSUME NEW i \in kept
                 PROVE  Rank(i) \in 1..c
    OBVIOUS
  <2> DEFINE low == {j \in kept : j <= i}
  <2>2. low \in SUBSET kept /\ i \in low
    BY <1>1
  <2> HIDE DEF kept, low
  <2>3. IsFiniteSet(low) /\ Cardinality(low) <= c
    BY <1>1, <2>2, FS_Subset
  <2>4. Cardinality(low) \in Nat /\ Cardinality(low) # 0
    BY <2>2, <2>3, FS_CardinalityType, FS_EmptySet
  <2>5. Cardinality(low) \in 1..c
    BY <1>1, <2>3, <2>4
  <2>6. QED BY <2>5 DEF low
<1> HIDE DEF kept
<1>3. \A i, j \in kept : i < j => Rank(i) < Rank(j)
  BY <1>1, RanksDiffer
<1>4. \A i, j \in kept : i # j => Rank(i) # Rank(j)
  <2>1. \A i \in kept : i \in Nat /\ Rank(i) \in Nat
    BY <1>1, <1>2
  <2> HIDE DEF Rank
  <2>2. QED BY <1>3, <2>1
<1>5. ranks \in Injection(kept, 1..c)
  <2> HIDE DEF Rank
  <2>1. QED BY <1>2, <1>4 DEF Injection, IsInjective
<1>6. ranks \in Surjection(kept, 1..c)
  <2>1. IsFiniteSet(1..c) /\ Cardinality(1..c) = c
    BY <1>1, FS_Interval
  <2> HIDE DEF ranks
  <2>2. QED BY <1>5, <2>1, FS_Injection
<1>7. \A n \in 1..c : \E i \in kept : Rank(i) = n
  <2> HIDE DEF Rank
  <2>1. QED BY <1>6 DEF Surjection
<1> DEFINE Place(n) == CHOOSE i \in kept : Rank(i) = n
           w == [n \in 1..c |-> s[Place(n)]]
<1>8. Only(s, S) = w
  BY DEF Only, kept
<1>9. \A n \in 1..c : Place(n) \in kept
  <2> HIDE DEF Rank
  <2>1. QED BY <1>7
<1>10. Listing(w)
  <2>1. w \in Seq({s[Place(n)] : n \in 1..c})
    <3> HIDE DEF Place, c
    <3>1. w \in [1..c -> {s[Place(n)] : n \in 1..c}]
      OBVIOUS
    <3> HIDE DEF w
    <3>2. QED BY <1>1, <3>1, SeqDef
  <2> HIDE DEF w
  <2>2. QED BY <2>1, LenProperties DEF Listing
<1>11. \A n \in DOMAIN w : w[n] \in S /\ \E i \in DOMAIN s : w[n] = s[i]
  <2> HIDE DEF Place, c
  <2>1. QED BY <1>9 DEF kept
<1> HIDE DEF w
<1>12. QED BY <1>8, <1>10, <1>11

(* A value rewritten entry by entry, and one that keeps some of its entries.*)
LEMMA KeptEntries ==
  ASSUME NEW v, Valued(v), NEW names
  PROVE  /\ Valued(Keeping(v, names)) /\ Valued(Without(v, names))
         /\ Keeping(v, names).kind = v.kind /\ Without(v, names).kind = v.kind
         /\ \A n \in DOMAIN Keeping(v, names).list : Keeping(v, names).list[n] \in names
         /\ \A n \in DOMAIN Without(v, names).list :
              /\ Without(v, names).list[n] \notin names
              /\ \E i \in DOMAIN v.list : Without(v, names).list[n] = v.list[i]
<1>1. ASSUME NEW set
      PROVE  /\ Valued(Keeping(v, set)) /\ Keeping(v, set).kind = v.kind
             /\ Keeping(v, set).list = Only(v.list, set)
  <2>1. Keeping(v, set) = [kind |-> v.kind, list |-> Only(v.list, set)]
    BY DEF Keeping, Valued
  <2>2. Listing(Only(v.list, set))
    BY OnlyEntries DEF Valued
  <2> HIDE DEF Keeping
  <2>3. QED BY <2>1, <2>2 DEF Valued
<1>2. ASSUME NEW set, NEW n \in DOMAIN Keeping(v, set).list
      PROVE  /\ Keeping(v, set).list[n] \in set
             /\ \E i \in DOMAIN v.list : Keeping(v, set).list[n] = v.list[i]
  <2>1. Keeping(v, set).list = Only(v.list, set)
    BY <1>1
  <2>2. \A k \in DOMAIN Only(v.list, set) :
          Only(v.list, set)[k] \in set /\ \E i \in DOMAIN v.list : Only(v.list, set)[k] = v.list[i]
    BY OnlyEntries DEF Valued
  <2>3. QED BY <1>2, <2>1, <2>2
<1> DEFINE others == {v.list[i] : i \in DOMAIN v.list} \ names
<1>3. Without(v, names) = Keeping(v, others)
  BY DEF Without
<1>4. \A x \in others : x \notin names
  OBVIOUS
<1> HIDE DEF others
<1>5. QED BY <1>1, <1>2, <1>3, <1>4

(* A list made entry by entry from another.                                 *)
LEMMA Relisted ==
  ASSUME NEW s, Listing(s), NEW w, w = [i \in DOMAIN s |-> w[i]]
  PROVE  Listing(w) /\ DOMAIN w = DOMAIN s
<1> DEFINE n == Len(s)
<1>1. n \in Nat /\ w = [i \in 1..n |-> w[i]] /\ DOMAIN s = 1..n
  BY DEF Listing
<1> HIDE DEF n
<1>2. w \in [1..n -> {w[i] : i \in 1..n}]
  BY <1>1
<1>3. w \in Seq({w[i] : i \in 1..n})
  BY <1>1, <1>2, SeqDef
<1>4. DOMAIN w = 1..n
  BY <1>1
<1>5. QED BY <1>1, <1>3, <1>4, LenProperties DEF Listing

-----------------------------------------------------------------------------
(* What the gate let through                                                *)

Let(item) == item.content.kind \in Kinds /\ ~ RefusesItem(item, FALSE) /\ ~ Wraps(item)

(* What the completion needs of a payload.                                  *)
Fit(p) ==
  /\ \A f \in DOMAIN p : Valued(p[f])
  /\ "input" \in DOMAIN p /\ p["input"].kind = "list" =>
       \A i \in DOMAIN p["input"].list : Let(p["input"].list[i])
  /\ "include" \in DOMAIN p =>
       \A i \in DOMAIN p["include"].list : p["include"].list[i] \in CodexIncludes
  /\ "tools" \in DOMAIN p => ~ Has(p["tools"], RefusedTools)
  /\ "text" \in DOMAIN p /\ p["text"].kind = "object" => ~ Has(p["text"], {"json_object"})

(* An item the gate let through is normalized into one a native Codex may   *)
(* send, but for its null type.                                             *)
LEMMA ItemCompleted ==
  ASSUME NEW item, Let(item)
  PROVE  NormalItem(item).type = "null" \/ ~ RefusesItem(NormalItem(item), TRUE)
<1> DEFINE type == IF item.type = "absent" /\ item.role # "absent" THEN "message" ELSE item.type
           role == IF item.role \in {"system", "absent"} THEN "developer" ELSE item.role
           parts == CASE item.content.kind = "string" -> <<Part(role)>>
                 [] item.content.kind = "list" ->
                      [i \in DOMAIN item.content.list |-> NormalPart(role, item.content.list[i])]
                 [] item.content.kind = "object" -> item.content.list
                 [] item.content.kind = "absent" -> <<>>
                 [] OTHER -> <<item.content.kind>>
<1>1. NormalItem(item) = IF type # "message" THEN item ELSE Message(role, parts)
  BY DEF NormalItem
<1>2. CASE type # "message"
  <2>1. item.type # "absent" /\ item.type # "message" /\ item.type # "no object"
    BY <1>2 DEF Let, RefusesItem, Typed
  <2>2. item.type \notin RefusedItems
    BY DEF Let, RefusesItem
  <2>3. CASE item.type = "null"
    BY <1>1, <1>2, <2>3
  <2>4. CASE item.type # "null"
    BY <1>1, <1>2, <2>1, <2>2, <2>4 DEF RefusesItem, Typed
  <2>5. QED BY <2>3, <2>4
<1>3. CASE type = "message"
  <2>1. item.type = "message" \/ ~ Typed(item)
    BY <1>3 DEF Typed
  <2>2. item.content.kind = "list" => ~ Has(item.content, RefusedParts)
    BY <2>1 DEF Let, RefusesItem
  <2>3. \A i \in DOMAIN parts : parts[i] \notin RefusedParts
    <3>1. Part(role) \notin RefusedParts
      BY DEF Part, RefusedParts
    <3>2. CASE item.content.kind = "string"
      <4>1. parts = <<Part(role)>>
        BY <3>2
      <4>2. DOMAIN parts = {1} /\ parts[1] = Part(role)
        BY <4>1
      <4> HIDE DEF parts
      <4>3. QED BY <3>1, <4>2
    <3>3. CASE item.content.kind = "list"
      <4>1. parts = [i \in DOMAIN item.content.list |-> NormalPart(role, item.content.list[i])]
        BY <3>3
      <4> HIDE DEF parts
      <4>2. ASSUME NEW i \in DOMAIN parts
            PROVE  parts[i] \notin RefusedParts
        <5>1. item.content.list[i] \notin RefusedParts
          BY <2>2, <3>3, <4>1 DEF Has
        <5>2. parts[i] = NormalPart(role, item.content.list[i])
          BY <4>1
        <5>3. QED BY <3>1, <5>1, <5>2 DEF NormalPart, RefusedParts
      <4>3. QED BY <4>2
    <3>4. CASE item.content.kind = "absent"
      <4>1. parts = <<>>
        BY <3>4
      <4>2. DOMAIN parts = {}
        BY <4>1
      <4> HIDE DEF parts
      <4>3. QED BY <4>2
    <3>6. CASE item.content.kind = "object"
      <4>1. parts = item.content.list
        BY <3>6
      <4> HIDE DEF parts
      <4>2. QED BY <3>6, <4>1 DEF Let, Wraps, Has
    <3>5. CASE item.content.kind \notin {"string", "list", "absent", "object"}
      <4>1. parts = <<item.content.kind>>
        BY <3>5
      <4>2. DOMAIN parts = {1} /\ parts[1] = item.content.kind
        BY <4>1
      <4> HIDE DEF parts
      <4>3. item.content.kind \notin RefusedParts
        BY DEF Let, Kinds, RefusedParts
      <4>4. QED BY <4>2, <4>3
    <3>7. QED BY <3>2, <3>3, <3>4, <3>5, <3>6
  <2>4. role # "system"
    OBVIOUS
  <2> HIDE DEF parts, role
  <2> DEFINE m == Message(role, parts)
  <2>5. /\ m.type = "message" /\ m.role = role
        /\ m.content.kind = "list" /\ m.content.list = parts
    BY DEF Message, ListOf
  <2>6. NormalItem(item) = m
    BY <1>1, <1>3
  <2> HIDE DEF m
  <2>7. ~ Has(m.content, RefusedParts)
    BY <2>3, <2>5 DEF Has
  <2>8. ~ RefusesItem(m, TRUE)
    BY <2>4, <2>5, <2>7 DEF RefusesItem, RefusedItems, Typed
  <2>9. QED BY <2>6, <2>8
<1>4. QED BY <1>2, <1>3

(* The native check's verdict on one item of a completed request.           *)
Native(item) == item.type = "null" \/ ~ RefusesItem(item, TRUE)

LEMMA WrittenMessage ==
  ASSUME NEW role, role # "system", NEW part, part \notin RefusedParts
  PROVE  Native(Message(role, <<part>>))
<1> DEFINE m == Message(role, <<part>>)
<1>1. m.type = "message" /\ m.role = role /\ m.content.kind = "list" /\ m.content.list = <<part>>
  BY DEF Message, ListOf
<1> HIDE DEF m
<1>2. ~ Has(m.content, RefusedParts)
  <2>1. DOMAIN m.content.list = {1} /\ m.content.list[1] = part
    BY <1>1
  <2>2. QED BY <2>1 DEF Has
<1>3. ~ RefusesItem(m, TRUE)
  BY <1>1, <1>2 DEF RefusesItem, RefusedItems, Typed
<1>4. QED BY <1>3 DEF Native, m

LEMMA ItemsCompleted ==
  ASSUME NEW p, Fit(p)
  PROVE  Listing(Items(p)) /\ \A i \in DOMAIN Items(p) : Native(Items(p)[i])
<1> DEFINE input == Value(p, "input")
           message == Message("user", <<"input_text">>)
<1>1. CASE input.kind = "string"
  <2>1. Items(p) = <<message>>
    BY <1>1 DEF Items
  <2>2. Native(message)
    BY WrittenMessage DEF RefusedParts
  <2> HIDE DEF message
  <2>3. Len(<<message>>) = 1 /\ DOMAIN <<message>> = 1..1 /\ <<message>>[1] = message
    OBVIOUS
  <2>4. QED BY <2>1, <2>2, <2>3 DEF Listing
<1>2. CASE input.kind = "list"
  <2> DEFINE w == [i \in DOMAIN input.list |-> NormalItem(input.list[i])]
  <2>1. Items(p) = w
    BY <1>2 DEF Items
  <2>2. "input" \in DOMAIN p /\ input = p["input"]
    BY <1>2 DEF Value, Is
  <2>3. Listing(input.list)
    BY <2>2 DEF Fit, Valued
  <2>4. \A i \in DOMAIN input.list : Let(input.list[i])
    BY <1>2, <2>2 DEF Fit
  <2> HIDE DEF input
  <2>5. \A i \in DOMAIN w : Native(w[i])
    BY <2>4, ItemCompleted DEF Native
  <2>6. w = [i \in DOMAIN input.list |-> w[i]]
    OBVIOUS
  <2> HIDE DEF w
  <2>7. Listing(w)
    BY <2>3, <2>6, Relisted
  <2>8. QED BY <2>1, <2>5, <2>7
<1>3. CASE input.kind \notin {"string", "list"}
  <2>1. Items(p) = <<>>
    BY <1>3 DEF Items
  <2>2. Len(<<>>) = 0 /\ DOMAIN <<>> = {} /\ 1..0 = {}
    OBVIOUS
  <2>3. QED BY <2>1, <2>2 DEF Listing
<1>4. QED BY <1>1, <1>2, <1>3

(* What the instructions add in front of the items.                         *)
LEMMA LeadCompleted ==
  ASSUME NEW items, Listing(items), \A i \in DOMAIN items : Native(items[i]),
         NEW lead, lead = <<>> \/ lead = <<Message("developer", <<"input_text">>)>>
  PROVE  \A i \in DOMAIN (lead \o items) : Native((lead \o items)[i])
<1> DEFINE message == Message("developer", <<"input_text">>)
           S == {items[i] : i \in DOMAIN items} \cup {message}
<1>1. Native(message)
  BY WrittenMessage DEF RefusedParts
<1> HIDE DEF message
<1>2. items \in Seq(S)
  <2>1. items \in [1..Len(items) -> S] /\ Len(items) \in Nat
    BY DEF Listing
  <2> HIDE DEF S
  <2>2. QED BY <2>1, SeqDef
<1>3. lead \in Seq(S)
  <2>1. message \in S
    OBVIOUS
  <2> HIDE DEF S
  <2>2. <<>> \in Seq(S)
    BY EmptySeq
  <2>3. <<message>> \in Seq(S)
    BY <2>1
  <2>4. QED BY <2>2, <2>3 DEF message
<1>4. \A x \in S : Native(x)
  BY <1>1
<1>5. lead \o items \in Seq(S)
  <2> HIDE DEF S
  <2>1. QED BY <1>2, <1>3, ConcatProperties
<1> HIDE DEF S
<1> DEFINE w == lead \o items
<1>6. w \in Seq(S)
  BY <1>5
<1> HIDE DEF w
<1>7. \A i \in DOMAIN w : w[i] \in S
  <2>1. DOMAIN w = 1..Len(w)
    BY <1>6, LenProperties
  <2>2. QED BY <1>6, <2>1, ElementOfSeq
<1>8. QED BY <1>4, <1>7 DEF w

(* What normalize leaves of the fields the native check looks into.         *)
LEMMA NormalFields ==
  ASSUME NEW p, Fit(p), NEW q, q = Normalize(p).payload
  PROVE  /\ \A f \in DOMAIN q : f \in DOMAIN p /\ Valued(q[f])
         /\ "include" \in DOMAIN q => q["include"] = p["include"]
         /\ "tools" \in DOMAIN q /\ q["tools"].kind = "list" =>
              ~ Has(q["tools"], RefusedTools \cup PreviewTools)
         /\ "text" \in DOMAIN q /\ q["text"].kind = "object" =>
              ~ Has(q["text"], {"json_object", "plain"})
         /\ "stream_options" \in DOMAIN q /\ q["stream_options"].kind = "object" =>
              ~ Has(q["stream_options"], AppOptions)
<1> DEFINE Renamed(t) == IF t \in PreviewTools THEN "web_search" ELSE t
           tools == [p["tools"] EXCEPT !.list = [i \in DOMAIN p["tools"].list |-> Renamed(p["tools"].list[i])]]
           Rewritten(f) == CASE f = "tools" /\ p[f].kind = "list" -> tools
                             [] f = "text" /\ p[f].kind = "object" -> Without(p[f], {"plain"})
                             [] f = "stream_options" /\ p[f].kind = "object" ->
                                  Keeping(p[f], OwnOptions)
                             [] OTHER -> p[f]
<1>1. \A f \in DOMAIN q : f \in DOMAIN p /\ q[f] = Rewritten(f)
  BY DEF Normalize, Map
<1> HIDE DEF Rewritten
<1>2. \A f \in DOMAIN p : Valued(p[f])
  BY DEF Fit
<1>3. ASSUME "tools" \in DOMAIN p, p["tools"].kind = "list"
      PROVE  /\ Valued(tools) /\ tools.kind = "list"
             /\ ~ Has(tools, RefusedTools \cup PreviewTools)
  <2> DEFINE s == p["tools"].list
             w == [i \in DOMAIN s |-> Renamed(s[i])]
  <2>1. Listing(s) /\ p["tools"] = [kind |-> "list", list |-> s]
    BY <1>2, <1>3 DEF Valued
  <2>2. tools = [kind |-> "list", list |-> w]
    BY <2>1
  <2> HIDE DEF tools
  <2>3. \A i \in DOMAIN w : w[i] \notin RefusedTools \cup PreviewTools
    <3>1. \A i \in DOMAIN s : s[i] \notin RefusedTools
      BY <1>3 DEF Fit, Has
    <3> HIDE DEF s
    <3>2. QED BY <3>1 DEF RefusedTools, PreviewTools
  <2>4. w = [i \in DOMAIN s |-> w[i]]
    OBVIOUS
  <2> HIDE DEF w, s
  <2>5. Listing(w)
    BY <2>1, <2>4, Relisted
  <2>6. QED BY <2>2, <2>3, <2>5 DEF Valued, Has
<1>4. ASSUME "text" \in DOMAIN p, p["text"].kind = "object"
      PROVE  LET v == Without(p["text"], {"plain"})
             IN  Valued(v) /\ ~ Has(v, {"json_object", "plain"})
  <2>1. Valued(p["text"]) /\ ~ Has(p["text"], {"json_object"})
    BY <1>2, <1>4 DEF Fit
  <2> DEFINE v == Without(p["text"], {"plain"})
  <2>2. Valued(v) /\ \A n \in DOMAIN v.list :
              /\ v.list[n] \notin {"plain"}
              /\ \E i \in DOMAIN p["text"].list : v.list[n] = p["text"].list[i]
    BY <2>1, KeptEntries
  <2> HIDE DEF v
  <2>3. Valued(v) /\ ~ Has(v, {"json_object", "plain"})
    BY <2>1, <2>2 DEF Has
  <2>4. QED BY <2>3 DEF v
<1>5. ASSUME "stream_options" \in DOMAIN p, p["stream_options"].kind = "object"
      PROVE  LET v == Keeping(p["stream_options"], OwnOptions)
             IN  Valued(v) /\ ~ Has(v, AppOptions)
  <2> DEFINE v == Keeping(p["stream_options"], OwnOptions)
  <2>1. Valued(v) /\ \A n \in DOMAIN v.list : v.list[n] \in OwnOptions
    BY <1>2, <1>5, KeptEntries
  <2> HIDE DEF v
  <2>2. Valued(v) /\ ~ Has(v, AppOptions)
    BY <2>1 DEF Has, OwnOptions, AppOptions
  <2>3. QED BY <2>2 DEF v
<1>6. "tools" \in DOMAIN p =>
        /\ Valued(Rewritten("tools"))
        /\ Rewritten("tools").kind = "list" =>
              ~ Has(Rewritten("tools"), RefusedTools \cup PreviewTools)
  <2>1. Rewritten("tools") = IF p["tools"].kind = "list" THEN tools ELSE p["tools"]
    BY DEF Rewritten
  <2> HIDE DEF tools
  <2>2. QED BY <1>2, <1>3, <2>1
<1>7. "text" \in DOMAIN p =>
        /\ Valued(Rewritten("text"))
        /\ Rewritten("text").kind = "object" => ~ Has(Rewritten("text"), {"json_object", "plain"})
  <2>1. Rewritten("text") = IF p["text"].kind = "object" THEN Without(p["text"], {"plain"})
                            ELSE p["text"]
    BY DEF Rewritten
  <2>2. QED BY <1>2, <1>4, <2>1
<1>8. "stream_options" \in DOMAIN p =>
        /\ Valued(Rewritten("stream_options"))
        /\ Rewritten("stream_options").kind = "object" =>
             ~ Has(Rewritten("stream_options"), AppOptions)
  <2>1. Rewritten("stream_options") =
          IF p["stream_options"].kind = "object" THEN Keeping(p["stream_options"], OwnOptions)
          ELSE p["stream_options"]
    BY DEF Rewritten
  <2>2. QED BY <1>2, <1>5, <2>1
<1>9. \A f \in DOMAIN p : f \notin {"tools", "text", "stream_options"} => Rewritten(f) = p[f]
  BY DEF Rewritten
<1>10. \A f \in DOMAIN p : Valued(Rewritten(f))
  BY <1>2, <1>6, <1>7, <1>8, <1>9
<1>11. QED BY <1>1, <1>6, <1>7, <1>8, <1>9, <1>10

(* A payload fit for it is completed into one the native check takes.       *)
LEMMA FitIsCompleted ==
  ASSUME NEW p, Fit(p), ~ NullTyped(Complete(Normalize(p)))
  PROVE  CheckResponses(Complete(Normalize(p)), TRUE, "responses", FALSE)
<1> DEFINE n == Normalize(p)
           q == n.payload
           C == Complete(n)
           lead == IF n.instructions THEN <<Message("developer", <<"input_text">>)>> ELSE <<>>
           OrElse(f, kinds, default) == IF Value(q, f).kind \in kinds THEN q[f] ELSE default
           Filled(f) ==
             CASE f = "model"               -> Is("plain")
               [] f = "stream"              -> Is("true")
               [] f = "store"               -> Is("false")
               [] f = "tool_choice"         -> Is("auto")
               [] f = "input"               -> ListOf(lead \o n.items)
               [] f = "parallel_tool_calls" -> OrElse(f, {"true", "false"}, Is("true"))
               [] f = "reasoning"           -> OrElse(f, {"object"}, Object(<<"effort">>))
               [] f = "include"             -> OrElse(f, {"list"}, ListOf(<<"reasoning.encrypted_content">>))
               [] f = "text"                -> OrElse(f, {"object"}, Object(<<"verbosity">>))
               [] f = "prompt_cache_key"    -> Is("string")
               [] f = "client_metadata"     -> Object(<<>>)
               [] OTHER                     -> q[f]
           Names == RequiredFields \cup {"prompt_cache_key", "client_metadata"}
                      \cup ({"service_tier", "stream_options"} \cap DOMAIN q)
                      \cup (IF Value(q, "tools").kind = "list" THEN {"tools"} ELSE {})
                      \cup (IF Value(q, "text").kind = "object" \/ Verbosity THEN {"text"} ELSE {})
<1>1. n.items = Items(p)
  BY DEF Normalize
<1>2. /\ \A f \in DOMAIN q : f \in DOMAIN p /\ Valued(q[f])
      /\ "include" \in DOMAIN q => q["include"] = p["include"]
      /\ "tools" \in DOMAIN q /\ q["tools"].kind = "list" =>
           ~ Has(q["tools"], RefusedTools \cup PreviewTools)
      /\ "text" \in DOMAIN q /\ q["text"].kind = "object" =>
           ~ Has(q["text"], {"json_object", "plain"})
      /\ "stream_options" \in DOMAIN q /\ q["stream_options"].kind = "object" =>
           ~ Has(q["stream_options"], AppOptions)
  <2> HIDE DEF q
  <2>1. q = Normalize(p).payload
    BY DEF q
  <2>2. QED BY <2>1, NormalFields
<1> HIDE DEF n
<1>15. C = [f \in Names |-> Filled(f)]
  BY DEF Complete
<1>16. DOMAIN C = Names /\ \A f \in DOMAIN C : C[f] = Filled(f)
  <2> HIDE DEF C, Names, Filled
  <2>1. QED BY <1>15
<1>3. /\ RequiredFields \subseteq DOMAIN C
      /\ DOMAIN C \subseteq RequiredFields \cup {"prompt_cache_key", "client_metadata", "service_tier",
                                              "stream_options", "tools", "text"}
      /\ "tools" \in DOMAIN C => Value(q, "tools").kind = "list"
      /\ "stream_options" \in DOMAIN C => "stream_options" \in DOMAIN q
  <2> HIDE DEF C, q, Filled
  <2>1. QED BY <1>16 DEF RequiredFields
<1> HIDE DEF Names
<1>17. lead = <<>> \/ lead = <<Message("developer", <<"input_text">>)>>
  OBVIOUS
<1> HIDE DEF C, lead, OrElse
<1>4. /\ C["stream"] = Is("true") /\ C["store"] = Is("false") /\ C["tool_choice"] = Is("auto")
      /\ C["input"] = ListOf(lead \o n.items)
      /\ C["include"] = OrElse("include", {"list"}, ListOf(<<"reasoning.encrypted_content">>))
      /\ "text" \in DOMAIN C => C["text"] = OrElse("text", {"object"}, Object(<<"verbosity">>))
      /\ "tools" \in DOMAIN C => C["tools"] = q["tools"]
      /\ "stream_options" \in DOMAIN C => C["stream_options"] = q["stream_options"]
  <2>1. {"stream", "store", "tool_choice", "input", "include"} \subseteq DOMAIN C
    BY <1>3 DEF RequiredFields
  <2>2. /\ Filled("stream") = Is("true") /\ Filled("store") = Is("false")
        /\ Filled("tool_choice") = Is("auto") /\ Filled("input") = ListOf(lead \o n.items)
        /\ Filled("include") = OrElse("include", {"list"}, ListOf(<<"reasoning.encrypted_content">>))
        /\ Filled("text") = OrElse("text", {"object"}, Object(<<"verbosity">>))
        /\ Filled("tools") = q["tools"] /\ Filled("stream_options") = q["stream_options"]
    OBVIOUS
  <2> HIDE DEF Filled
  <2>3. QED BY <1>16, <2>1, <2>2
<1> USE DEF OrElse
<1>5. \A i \in DOMAIN C["input"].list : ~ RefusesItem(C["input"].list[i], TRUE)
  <2> DEFINE w == lead \o n.items
  <2>1. \A i \in DOMAIN w : Native(w[i])
    <3>2. Listing(n.items) /\ \A i \in DOMAIN n.items : Native(n.items[i])
      BY <1>1, ItemsCompleted
    <3>3. QED BY <1>17, <3>2, LeadCompleted
  <2>2. C["input"].list = w
    BY <1>4 DEF ListOf
  <2> HIDE DEF w
  <2>3. \A i \in DOMAIN w : w[i].type # "null"
    <3>1. "input" \in DOMAIN C
      BY <1>3 DEF RequiredFields
    <3>2. ~ NullTyped(C)
      BY DEF C, n
    <3>3. QED BY <2>2, <3>1, <3>2 DEF NullTyped, Value
  <2>4. QED BY <2>1, <2>2, <2>3 DEF Native
<1>6. \A i \in DOMAIN C["include"].list : C["include"].list[i] \in CodexIncludes
  <2>1. CASE Value(q, "include").kind = "list"
    <3>1. "include" \in DOMAIN q
      BY <2>1 DEF Value, Is
    <3>2. C["include"] = p["include"] /\ "include" \in DOMAIN p
      BY <1>2, <1>4, <2>1, <3>1
    <3>3. QED BY <3>2 DEF Fit
  <2>2. CASE Value(q, "include").kind # "list"
    <3>1. C["include"].list = <<"reasoning.encrypted_content">>
      BY <1>4, <2>2 DEF ListOf
    <3>2. DOMAIN C["include"].list = {1} /\ C["include"].list[1] = "reasoning.encrypted_content"
      BY <3>1
    <3>3. QED BY <3>2 DEF CodexIncludes
  <2>3. QED BY <2>1, <2>2
<1>7. C["include"].kind = "list"
  BY <1>4 DEF Value, Is, ListOf
<1>8. "tools" \in DOMAIN C =>
        C["tools"].kind = "list" /\ ~ Has(C["tools"], RefusedTools) /\ ~ Has(C["tools"], PreviewTools)
  <2>1. SUFFICES ASSUME "tools" \in DOMAIN C
                 PROVE  /\ C["tools"].kind = "list" /\ ~ Has(C["tools"], RefusedTools)
                        /\ ~ Has(C["tools"], PreviewTools)
    OBVIOUS
  <2>2. "tools" \in DOMAIN q /\ q["tools"].kind = "list" /\ C["tools"] = q["tools"]
    BY <1>3, <1>4, <2>1 DEF Value, Is
  <2>3. QED BY <1>2, <2>2 DEF Has
<1>9. "text" \in DOMAIN C =>
        ~ Has(C["text"], {"json_object"}) /\ ~ Has(C["text"], {"plain"})
  <2>1. SUFFICES ASSUME "text" \in DOMAIN C
                 PROVE  ~ Has(C["text"], {"json_object"}) /\ ~ Has(C["text"], {"plain"})
    OBVIOUS
  <2>2. CASE Value(q, "text").kind = "object"
    <3>1. "text" \in DOMAIN q /\ q["text"].kind = "object"
      BY <2>2 DEF Value, Is
    <3>2. C["text"] = q["text"]
      BY <1>4, <2>1, <2>2
    <3>3. QED BY <1>2, <3>1, <3>2 DEF Has
  <2>3. CASE Value(q, "text").kind # "object"
    <3>1. C["text"].list = <<"verbosity">>
      BY <1>4, <2>1, <2>3 DEF Object
    <3>2. DOMAIN C["text"].list = {1} /\ C["text"].list[1] = "verbosity"
      BY <3>1
    <3>3. QED BY <3>2 DEF Has
  <2>4. QED BY <2>2, <2>3
<1>10. "stream_options" \in DOMAIN C /\ C["stream_options"].kind = "object" =>
         ~ Has(C["stream_options"], AppOptions)
  BY <1>2, <1>3, <1>4
<1> HIDE DEF OrElse
<1>11. C["stream"].kind = "true" /\ C["store"].kind = "false" /\ C["tool_choice"].kind = "auto"
  BY <1>4 DEF Is
<1>12. C["input"].kind = "list"
  BY <1>4 DEF ListOf
<1>13. ASSUME NEW f \in DOMAIN C \cap CodexFields
       PROVE  ~ RefusesField(f, C[f], TRUE)
  <2>1. CASE f = "stream"
    BY <1>11, <2>1 DEF RefusesField
  <2>2. CASE f = "store"
    BY <1>11, <2>2 DEF RefusesField
  <2>3. CASE f = "tool_choice"
    BY <1>11, <2>3 DEF RefusesField
  <2>4. CASE f = "include"
    BY <1>6, <1>7, <2>4 DEF RefusesField
  <2>5. CASE f = "input"
    BY <1>5, <1>12, <2>5 DEF RefusesField
  <2>6. CASE f = "tools"
    BY <1>8, <2>6 DEF RefusesField
  <2>7. CASE f = "text"
    BY <1>9, <2>7 DEF RefusesField
  <2>8. CASE f = "stream_options"
    BY <1>10, <2>8 DEF RefusesField
  <2>9. CASE f \notin {"stream", "store", "tool_choice", "include", "input", "tools", "text",
                       "stream_options"}
    BY <2>9 DEF RefusesField
  <2>10. QED BY <2>1, <2>2, <2>3, <2>4, <2>5, <2>6, <2>7, <2>8, <2>9
<1>14. DOMAIN C \cap RefusedFields = {} /\ DOMAIN C \cap IdentityFields = {}
  BY <1>3 DEF RequiredFields, RefusedFields, IdentityFields
<1>18. QED BY <1>3, <1>13, <1>14 DEF CheckResponses, C, n

LEMMA PayloadValued ==
  ASSUME NEW r \in Requests
  PROVE  /\ \A f \in DOMAIN r.payload : Valued(r.payload[f])
         /\ "input" \in DOMAIN r.payload => \A i \in DOMAIN r.payload["input"].list :
              r.payload["input"].list[i] \in InputItems
         /\ "messages" \in DOMAIN r.payload => \A i \in DOMAIN r.payload["messages"].list :
              r.payload["messages"].list[i] \in ChatMessages
<1>1. \A f \in DOMAIN r.payload : r.payload[f] \in [kind : Kinds, list : Seq(Entries(f))]
  BY RequestAssumption DEF ValuesOf
<1>2. ASSUME NEW T, NEW v \in [kind : Kinds, list : Seq(T)]
      PROVE  Valued(v) /\ \A i \in DOMAIN v.list : v.list[i] \in T
  <2>1. v = [kind |-> v.kind, list |-> v.list] /\ v.list \in Seq(T)
    OBVIOUS
  <2>2. Len(v.list) \in Nat /\ v.list \in [1..Len(v.list) -> T]
    BY <2>1, LenProperties
  <2>3. QED BY <2>1, <2>2 DEF Valued, Listing
<1>3. Entries("input") = InputItems /\ Entries("messages") = ChatMessages
  BY DEF Entries
<1>4. QED BY <1>1, <1>2, <1>3

LEMMA PlainValued ==
  ASSUME NEW kind
  PROVE  Valued(Is(kind)) /\ Is(kind).kind = kind /\ DOMAIN Is(kind).list = {}
<1>1. Len(<<>>) = 0 /\ DOMAIN <<>> = 1..0 /\ 1..0 = {} /\ <<>> = [i \in {} |-> <<>>[i]]
  OBVIOUS
<1>2. Is(kind) = [kind |-> kind, list |-> <<>>]
  BY DEF Is
<1>3. QED BY <1>1, <1>2 DEF Valued, Listing

LEMMA NamedValued ==
  ASSUME NEW name
  PROVE  /\ Valued(Object(<<name>>)) /\ Object(<<name>>).kind = "object"
         /\ DOMAIN Object(<<name>>).list = {1} /\ Object(<<name>>).list[1] = name
<1> DEFINE s == <<name>>
<1>1. Len(s) = 1 /\ DOMAIN s = 1..1 /\ DOMAIN s = {1} /\ s[1] = name /\ s = [i \in DOMAIN s |-> s[i]]
  OBVIOUS
<1>2. Object(s) = [kind |-> "object", list |-> s]
  BY DEF Object
<1> HIDE DEF s
<1>3. Valued(Object(s)) /\ Object(s).kind = "object" /\ DOMAIN Object(s).list = {1} /\ Object(s).list[1] = name
  BY <1>1, <1>2 DEF Valued, Listing
<1>4. QED BY <1>3 DEF s

LEMMA UntwinnedEntries ==
  ASSUME NEW v, Valued(v)
  PROVE  /\ Valued(Untwinned(v))
         /\ \A n \in DOMAIN Untwinned(v).list :
              \E i \in DOMAIN v.list : Untwinned(v).list[n] = v.list[i]
<1> DEFINE names == {"image twin"} \cup IF Has(v, PreviewTools \cup {"web_search"})
                                       THEN {"search twin"} ELSE {}
<1>1. Untwinned(v) = IF v.kind # "list" THEN v ELSE Without(v, names)
  BY DEF Untwinned
<1> HIDE DEF names
<1>2. Valued(Without(v, names)) /\ \A n \in DOMAIN Without(v, names).list :
        \E i \in DOMAIN v.list : Without(v, names).list[n] = v.list[i]
  BY KeptEntries
<1>3. QED BY <1>1, <1>2

(* A foreign request the gate let through.                                  *)
LEMMA Foreign ==
  ASSUME NEW r \in Requests, Gate(r) = "foreign"
  PROVE  /\ r.native = FALSE /\ r.socket = FALSE
         /\ r.chat => CheckChat(r.payload)
         /\ ~ r.chat => \A f \in DOMAIN r.payload \cap CodexFields :
                          ~ RefusesField(f, r.payload[f], FALSE)
<1> DEFINE body == IF r.compact THEN "compact" ELSE "responses"
           passes ==
             IF r.socket THEN CheckResponses(r.payload, TRUE, "socket", ~ r.native \/ r.newer)
             ELSE /\ r.native \/ r.compact => r.identity
                  /\ IF r.chat THEN CheckChat(r.payload)
                     ELSE CheckResponses(r.payload, r.native, body, r.newer)
<1>1. Gate(r) = IF ~ passes THEN "refused"
                ELSE IF r.socket \/ r.native THEN "exact"
                ELSE IF ~ r.compact /\ (r.chat \/ ~ CodexShaped(r)) THEN "foreign"
                ELSE "adapt"
  BY DEF Gate
<1>2. r.native \in BOOLEAN /\ r.socket \in BOOLEAN
  BY RequestAssumption
<1>3. passes /\ r.native = FALSE /\ r.socket = FALSE
  <2> HIDE DEF passes
  <2>1. passes
    BY <1>1
  <2>2. ~ (r.socket \/ r.native)
    BY <1>1, <2>1
  <2>3. QED BY <1>2, <2>1, <2>2
<1>4. r.chat => CheckChat(r.payload)
  BY <1>3
<1>5. ~ r.chat => CheckResponses(r.payload, FALSE, body, r.newer)
  BY <1>3
<1>6. ASSUME ~ r.chat, NEW f \in DOMAIN r.payload \cap CodexFields
      PROVE  ~ RefusesField(f, r.payload[f], FALSE)
  BY <1>5, <1>6 DEF CheckResponses
<1>7. QED BY <1>3, <1>4, <1>6

(* What the pool writes into a request leaves it fit.                       *)
LEMMA PreparedEntries ==
  ASSUME NEW r \in Requests, r.native = FALSE, r.socket = FALSE
  PROVE  LET p == r.payload
             w == Prepared(r)
         IN  /\ \A f \in DOMAIN w : Valued(w[f])
             /\ \A f \in {"input", "include", "text", "messages"} \cap DOMAIN p :
                  f \in DOMAIN w /\ w[f] = p[f]
             /\ \A f \in {"input", "include", "text", "messages"} \cap DOMAIN w :
                  f \notin DOMAIN p => w[f] = Is("string")
             /\ "tools" \in DOMAIN w /\ "tools" \in DOMAIN p => w["tools"] = Untwinned(p["tools"])
             /\ "tools" \in DOMAIN w /\ "tools" \notin DOMAIN p => w["tools"] = Is("string")
<1> DEFINE p == r.payload
           w == Prepared(r)
           tiered == Value(p, "model").kind = "tier" /\ ~ r.chat
           fields == DOMAIN p \cup {"model"} \cup Added \cup IF tiered THEN {"reasoning"} ELSE {}
           Written(f) ==
             CASE f = "model" -> Is("plain")
               [] f = "reasoning" /\ tiered -> Object(<<"effort">>)
               [] f = "tools" /\ f \in DOMAIN p -> Untwinned(p[f])
               [] OTHER -> IF f \in DOMAIN p THEN p[f] ELSE Is("string")
<1>1. w = [f \in fields |-> Written(f)]
  BY DEF Prepared
<1> HIDE DEF w
<1>2. DOMAIN p \subseteq fields
  OBVIOUS
<1> HIDE DEF fields, tiered
<1>3. /\ Written("model") = Is("plain")
      /\ tiered => Written("reasoning") = Object(<<"effort">>)
      /\ "tools" \in DOMAIN p => Written("tools") = Untwinned(p["tools"])
      /\ "tools" \notin DOMAIN p => Written("tools") = Is("string")
  OBVIOUS
<1>4. \A f : f \notin {"model", "tools"} /\ ~ (f = "reasoning" /\ tiered) =>
              Written(f) = IF f \in DOMAIN p THEN p[f] ELSE Is("string")
  OBVIOUS
<1> HIDE DEF Written
<1>5. DOMAIN w = fields /\ \A f \in fields : w[f] = Written(f)
  BY <1>1
<1>6. \A f \in DOMAIN p : Valued(p[f])
  BY PayloadValued
<1>7. Valued(Is("plain")) /\ Valued(Is("string")) /\ Valued(Object(<<"effort">>))
  BY PlainValued, NamedValued
<1>8. "tools" \in DOMAIN p => Valued(Untwinned(p["tools"]))
  BY <1>6, UntwinnedEntries
<1> HIDE DEF p
<1>9. ASSUME NEW f \in fields
      PROVE  Valued(w[f])
  <2>1. w[f] = Written(f)
    BY <1>5
  <2>2. CASE f = "model"
    BY <1>3, <1>7, <2>1, <2>2
  <2>3. CASE f = "tools"
    BY <1>3, <1>7, <1>8, <2>1, <2>3
  <2>4. CASE f = "reasoning" /\ tiered
    BY <1>3, <1>7, <2>1, <2>4
  <2>5. CASE f \notin {"model", "tools"} /\ ~ (f = "reasoning" /\ tiered)
    BY <1>4, <1>6, <1>7, <2>1, <2>5
  <2>6. QED BY <2>2, <2>3, <2>4, <2>5
<1>10. QED BY <1>2, <1>3, <1>4, <1>5, <1>9 DEF p, w

LEMMA PreparedIsFit ==
  ASSUME NEW r \in Requests, Gate(r) = "foreign", ~ r.chat, ~ FileWrapped(r)
  PROVE  Fit(Prepared(r))
<1> DEFINE p == r.payload
           w == Prepared(r)
           Looked == {"input", "include", "text", "messages"}
<1>1. /\ r.native = FALSE /\ r.socket = FALSE
      /\ \A f \in DOMAIN p \cap CodexFields : ~ RefusesField(f, p[f], FALSE)
  BY Foreign
<1>2. /\ \A f \in DOMAIN w : Valued(w[f])
      /\ \A f \in Looked \cap DOMAIN p : f \in DOMAIN w /\ w[f] = p[f]
      /\ \A f \in Looked \cap DOMAIN w : f \notin DOMAIN p => w[f] = Is("string")
      /\ "tools" \in DOMAIN w /\ "tools" \in DOMAIN p => w["tools"] = Untwinned(p["tools"])
      /\ "tools" \in DOMAIN w /\ "tools" \notin DOMAIN p => w["tools"] = Is("string")
  BY <1>1, PreparedEntries
<1> HIDE DEF w
<1>10. "input" \in DOMAIN p => \A i \in DOMAIN p["input"].list : ~ Wraps(p["input"].list[i])
  BY DEF FileWrapped, Value
<1>3. /\ \A f \in DOMAIN p : Valued(p[f])
      /\ "input" \in DOMAIN p => \A i \in DOMAIN p["input"].list : p["input"].list[i] \in InputItems
  BY PayloadValued
<1> HIDE DEF p
<1>4. DOMAIN Is("string").list = {} /\ Is("string").kind = "string"
  BY PlainValued
<1>5. ASSUME "input" \in DOMAIN w, w["input"].kind = "list"
      PROVE  \A i \in DOMAIN w["input"].list : Let(w["input"].list[i])
  <2>1. "input" \in DOMAIN p /\ w["input"] = p["input"]
    BY <1>2, <1>4, <1>5
  <2>2. ~ RefusesField("input", p["input"], FALSE)
    BY <1>1, <2>1 DEF CodexFields
  <2>3. \A i \in DOMAIN p["input"].list : ~ RefusesItem(p["input"].list[i], FALSE)
    BY <2>2 DEF RefusesField
  <2>4. \A item \in InputItems : item.content.kind \in Kinds
    BY DEF InputItems, ValuesOf
  <2>5. QED BY <1>3, <1>10, <2>1, <2>3, <2>4 DEF Let
<1>6. ASSUME "include" \in DOMAIN w
      PROVE  \A i \in DOMAIN w["include"].list : w["include"].list[i] \in CodexIncludes
  <2>1. CASE "include" \in DOMAIN p
    <3>1. ~ RefusesField("include", p["include"], FALSE) /\ w["include"] = p["include"]
      BY <1>1, <1>2, <2>1 DEF CodexFields
    <3>2. QED BY <3>1 DEF RefusesField
  <2>2. CASE "include" \notin DOMAIN p
    BY <1>2, <1>4, <1>6, <2>2
  <2>3. QED BY <2>1, <2>2
<1>7. ASSUME "tools" \in DOMAIN w
      PROVE  ~ Has(w["tools"], RefusedTools)
  <2>1. CASE "tools" \in DOMAIN p
    <3>1. ~ RefusesField("tools", p["tools"], FALSE) /\ w["tools"] = Untwinned(p["tools"])
      BY <1>1, <1>2, <1>7, <2>1 DEF CodexFields
    <3>2. ~ Has(p["tools"], RefusedTools)
      BY <3>1 DEF RefusesField
    <3>3. \A n \in DOMAIN Untwinned(p["tools"]).list :
            \E i \in DOMAIN p["tools"].list : Untwinned(p["tools"]).list[n] = p["tools"].list[i]
      BY <1>3, <2>1, UntwinnedEntries
    <3>4. QED BY <3>1, <3>2, <3>3 DEF Has
  <2>2. CASE "tools" \notin DOMAIN p
    BY <1>2, <1>4, <1>7, <2>2 DEF Has
  <2>3. QED BY <2>1, <2>2
<1>8. ASSUME "text" \in DOMAIN w, w["text"].kind = "object"
      PROVE  ~ Has(w["text"], {"json_object"})
  <2>1. "text" \in DOMAIN p /\ w["text"] = p["text"]
    BY <1>2, <1>4, <1>8
  <2>2. ~ RefusesField("text", p["text"], FALSE)
    BY <1>1, <2>1 DEF CodexFields
  <2>3. QED BY <1>8, <2>1, <2>2 DEF RefusesField
<1>9. QED BY <1>2, <1>5, <1>6, <1>7, <1>8 DEF Fit, w

(* A message of a chat is an item without a type.                           *)
BridgedItem(m) == [type |-> "absent", role |-> m.role,
                   content |-> IF m.content.kind = "absent" THEN Is("null") ELSE m.content]

LEMMA ChatItemLet ==
  ASSUME NEW m \in ChatMessages, m.role \in ChatRoles,
         m.content.kind = "list" => \A j \in DOMAIN m.content.list :
                                      m.content.list[j] \in ChatParts,
         ~ Wraps(m)
  PROVE  Let(BridgedItem(m))
<1> DEFINE item == BridgedItem(m)
<1>1. /\ item.type = "absent" /\ item.role = m.role
      /\ item.content = m.content \/ item.content.kind = "null"
  BY DEF BridgedItem, Is
<1> HIDE DEF item
<1>2. m.content.kind \in Kinds
  BY DEF ChatMessages, ValuesOf
<1>3. m.role # "absent"
  BY DEF ChatRoles
<1>4. m.content.kind = "list" => ~ Has(m.content, RefusedParts)
  BY DEF Has, ChatParts, RefusedParts
<1>5. ~ RefusesItem(item, FALSE)
  BY <1>1, <1>3, <1>4 DEF RefusesItem, RefusedItems, Typed
<1>6. ~ Wraps(item)
  BY <1>1 DEF Wraps
<1>7. item.content.kind \in Kinds
  BY <1>1, <1>2 DEF Kinds
<1>8. QED BY <1>5, <1>6, <1>7 DEF Let, item

LEMMA BridgedIsFit ==
  ASSUME NEW r \in Requests, Gate(r) = "foreign", r.chat, ~ FileWrapped(r)
  PROVE  Fit(Bridged(Prepared(r)))
<1> DEFINE p == r.payload
           w == Prepared(r)
           messages == Value(w, "messages").list
           kept == DOMAIN w \cap {"model", "prompt_cache_key", "prompt_cache_retention"}
           streams == IF Value(w, "stream").kind = "true" THEN {"stream"} ELSE {}
           effort == IF "reasoning_effort" \in DOMAIN w THEN {"reasoning"} ELSE {}
           verbose == IF "verbosity" \in DOMAIN w THEN {"text"} ELSE {}
           fields == kept \cup streams \cup effort \cup verbose \cup {"input"}
           input == [ListOf(messages) EXCEPT !.list =
                       [i \in DOMAIN ListOf(messages).list |-> BridgedItem(ListOf(messages).list[i])]]
           Written(f) == CASE f = "input" -> input
                           [] f = "reasoning" -> Object(<<"effort">>)
                           [] f = "text" -> Object(<<"verbosity">>)
                           [] OTHER -> w[f]
           b == Bridged(w)
<1>1. r.native = FALSE /\ r.socket = FALSE /\ CheckChat(p)
  BY Foreign
<1>2. /\ \A f \in DOMAIN w : Valued(w[f])
      /\ "messages" \in DOMAIN p => w["messages"] = p["messages"]
      /\ "messages" \in DOMAIN w => "messages" \in DOMAIN p \/ w["messages"] = Is("string")
  BY <1>1, PreparedEntries
<1>3. b = [f \in fields |-> Written(f)]
  BY DEF Bridged, Map, BridgedItem
<1> HIDE DEF w, b
<1>4. /\ "messages" \in DOMAIN p => \A i \in DOMAIN p["messages"].list :
           p["messages"].list[i] \in ChatMessages
  BY PayloadValued
<1>14. "messages" \in DOMAIN p =>
         \A i \in DOMAIN p["messages"].list : ~ Wraps(p["messages"].list[i])
  BY DEF FileWrapped, Value
<1> HIDE DEF p
<1>5. Listing(messages) /\ \A i \in DOMAIN messages : Let(BridgedItem(messages[i]))
  <2>1. CASE "messages" \in DOMAIN w /\ "messages" \in DOMAIN p
    <3>1. messages = p["messages"].list /\ Listing(messages)
      BY <1>2, <2>1 DEF Value, Valued
    <3>2. Value(p, "messages") = p["messages"]
      BY <2>1 DEF Value
    <3> HIDE DEF messages
    <3>3. ASSUME NEW i \in DOMAIN messages
          PROVE  Let(BridgedItem(messages[i]))
      <4> DEFINE m == messages[i]
      <4>1. m \in ChatMessages /\ ~ Wraps(m)
        BY <1>4, <1>14, <2>1, <3>1
      <4>2. /\ m.role \in ChatRoles
            /\ m.content.kind = "list" => \A j \in DOMAIN m.content.list :
                                            m.content.list[j] \in ChatParts
        BY <1>1, <3>1, <3>2 DEF CheckChat
      <4> HIDE DEF m
      <4>3. Let(BridgedItem(m))
        BY <4>1, <4>2, ChatItemLet
      <4>4. QED BY <4>3 DEF m
    <3>4. QED BY <3>1, <3>3
  <2>2. CASE ~ ("messages" \in DOMAIN w /\ "messages" \in DOMAIN p)
    <3>1. Value(w, "messages") = Is("string") \/ Value(w, "messages") = Is("absent")
      BY <1>2, <2>2 DEF Value
    <3>2. Listing(messages) /\ DOMAIN messages = {}
      BY <3>1, PlainValued DEF Valued
    <3> HIDE DEF messages
    <3>3. QED BY <3>2
  <2>3. QED BY <2>1, <2>2
<1> HIDE DEF messages
<1>6. Valued(input) /\ \A i \in DOMAIN input.list : Let(input.list[i])
  <2> DEFINE items == [i \in DOMAIN messages |-> BridgedItem(messages[i])]
  <2>1. input = [kind |-> "list", list |-> items]
    BY DEF ListOf
  <2>2. items = [i \in DOMAIN messages |-> items[i]]
    OBVIOUS
  <2>3. \A i \in DOMAIN items : Let(items[i])
    BY <1>5
  <2> HIDE DEF items, input
  <2>4. Listing(items)
    BY <1>5, <2>2, Relisted
  <2>5. QED BY <2>1, <2>3, <2>4 DEF Valued
<1> HIDE DEF input
<1>7. /\ Written("input") = input /\ Written("reasoning") = Object(<<"effort">>)
      /\ Written("text") = Object(<<"verbosity">>)
      /\ \A f : f \notin {"input", "reasoning", "text"} => Written(f) = w[f]
  OBVIOUS
<1>8. /\ \A f \in fields : f \in {"input", "reasoning", "text"} \/ f \in DOMAIN w
      /\ "include" \notin fields /\ "tools" \notin fields
  BY DEF Value, Is
<1> HIDE DEF Written, fields
<1>9. DOMAIN b = fields /\ \A f \in fields : b[f] = Written(f)
  BY <1>3
<1>10. \A f \in DOMAIN b : Valued(b[f])
  BY <1>2, <1>6, <1>7, <1>8, <1>9, NamedValued
<1>11. "input" \in DOMAIN b => \A i \in DOMAIN b["input"].list : Let(b["input"].list[i])
  BY <1>6, <1>7, <1>9
<1>12. "text" \in DOMAIN b => ~ Has(b["text"], {"json_object"})
  <2>1. SUFFICES ASSUME "text" \in DOMAIN b
                 PROVE  ~ Has(b["text"], {"json_object"})
    OBVIOUS
  <2>2. b["text"] = Object(<<"verbosity">>)
    BY <1>7, <1>9, <2>1
  <2>3. DOMAIN b["text"].list = {1} /\ b["text"].list[1] = "verbosity"
    BY <2>2, NamedValued
  <2>4. QED BY <2>3 DEF Has
<1>13. QED BY <1>8, <1>9, <1>10, <1>11, <1>12 DEF Fit, b, w

-----------------------------------------------------------------------------
(* The requests                                                             *)

(* What was sent is as CompletedIsCodex says, and the gate's verdict is on  *)
(* the request that arrived, before which nothing is sent.                  *)
ShapeInv ==
  /\ verdict \notin {"none", "refused"} => request \in Requests /\ verdict = Gate(request)
  /\ request = None => sent = None
  /\ CompletedIsCodex

LEMMA ShapeInvInit == ShapeInit => ShapeInv
  BY DEF ShapeInit, ShapeInv, CompletedIsCodex

LEMMA ShapeInvStep == ShapeInv /\ [ShapeNext]_shapeVars => ShapeInv'
<1> SUFFICES ASSUME ShapeInv, [ShapeNext]_shapeVars
             PROVE  ShapeInv'
  OBVIOUS
<1>1. ASSUME request = None, NEW r \in Requests, Arrives(r)
      PROVE  ShapeInv'
  BY <1>1, RequestAssumption DEF Arrives, ShapeInv, CompletedIsCodex
<1>2. ASSUME NEW account \in {"codex", "responses", "chat"}, Attempts(account)
      PROVE  ShapeInv'
  <2> DEFINE w == Prepared(request)
             wire == IF request.chat /\ account # "chat" THEN Bridged(w) ELSE w
             shape == IF account = "codex" THEN verdict ELSE "relayed"
  <2>1. request \in Requests /\ verdict = Gate(request)
    BY <1>2 DEF Attempts, ShapeInv
  <2>2. sent'.shape = shape /\ (shape = "foreign" => sent'.payload = Complete(Normalize(wire)))
    BY <1>2 DEF Attempts
  <2>3. ASSUME shape = "foreign", ~ FileWrapped(request)
        PROVE  Fit(wire)
    <3>1. Gate(request) = "foreign" /\ account = "codex"
      BY <2>1, <2>3
    <3>2. CASE request.chat
      BY <2>1, <2>3, <3>1, <3>2, BridgedIsFit
    <3>3. CASE ~ request.chat
      BY <2>1, <2>3, <3>1, <3>3, PreparedIsFit
    <3>4. QED BY <3>2, <3>3
  <2> HIDE DEF wire, shape
  <2>4. UNCHANGED <<request, verdict>> /\ request # None
    BY <1>2, <2>1, RequestAssumption DEF Attempts
  <2>5. CompletedIsCodex'
    BY <2>2, <2>3, <2>4, FitIsCompleted DEF CompletedIsCodex
  <2>6. QED BY <2>4, <2>5 DEF ShapeInv
<1>3. CASE UNCHANGED shapeVars
  BY <1>3 DEF shapeVars, ShapeInv, CompletedIsCodex
<1>4. QED BY <1>1, <1>2, <1>3 DEF ShapeNext

(* Every request an app sends, with any fields, items, parts, tools and     *)
(* options, that the gate lets through is completed into one the native     *)
(* check takes, over Responses and over Chat Completions, in every attempt, *)
(* but for a message of a null type or with a file for its content.         *)
THEOREM CompletedCorrect == ShapeSpec => []CompletedIsCodex
<1>1. ShapeInv => CompletedIsCodex
  BY DEF ShapeInv
<1>2. QED BY <1>1, ShapeInvInit, ShapeInvStep, PTL DEF ShapeSpec

-----------------------------------------------------------------------------
(* Key logins: the calls and their answers                                  *)

Conversation == [calls : Seq(Calls), answered : Nat, linked : BOOLEAN]

\* The log holds every call an open socket may be asked to answer.
Logged == \A t \in Talks : talk[t].linked => Range(Waiting(t)) \subseteq Range(log)

\* What upstream was shown of a call is what the call alone decides.
ShownAlike ==
  \A c \in Calls : answer[c] # "none" =>
    answer[c] = IF c \in Knowable THEN "native" ELSE "unsupported"

CallsInv ==
  /\ log \in Seq(Calls) /\ Len(log) <= LogLimit
  /\ talk \in [Talks -> Conversation]
  /\ \A t \in Talks : talk[t].answered <= Len(talk[t].calls)
  /\ answer \in [Calls -> {"none", "native", "unsupported"}]
  /\ Logged /\ ShownAlike

(* The calls not answered yet are the last of the calls.                    *)
LEMMA WaitingEntries ==
  ASSUME NEW C, NEW s \in Seq(C), NEW n \in 0..Len(s)
  PROVE  /\ SubSeq(s, n + 1, Len(s)) \in Seq(C)
         /\ Range(SubSeq(s, n + 1, Len(s))) = {s[i] : i \in (n + 1)..Len(s)}
         /\ n = Len(s) => SubSeq(s, n + 1, Len(s)) = <<>>
<1> DEFINE w == SubSeq(s, n + 1, Len(s))
<1>1. Len(s) \in Nat /\ DOMAIN s = 1..Len(s)
  BY LenProperties
<1>2. /\ w \in Seq(C) /\ Len(w) = Len(s) - n /\ DOMAIN w = 1..(Len(s) - n)
      /\ \A i \in 1..(Len(s) - n) : w[i] = s[n + i]
  <2>1. \A i \in (n + 1)..Len(s) : s[i] \in C
    BY <1>1, ElementOfSeq
  <2>2. /\ w \in Seq(C)
        /\ Len(w) = IF n + 1 <= Len(s) THEN Len(s) - (n + 1) + 1 ELSE 0
        /\ \A i \in 1..(Len(s) - (n + 1) + 1) : w[i] = s[(n + 1) + i - 1]
    BY <1>1, <2>1, SubSeqProperties
  <2>3. DOMAIN w = 1..Len(w)
    BY <2>2, LenProperties
  <2> HIDE DEF w
  <2>4. n \in Nat /\ n <= Len(s)
    BY <1>1
  <2>5. Len(w) = Len(s) - n
    <3>1. CASE n + 1 <= Len(s)
      BY <1>1, <2>2, <2>4, <3>1
    <3>2. CASE ~ (n + 1 <= Len(s))
      <4>1. Len(w) = 0
        BY <2>2, <3>2
      <4>2. Len(s) = n
        <5> DEFINE length == Len(s)
        <5>1. length \in Nat /\ n \in Nat /\ n <= length /\ ~ (n + 1 <= length)
          BY <1>1, <2>4, <3>2
        <5> HIDE DEF length
        <5>2. length = n
          BY <5>1
        <5>3. QED BY <5>2 DEF length
      <4>3. QED BY <2>4, <4>1, <4>2
    <3>3. QED BY <3>1, <3>2
  <2>6. ASSUME NEW i \in 1..(Len(s) - n)
        PROVE  w[i] = s[n + i]
    <3>1. (n + 1) + i - 1 = n + i /\ i \in 1..(Len(s) - (n + 1) + 1)
      BY <1>1, <2>4
    <3>2. QED BY <2>2, <3>1
  <2>7. QED BY <2>2, <2>3, <2>5, <2>6
<1>3. Range(w) = {s[i] : i \in (n + 1)..Len(s)}
  <2>1. ASSUME NEW i \in (n + 1)..Len(s)
        PROVE  s[i] \in Range(w)
    <3>1. i - n \in 1..(Len(s) - n) /\ n + (i - n) = i
      BY <1>1
    <3>2. w[i - n] = s[i]
      BY <1>2, <3>1
    <3>3. QED BY <1>2, <3>1, <3>2 DEF Range
  <2>2. ASSUME NEW i \in 1..(Len(s) - n)
        PROVE  w[i] \in {s[j] : j \in (n + 1)..Len(s)}
    <3>1. n + i \in (n + 1)..Len(s)
      BY <1>1
    <3>2. QED BY <1>2, <3>1
  <2>3. QED BY <1>2, <2>1, <2>2 DEF Range
<1>4. n = Len(s) => w = <<>>
  BY <1>1, SubSeqEmpty
<1>5. QED BY <1>2, <1>3, <1>4

LEMMA WaitingOf ==
  ASSUME talk \in [Talks -> Conversation], NEW t \in Talks,
         talk[t].answered <= Len(talk[t].calls)
  PROVE  /\ Waiting(t) \in Seq(Calls)
         /\ Range(Waiting(t)) =
              {talk[t].calls[i] : i \in (talk[t].answered + 1)..Len(talk[t].calls)}
<1>1. talk[t].calls \in Seq(Calls) /\ talk[t].answered \in 0..Len(talk[t].calls)
  BY DEF Conversation
<1>2. QED BY <1>1, WaitingEntries DEF Waiting

(* The log keeps its length; what it forgets is its oldest call, and that   *)
(* only when it is full.                                                    *)
LEMMA RememberedEntries ==
  ASSUME log \in Seq(Calls), Len(log) <= LogLimit, NEW c \in Calls
  PROVE  /\ Remembered(c) \in Seq(Calls) /\ Len(Remembered(c)) <= LogLimit
         /\ c \in Range(Remembered(c))
         /\ \A i \in 1..Len(log) : log[i] \notin Range(Remembered(c)) =>
              i = 1 /\ Len(log) = LogLimit
<1>1. /\ LogLimit \in Nat /\ LogLimit >= 1
      /\ Len(log) \in Nat /\ DOMAIN log = 1..Len(log)
  BY KeyLoginAssumption, LenProperties
<1>2. CASE Contains(log, c)
  <2>1. Remembered(c) = log
    <3>1. ~ Len(log) > LogLimit
      BY <1>1
    <3>2. QED BY <1>2, <3>1 DEF Remembered
  <2>2. QED BY <1>1, <1>2, <2>1 DEF Contains, Range
<1>3. CASE ~ Contains(log, c)
  <2> DEFINE order == Append(log, c)
  <2>1. /\ order \in Seq(Calls) /\ Len(order) = Len(log) + 1
        /\ \A i \in 1..Len(log) : order[i] = log[i]
        /\ order[Len(log) + 1] = c /\ DOMAIN order = 1..(Len(log) + 1)
    BY <1>1, AppendProperties
  <2>2. CASE Len(log) < LogLimit
    <3>1. ~ Len(order) > LogLimit
      BY <1>1, <2>1, <2>2
    <3>2. Remembered(c) = order
      BY <1>3, <3>1 DEF Remembered
    <3>3. Len(order) <= LogLimit /\ c \in Range(order)
            /\ \A i \in 1..Len(log) : log[i] \in Range(order)
      <4> HIDE DEF order
      <4>1. QED BY <1>1, <2>1, <2>2 DEF Range
    <3>4. QED BY <2>1, <3>2, <3>3
  <2>3. CASE Len(log) = LogLimit
    <3>1. Remembered(c) = Tail(order)
      <4>1. Len(order) > LogLimit
        BY <1>1, <2>1, <2>3
      <4>2. QED BY <1>3, <4>1 DEF Remembered
    <3>2. /\ Tail(order) \in Seq(Calls) /\ Len(Tail(order)) = Len(log)
          /\ DOMAIN Tail(order) = 1..Len(log)
          /\ \A i \in 1..Len(log) : Tail(order)[i] = order[i + 1]
      <4>1. order # <<>>
        BY <2>1
      <4>2. Tail(order) \in Seq(Calls) /\ Len(Tail(order)) = Len(order) - 1
              /\ \A i \in 1..Len(Tail(order)) : Tail(order)[i] = order[i + 1]
        BY <2>1, <4>1, HeadTailProperties
      <4>3. QED BY <1>1, <2>1, <4>2, LenProperties
    <3>3. c \in Range(Tail(order))
      <4> DEFINE left == Tail(order)
      <4>1. /\ DOMAIN left = 1..Len(log) /\ left[Len(log)] = order[Len(log) + 1]
            /\ Len(log) \in 1..Len(log)
        BY <1>1, <2>3, <3>2
      <4> HIDE DEF left
      <4>2. left[Len(log)] = c
        BY <2>1, <4>1
      <4>3. c \in Range(left)
        BY <4>1, <4>2 DEF Range
      <4>4. QED BY <4>3 DEF left
    <3>4. ASSUME NEW i \in 1..Len(log), i # 1
          PROVE  log[i] \in Range(Tail(order))
      <4>1. i - 1 \in 1..Len(log) /\ (i - 1) + 1 = i
        BY <1>1, <3>4
      <4>2. Tail(order)[i - 1] = log[i]
        BY <2>1, <3>2, <4>1
      <4>3. QED BY <3>2, <4>1, <4>2 DEF Range
    <3>5. Len(Tail(order)) <= LogLimit
      BY <1>1, <2>3, <3>2
    <3>6. QED BY <2>3, <3>1, <3>2, <3>3, <3>4, <3>5
  <2>4. Len(log) < LogLimit \/ Len(log) = LogLimit
    <3> DEFINE length == Len(log)
    <3>1. length \in Nat /\ length <= LogLimit /\ LogLimit \in Nat
      BY <1>1
    <3> HIDE DEF length
    <3>2. length < LogLimit \/ length = LogLimit
      BY <3>1
    <3>3. QED BY <3>2 DEF length
  <2>5. QED BY <2>2, <2>3, <2>4
<1>4. QED BY <1>2, <1>3

LEMMA CallsInvInit == LoginInit => CallsInv
<1> SUFFICES ASSUME LoginInit
             PROVE  CallsInv
  OBVIOUS
<1>1. log \in Seq(Calls) /\ Len(log) = 0
  BY EmptySeq DEF LoginInit
<1>2. talk \in [Talks -> Conversation] /\ \A t \in Talks : talk[t].answered = 0
  BY EmptySeq DEF LoginInit, Conversation
<1>3. \A t \in Talks : talk[t].answered <= Len(talk[t].calls)
  BY <1>2, LenProperties DEF Conversation
<1>4. Len(log) <= LogLimit
  BY <1>1, KeyLoginAssumption
<1>5. Logged /\ ShownAlike
  BY <1>2 DEF LoginInit, Logged, ShownAlike
<1>6. answer \in [Calls -> {"none", "native", "unsupported"}]
  BY DEF LoginInit
<1>7. QED BY <1>1, <1>2, <1>3, <1>4, <1>5, <1>6 DEF CallsInv

(* A call goes to the log before an open socket is told of it, and the      *)
(* answers still awaited are not what the log forgets.                      *)
LEMMA UpstreamCallsKeeps ==
  ASSUME CallsInv, NEW t \in Talks, NEW c \in Calls, UpstreamCalls(t, c)
  PROVE  CallsInv'
<1> DEFINE calls == talk[t].calls
<1>1. /\ calls \in Seq(Calls) /\ Len(calls) \in Nat
      /\ talk[t].answered \in 0..Len(calls)
  BY LenProperties DEF CallsInv, Conversation
<1>2. /\ Append(calls, c) \in Seq(Calls) /\ Len(Append(calls, c)) = Len(calls) + 1
      /\ \A i \in 1..Len(calls) : Append(calls, c)[i] = calls[i]
      /\ Append(calls, c)[Len(calls) + 1] = c
  BY <1>1, AppendProperties
<1>3. /\ talk' \in [Talks -> Conversation]
      /\ talk'[t].calls = Append(calls, c)
      /\ \A u \in Talks : talk'[u].answered = talk[u].answered /\ talk'[u].linked = talk[u].linked
      /\ \A u \in Talks \ {t} : talk'[u] = talk[u]
  BY <1>2 DEF CallsInv, Conversation, UpstreamCalls
<1>4. \A u \in Talks : talk'[u].answered <= Len(talk'[u].calls)
  BY <1>1, <1>2, <1>3 DEF CallsInv
<1>5. log' \in Seq(Calls) /\ Len(log') <= LogLimit
  BY RememberedEntries DEF CallsInv, UpstreamCalls
<1>6. ASSUME NEW u \in Talks, talk'[u].linked
      PROVE  Range(Waiting(u)') \subseteq Range(log')
  <2>1. talk[u].linked /\ Range(Waiting(u)) \subseteq Range(log)
    BY <1>3, <1>6 DEF CallsInv, Logged
  <2>2. Range(Waiting(u)) \subseteq Range(log')
    <3>1. CASE talk[t].linked
      <4>1. Timely /\ log' = Remembered(c)
        BY <3>1 DEF UpstreamCalls
      <4>2. SUFFICES ASSUME NEW i \in 1..Len(log), log[i] \in Range(Waiting(u))
                     PROVE  log[i] \in Range(log')
        BY <2>1, LenProperties DEF CallsInv, Range
      <4>3. Len(log) - i + 1 < LogLimit /\ Len(log) \in Nat
        BY <4>1, <4>2, LenProperties DEF CallsInv, Timely
      <4>4. QED BY <4>1, <4>3, RememberedEntries, KeyLoginAssumption DEF CallsInv
    <3>2. CASE ~ talk[t].linked
      BY <2>1, <3>2 DEF UpstreamCalls
    <3>3. QED BY <3>1, <3>2
  <2>3. CASE u # t
    BY <1>3, <2>2, <2>3 DEF Waiting
  <2>4. CASE u = t
    <3>1. Waiting(t)' = SubSeq(Append(calls, c), talk[t].answered + 1, Len(calls) + 1)
      BY <1>2, <1>3 DEF Waiting
    <3>2. Range(Waiting(t)') =
            {Append(calls, c)[i] : i \in (talk[t].answered + 1)..(Len(calls) + 1)}
      <4> DEFINE more == Append(calls, c)
      <4>1. more \in Seq(Calls) /\ Len(more) = Len(calls) + 1
              /\ talk[t].answered \in 0..Len(more)
        BY <1>1, <1>2
      <4> HIDE DEF more
      <4>2. Range(SubSeq(more, talk[t].answered + 1, Len(more)))
              = {more[i] : i \in (talk[t].answered + 1)..Len(more)}
        BY <4>1, WaitingEntries
      <4>3. Waiting(t)' = SubSeq(more, talk[t].answered + 1, Len(more))
        BY <3>1, <4>1 DEF more
      <4>4. QED BY <4>1, <4>2, <4>3 DEF more
    <3>3. Range(Waiting(t)) = {calls[i] : i \in (talk[t].answered + 1)..Len(calls)}
      BY <1>1, WaitingOf DEF CallsInv
    <3>4. ASSUME NEW i \in (talk[t].answered + 1)..(Len(calls) + 1)
          PROVE  Append(calls, c)[i] \in Range(Waiting(t)) \cup {c}
      <4>1. i = Len(calls) + 1 \/ i \in (talk[t].answered + 1)..Len(calls)
        BY <1>1
      <4>2. i \in (talk[t].answered + 1)..Len(calls) => i \in 1..Len(calls)
        BY <1>1
      <4>3. QED BY <1>2, <3>3, <4>1, <4>2
    <3>5. c \in Range(log')
      BY <2>1, <2>4, RememberedEntries DEF CallsInv, UpstreamCalls
    <3>6. QED BY <2>2, <2>4, <3>2, <3>4, <3>5
  <2>5. QED BY <2>3, <2>4
<1>7. Logged'
  BY <1>6 DEF Logged
<1>8. answer' = answer
  BY DEF UpstreamCalls
<1>9. QED BY <1>3, <1>4, <1>5, <1>7, <1>8 DEF CallsInv, ShownAlike

(* An answer is shown by what the call decides: the call is in the same     *)
(* input, or the log still holds it.                                        *)
LEMMA AnswerShown ==
  ASSUME CallsInv, NEW t \in Talks, NEW socket \in BOOLEAN, Answers(t, socket)
  PROVE  \A c \in Calls :
           \/ answer'[c] = answer[c]
           \/ answer'[c] = IF c \in Knowable THEN "native" ELSE "unsupported"
<1> DEFINE increment == socket /\ talk[t].linked
           calls == Range(IF increment THEN Waiting(t) ELSE talk[t].calls)
           input == IF increment THEN {} ELSE calls
<1>1. answer' = [c \in Calls |-> IF c \in calls THEN Shown(c, input) ELSE answer[c]]
  BY DEF Answers
<1>2. ASSUME NEW c \in calls
      PROVE  c \in input \/ Contains(log, c)
  <2>1. CASE increment
    <3>1. c \in Range(log)
      BY <2>1 DEF CallsInv, Logged
    <3>2. QED BY <3>1, LenProperties DEF CallsInv, Range, Contains
  <2>2. CASE ~ increment
    BY <2>2
  <2>3. QED BY <2>1, <2>2
<1>3. QED BY <1>1, <1>2 DEF Shown

LEMMA AnswersKeeps ==
  ASSUME CallsInv, NEW t \in Talks, NEW socket \in BOOLEAN, Answers(t, socket)
  PROVE  CallsInv'
<1>1. answer' \in [Calls -> {"none", "native", "unsupported"}]
  <2>1. \A c \in Calls : answer'[c] \in {"none", "native", "unsupported"}
    BY AnswerShown DEF CallsInv
  <2>2. \E f : answer' = [c \in Calls |-> f[c]]
    BY DEF Answers
  <2>3. QED BY <2>1, <2>2
<1>2. ShownAlike'
  BY AnswerShown DEF CallsInv, ShownAlike
<1>3. /\ talk' \in [Talks -> Conversation]
      /\ \A u \in Talks \ {t} : talk'[u] = talk[u]
      /\ talk'[t].calls = talk[t].calls /\ talk'[t].answered = Len(talk[t].calls)
  BY LenProperties DEF CallsInv, Conversation, Answers
<1>4. \A u \in Talks : talk'[u].answered <= Len(talk'[u].calls)
  <2>1. Len(talk[t].calls) \in Nat
    BY LenProperties DEF CallsInv, Conversation
  <2>2. talk'[t].answered <= Len(talk'[t].calls)
    BY <1>3, <2>1
  <2>3. QED BY <1>3, <2>2 DEF CallsInv
<1>5. Range(Waiting(t)') = {}
  <2>1. talk[t].calls \in Seq(Calls) /\ Len(talk[t].calls) \in 0..Len(talk[t].calls)
    BY LenProperties DEF CallsInv, Conversation
  <2>2. Waiting(t)' = SubSeq(talk[t].calls, Len(talk[t].calls) + 1, Len(talk[t].calls))
    BY <1>3 DEF Waiting
  <2>3. QED BY <2>1, <2>2, WaitingEntries DEF Range
<1>6. log' = log
  BY DEF Answers
<1>7. \A u \in Talks \ {t} : Waiting(u)' = Waiting(u)
  BY <1>3 DEF Waiting
<1>8. Logged'
  BY <1>3, <1>5, <1>6, <1>7 DEF CallsInv, Logged
<1>9. QED BY <1>1, <1>2, <1>3, <1>4, <1>6, <1>8 DEF CallsInv

LEMMA CallsInvStep == CallsInv /\ [ToolsNext \/ CallsNext]_loginVars => CallsInv'
<1> SUFFICES ASSUME CallsInv, [ToolsNext \/ CallsNext]_loginVars
             PROVE  CallsInv'
  OBVIOUS
<1>1. CASE UNCHANGED <<log, talk, answer>>
  BY <1>1 DEF CallsInv, Logged, ShownAlike, Waiting
<1>2. CASE ToolsNext
  BY <1>1, <1>2 DEF ToolsNext, CatalogServed, Offers
<1>3. CASE Restarts
  <2>1. /\ log' \in Seq(Calls) /\ Len(log') = 0
        /\ talk' \in [Talks -> Conversation] /\ \A t \in Talks : ~ talk'[t].linked
        /\ \A t \in Talks : talk'[t].answered = talk[t].answered
                              /\ talk'[t].calls = talk[t].calls
    BY <1>3, EmptySeq DEF CallsInv, Restarts, Conversation
  <2>2. QED BY <1>3, <2>1, KeyLoginAssumption DEF CallsInv, Logged, ShownAlike, Restarts
<1>4. ASSUME NEW t \in Talks, SocketEnds(t)
      PROVE  CallsInv'
  <2>1. /\ talk' \in [Talks -> Conversation]
        /\ \A u \in Talks : /\ talk'[u].linked => talk[u].linked
                            /\ talk'[u].answered = talk[u].answered
                            /\ talk'[u].calls = talk[u].calls
    BY <1>4 DEF CallsInv, SocketEnds, Conversation
  <2>2. \A u \in Talks : Waiting(u)' = Waiting(u)
    BY <2>1 DEF Waiting
  <2>3. QED BY <1>4, <2>1, <2>2 DEF CallsInv, Logged, ShownAlike, SocketEnds
<1>5. CASE UNCHANGED loginVars
  BY <1>1, <1>5 DEF loginVars
<1>6. QED BY <1>2, <1>3, <1>4, <1>5, UpstreamCallsKeeps, AnswersKeeps DEF CallsNext

LEMMA StandStep ==
  CallsInv /\ CallsInv' /\ [ToolsNext \/ CallsNext]_loginVars =>
    [\A c \in Calls : answer[c] # "none" => answer'[c] = answer[c]]_loginVars
<1> SUFFICES ASSUME CallsInv, [ToolsNext \/ CallsNext]_loginVars,
                    NEW c \in Calls, answer[c] # "none"
             PROVE  answer'[c] = answer[c]
  OBVIOUS
<1>1. ASSUME NEW t \in Talks, NEW socket \in BOOLEAN, Answers(t, socket)
      PROVE  answer'[c] = answer[c]
  BY <1>1, AnswerShown DEF CallsInv, ShownAlike
<1>2. QED BY <1>1 DEF ToolsNext, CatalogServed, Offers, CallsNext, Restarts, SocketEnds,
                      UpstreamCalls, loginVars

(* Whatever the sockets, the restarts and the other conversations do, an    *)
(* answer upstream has seen is shown the same way again.                    *)
THEOREM AnswersAlike == LoginSpec => AnswersStand
<1>1. CallsInv /\ [ToolsNext \/ CallsNext]_loginVars => CallsInv'
  BY CallsInvStep
<1>2. CallsInv /\ CallsInv' /\ [ToolsNext \/ CallsNext]_loginVars =>
        [\A c \in Calls : answer[c] # "none" => answer'[c] = answer[c]]_loginVars
  BY StandStep
<1>3. QED BY CallsInvInit, <1>1, <1>2, PTL DEF LoginSpec, AnswersStand

-----------------------------------------------------------------------------
(* Key logins: the tools                                                    *)

Tools == Shell \cup Helpers \cup Plain \cup Afterwards \cup {"image_gen"}

LEMMA MaxIs ==
  ASSUME NEW S, NEW m \in S, \A n \in S : n \in Int /\ m >= n
  PROVE  Max(S) = m
BY DEF Max

LEMMA MinIs ==
  ASSUME NEW S, NEW m \in S, \A n \in S : n \in Int /\ m <= n
  PROVE  Min(S) = m
BY DEF Min

LEMMA OneEntry ==
  ASSUME NEW S, NEW e \in S
  PROVE  <<e>> \in Seq(S) /\ Len(<<e>>) = 1 /\ \A i \in 1..Len(<<e>>) : <<e>>[i] = e
OBVIOUS

(* A concatenation taken apart again.                                       *)
Parts(s, t) ==
  /\ SubSeq(s \o t, 1, Len(s)) = s
  /\ SubSeq(s \o t, Len(s) + 1, Len(s \o t)) = t

LEMMA Parted ==
  ASSUME NEW S, NEW s \in Seq(S), NEW t \in Seq(S)
  PROVE  Parts(s, t)
<1> DEFINE u == s \o t
           front == SubSeq(u, 1, Len(s))
           back == SubSeq(u, Len(s) + 1, Len(u))
<1>1. Len(s) \in Nat /\ Len(t) \in Nat
  BY LenProperties
<1>2. /\ u \in Seq(S) /\ Len(u) = Len(s) + Len(t)
      /\ \A i \in 1..(Len(s) + Len(t)) : u[i] = IF i <= Len(s) THEN s[i] ELSE t[i - Len(s)]
  BY ConcatProperties
<1>3. \A i \in 1..Len(u) : u[i] \in S
  BY <1>2, ElementOfSeq
<1> HIDE DEF u
<1>4. /\ front \in Seq(S) /\ Len(front) = IF 1 <= Len(s) THEN Len(s) - 1 + 1 ELSE 0
      /\ \A i \in 1..(Len(s) - 1 + 1) : front[i] = u[1 + i - 1]
  <2>1. \A i \in 1..Len(s) : u[i] \in S
    BY <1>1, <1>2, <1>3
  <2>2. QED BY <1>1, <2>1, SubSeqProperties
<1>5. /\ back \in Seq(S)
      /\ Len(back) = IF Len(s) + 1 <= Len(u) THEN Len(u) - (Len(s) + 1) + 1 ELSE 0
      /\ \A i \in 1..(Len(u) - (Len(s) + 1) + 1) : back[i] = u[(Len(s) + 1) + i - 1]
  <2>1. \A i \in (Len(s) + 1)..Len(u) : u[i] \in S
    BY <1>1, <1>2, <1>3
  <2>2. Len(u) \in Int /\ Len(s) + 1 \in Int
    BY <1>1, <1>2
  <2>3. QED BY <2>1, <2>2, SubSeqProperties
<1> HIDE DEF front, back
<1>6. front = s
  <2>1. Len(front) = Len(s)
    BY <1>1, <1>4
  <2>2. ASSUME NEW i \in 1..Len(s)
        PROVE  front[i] = s[i]
    BY <1>1, <1>2, <1>4
  <2>3. QED BY <1>4, <2>1, <2>2, SeqEqual
<1>7. back = t
  <2>1. Len(back) = Len(t)
    BY <1>1, <1>2, <1>5
  <2>2. ASSUME NEW i \in 1..Len(t)
        PROVE  back[i] = t[i]
    <3>1. i \in 1..(Len(u) - (Len(s) + 1) + 1) /\ (Len(s) + 1) + i - 1 = Len(s) + i
      BY <1>1, <1>2
    <3>2. /\ Len(s) + i \in 1..(Len(s) + Len(t)) /\ ~ (Len(s) + i <= Len(s))
          /\ Len(s) + i - Len(s) = i
      BY <1>1
    <3>3. back[i] = u[Len(s) + i]
      BY <1>5, <3>1
    <3>4. u[Len(s) + i] = t[i]
      BY <1>2, <3>2
    <3>5. QED BY <3>3, <3>4
  <2>3. QED BY <1>5, <2>1, <2>2, SeqEqual
<1>8. QED BY <1>6, <1>7 DEF u, front, back, Parts

Assoc(s, t, u) == s \o t \o u = s \o (t \o u)

LEMMA Associates ==
  ASSUME NEW S, NEW s \in Seq(S), NEW t \in Seq(S), NEW u \in Seq(S)
  PROVE  Assoc(s, t, u)
BY ConcatAssociative DEF Assoc

Regroups(s, t, u, v, x) == s \o t \o u \o v \o x = s \o (t \o u \o v \o x)

LEMMA Regrouped ==
  ASSUME NEW S, NEW s \in Seq(S), NEW t \in Seq(S), NEW u \in Seq(S), NEW v \in Seq(S),
         NEW x \in Seq(S)
  PROVE  Regroups(s, t, u, v, x)
<1>1. t \o u \in Seq(S) /\ t \o u \o v \in Seq(S)
  <2>1. t \o u \in Seq(S)
    BY ConcatProperties
  <2>2. QED BY <2>1, ConcatProperties
<1>2. s \o t \o u = s \o (t \o u)
  <2>1. Assoc(s, t, u)
    BY Zenon, Associates
  <2>2. QED BY Zenon, <2>1 DEF Assoc
<1>3. s \o (t \o u) \o v = s \o (t \o u \o v)
  <2> DEFINE y == t \o u
  <2>1. y \in Seq(S)
    BY <1>1
  <2> HIDE DEF y
  <2>2. Assoc(s, y, v)
    BY Zenon, <2>1, Associates
  <2>3. QED BY Zenon, <2>2 DEF Assoc, y
<1>4. s \o (t \o u \o v) \o x = s \o (t \o u \o v \o x)
  <2> DEFINE y == t \o u \o v
  <2>1. y \in Seq(S)
    BY <1>1
  <2> HIDE DEF y
  <2>2. Assoc(s, y, x)
    BY Zenon, <2>1, Associates
  <2>3. QED BY Zenon, <2>2 DEF Assoc, y
<1>5. QED BY <1>2, <1>3, <1>4 DEF Regroups

(* Where the entries of two lists one after the other are, and of four.     *)
LEMMA TwoLists ==
  ASSUME NEW S, NEW s \in Seq(S), NEW t \in Seq(S)
  PROVE  /\ s \o t \in Seq(S) /\ Len(s) \in Nat /\ Len(t) \in Nat
         /\ Len(s \o t) = Len(s) + Len(t)
         /\ \A i \in 1..Len(s) : (s \o t)[i] = s[i]
         /\ \A i \in (Len(s) + 1)..(Len(s) + Len(t)) :
              i - Len(s) \in 1..Len(t) /\ (s \o t)[i] = t[i - Len(s)]
<1> DEFINE w == s \o t
           m == Len(s)
           n == Len(t)
<1>1. /\ w \in Seq(S) /\ Len(w) = m + n /\ m \in Nat /\ n \in Nat
      /\ \A i \in 1..(m + n) : w[i] = IF i <= m THEN s[i] ELSE t[i - m]
  BY ConcatProperties, LenProperties
<1> HIDE DEF w, m, n
<1>2. \A i \in 1..m : w[i] = s[i]
  BY <1>1
<1>3. ASSUME NEW i \in (m + 1)..(m + n)
      PROVE  i - m \in 1..n /\ w[i] = t[i - m]
  <2>1. i \in 1..(m + n) /\ ~ (i <= m) /\ i - m \in 1..n
    BY <1>1
  <2>2. QED BY <1>1, <2>1
<1>4. QED BY <1>1, <1>2, <1>3 DEF w, m, n

FourAt(s, t, u, v, a, b, c, d) ==
  /\ a = Len(s) /\ b = a + Len(t) /\ c = b + Len(u) /\ d = c + Len(v)
  /\ a \in Nat /\ b \in Nat /\ c \in Nat /\ d \in Nat
  /\ Len(t) \in Nat /\ Len(u) \in Nat /\ Len(v) \in Nat
  /\ Len(s \o t \o u) = c
  /\ Len(s \o t \o u \o v) = d
  /\ \A i \in 1..a : (s \o t \o u \o v)[i] = s[i]
  /\ \A i \in (a + 1)..b : i - a \in 1..Len(t) /\ (s \o t \o u \o v)[i] = t[i - a]
  /\ \A i \in (b + 1)..c : i - b \in 1..Len(u) /\ (s \o t \o u \o v)[i] = u[i - b]
  /\ \A i \in (c + 1)..d : i - c \in 1..Len(v) /\ (s \o t \o u \o v)[i] = v[i - c]

LEMMA FourLists ==
  ASSUME NEW S, NEW s \in Seq(S), NEW t \in Seq(S), NEW u \in Seq(S), NEW v \in Seq(S)
  PROVE  FourAt(s, t, u, v, Len(s), Len(s) + Len(t), Len(s) + Len(t) + Len(u),
                Len(s) + Len(t) + Len(u) + Len(v))
<1> DEFINE p == s \o t
           q == p \o u
           w == q \o v
           a == Len(s)
           b == a + Len(t)
           c == b + Len(u)
           d == c + Len(v)
<1>1. /\ p \in Seq(S) /\ a \in Nat /\ Len(t) \in Nat /\ Len(p) = b
      /\ \A i \in 1..a : p[i] = s[i]
      /\ \A i \in (a + 1)..b : i - a \in 1..Len(t) /\ p[i] = t[i - a]
  BY TwoLists
<1>2. b \in Nat
  BY <1>1
<1> HIDE DEF p, a, b
<1>3. /\ q \in Seq(S) /\ Len(u) \in Nat /\ Len(q) = c
      /\ \A i \in 1..b : q[i] = p[i]
      /\ \A i \in (b + 1)..c : i - b \in 1..Len(u) /\ q[i] = u[i - b]
  <2>1. p \in Seq(S)
    BY <1>1
  <2>2. /\ q \in Seq(S) /\ Len(u) \in Nat /\ Len(q) = Len(p) + Len(u)
        /\ \A i \in 1..Len(p) : q[i] = p[i]
        /\ \A i \in (Len(p) + 1)..(Len(p) + Len(u)) :
             i - Len(p) \in 1..Len(u) /\ q[i] = u[i - Len(p)]
    BY <2>1, TwoLists
  <2>3. Len(p) = b
    BY <1>1
  <2> HIDE DEF q
  <2>4. QED BY <2>2, <2>3
<1>4. c \in Nat
  BY <1>2, <1>3
<1> HIDE DEF q, c
<1>5. /\ w \in Seq(S) /\ Len(v) \in Nat /\ Len(w) = d
      /\ \A i \in 1..c : w[i] = q[i]
      /\ \A i \in (c + 1)..d : i - c \in 1..Len(v) /\ w[i] = v[i - c]
  <2>1. q \in Seq(S)
    BY <1>3
  <2>2. /\ w \in Seq(S) /\ Len(v) \in Nat /\ Len(w) = Len(q) + Len(v)
        /\ \A i \in 1..Len(q) : w[i] = q[i]
        /\ \A i \in (Len(q) + 1)..(Len(q) + Len(v)) :
             i - Len(q) \in 1..Len(v) /\ w[i] = v[i - Len(q)]
    BY <2>1, TwoLists
  <2>3. Len(q) = c
    BY <1>3
  <2> HIDE DEF w
  <2>4. QED BY <2>2, <2>3
<1>6. d \in Nat
  BY <1>4, <1>5
<1> HIDE DEF w, d
<1>7. a <= b /\ b <= c
  BY <1>1, <1>2, <1>3, <1>4 DEF b, c
<1>8. /\ \A i \in 1..a : i \in 1..b /\ i \in 1..c
      /\ \A i \in (a + 1)..b : i \in 1..b /\ i \in 1..c
      /\ \A i \in (b + 1)..c : i \in 1..c
  BY <1>1, <1>2, <1>4, <1>7
<1>9. \A i \in 1..a : w[i] = s[i]
  BY <1>1, <1>3, <1>5, <1>8
<1>10. \A i \in (a + 1)..b : i - a \in 1..Len(t) /\ w[i] = t[i - a]
  BY <1>1, <1>3, <1>5, <1>8
<1>11. \A i \in (b + 1)..c : i - b \in 1..Len(u) /\ w[i] = u[i - b]
  BY <1>3, <1>5, <1>8
<1>12. /\ a = Len(s) /\ b = a + Len(t) /\ c = b + Len(u) /\ d = c + Len(v)
       /\ q = s \o t \o u /\ w = s \o t \o u \o v
  BY DEF a, b, c, d, p, q, w
<1>13. a \in Nat
  BY <1>1
<1>14. /\ Len(t) \in Nat /\ Len(u) \in Nat /\ Len(v) \in Nat
       /\ Len(q) = c /\ Len(w) = d
  BY <1>1, <1>3, <1>5
<1>15. FourAt(s, t, u, v, a, b, c, d)
  BY <1>2, <1>4, <1>5, <1>6, <1>9, <1>10, <1>11, <1>12, <1>13, <1>14 DEF FourAt
<1>16. QED BY <1>15 DEF a, b, c, d

(* Tools in Codex's order are completed in Codex's order: what is missing   *)
(* of the helpers after the shell, of the images before the searches.       *)
InOrder(shell, own, middle, last, facts, free) ==
  LET added == IF own # <<>> THEN <<>> ELSE ResourceHelpers(facts)
  IN  Completed(shell \o own \o middle \o last, facts, free) =
        shell \o added \o (own \o middle \o Images(facts, free) \o last)

LEMMA CompletedInOrder ==
  ASSUME NEW shell \in Seq(Tools), NEW own \in Seq(Tools), NEW middle \in Seq(Tools),
         NEW last \in Seq(Tools),
         \A i \in 1..Len(shell) : shell[i] \in Shell,
         \A i \in 1..Len(own) : own[i] \in Helpers,
         \A i \in 1..Len(middle) : middle[i] \in Plain,
         \A i \in 1..Len(last) : last[i] \in Plain \cup Afterwards,
         middle # <<>> => middle[1] \notin Shell,
         last # <<>> => last[1] \in Afterwards,
         NEW facts, NEW free, Images(facts, free) \in Seq(Tools)
  PROVE  InOrder(shell, own, middle, last, facts, free)
<1> DEFINE front == shell \o own \o middle
           tools == front \o last
           drawn == Images(facts, free)
           added == IF own # <<>> THEN <<>> ELSE ResourceHelpers(facts)
           rest == own \o middle \o drawn \o last
           lead == {n \in 0..Len(tools) : \A i \in 1..n : tools[i] \in Shell}
           after == {i \in DOMAIN tools : tools[i] \in Afterwards}
           Listed(names) == \E i \in DOMAIN tools : tools[i] \in names
           image == IF after = {} THEN Len(tools) ELSE Min(after) - 1
           pictured == SubSeq(tools, 1, image) \o drawn \o SubSeq(tools, image + 1, Len(tools))
           a == Len(shell)
           b == Len(shell) + Len(own)
           c == Len(shell) + Len(own) + Len(middle)
           d == Len(shell) + Len(own) + Len(middle) + Len(last)
<1>1. drawn \in Seq(Tools)
  OBVIOUS
<1> HIDE DEF drawn
<1>20. FourAt(shell, own, middle, last, a, b, c, d)
  BY FourLists
<1> HIDE DEF a, b, c, d
<1>2. /\ a = Len(shell) /\ b = a + Len(own) /\ c = b + Len(middle) /\ d = c + Len(last)
      /\ a \in Nat /\ b \in Nat /\ c \in Nat /\ d \in Nat
      /\ Len(own) \in Nat /\ Len(middle) \in Nat /\ Len(last) \in Nat
      /\ Len(front) = c /\ Len(tools) = d
      /\ \A i \in 1..a : tools[i] = shell[i]
      /\ \A i \in (a + 1)..b : i - a \in 1..Len(own) /\ tools[i] = own[i - a]
      /\ \A i \in (b + 1)..c : i - b \in 1..Len(middle) /\ tools[i] = middle[i - b]
      /\ \A i \in (c + 1)..d : i - c \in 1..Len(last) /\ tools[i] = last[i - c]
  BY <1>20 DEF FourAt
<1>3. a <= b /\ b <= c /\ c <= d
  BY <1>2
<1>5. front \in Seq(Tools) /\ rest \in Seq(Tools)
  <2>1. front \in Seq(Tools)
    <3>1. shell \o own \in Seq(Tools)
      BY ConcatProperties
    <3>2. QED BY <3>1, ConcatProperties
  <2>2. rest \in Seq(Tools)
    <3>1. own \o middle \in Seq(Tools)
      BY ConcatProperties
    <3>2. own \o middle \o drawn \in Seq(Tools)
      BY <1>1, <3>1, ConcatProperties
    <3>3. QED BY <3>2, ConcatProperties
  <2>3. QED BY <2>1, <2>2
<1>4. DOMAIN tools = 1..d
  <2>1. tools \in Seq(Tools)
    BY <1>5, ConcatProperties
  <2>2. QED BY <1>2, <2>1, LenProperties
<1> HIDE DEF tools
<1>6. /\ \A i \in 1..a : tools[i] \in Shell
      /\ \A i \in (a + 1)..b : tools[i] \in Helpers
      /\ \A i \in (b + 1)..c : tools[i] \in Plain
      /\ \A i \in (c + 1)..d : tools[i] \in Plain \cup Afterwards
  <2>1. \A i \in 1..a : tools[i] \in Shell
    BY <1>2, <1>3
  <2>2. \A i \in (a + 1)..b : tools[i] \in Helpers
    BY <1>2, <1>3
  <2>3. \A i \in (b + 1)..c : tools[i] \in Plain
    BY <1>2, <1>3
  <2>4. \A i \in (c + 1)..d : tools[i] \in Plain \cup Afterwards
    BY <1>2, <1>3
  <2>5. QED BY <2>1, <2>2, <2>3, <2>4
<1>7. \A i \in 1..d : i \in 1..a \/ i \in (a + 1)..b \/ i \in (b + 1)..c \/ i \in (c + 1)..d
  BY <1>2, <1>3
<1>8. last = <<>> \/ (c + 1 \in (c + 1)..d /\ tools[c + 1] \in Afterwards)
  <2>1. CASE last # <<>>
    <3>1. Len(last) >= 1
      BY <2>1, <1>2, EmptySeq
    <3>2. c + 1 \in (c + 1)..d /\ (c + 1) - c = 1
      BY <1>2, <1>3, <1>2, <3>1
    <3>3. tools[c + 1] = last[1]
      BY <1>2, <1>3, <3>2
    <3>4. QED BY <2>1, <3>2, <3>3
  <2>2. QED BY <2>1
<1>9. last = <<>> => d = c
  BY <1>2, <1>3, <1>2, EmptySeq
<1>10. image = c
  <2>1. ASSUME NEW i \in after
        PROVE  i \in (c + 1)..d
    <3>1. i \in 1..d /\ tools[i] \in Afterwards
      BY <1>4
    <3>2. tools[i] \notin Shell /\ tools[i] \notin Helpers /\ tools[i] \notin Plain
      BY <3>1 DEF Shell, Helpers, Plain, Afterwards
    <3>3. QED BY <1>6, <1>7, <3>1, <3>2
  <2>2. CASE last = <<>>
    <3>1. after = {}
      BY <2>1, <2>2, <1>2, <1>3, <1>9
    <3>2. QED BY <3>1, <2>2, <1>2, <1>3, <1>9
  <2>3. CASE last # <<>>
    <3>1. c + 1 \in after
      BY <2>3, <1>2, <1>3, <1>4, <1>8
    <3>2. \A i \in after : c + 1 <= i
      BY <2>1, <1>2, <1>3
    <3>3. Min(after) = c + 1
      <4>1. \A i \in after : i \in Int
        BY <2>1
      <4> HIDE DEF after
      <4>2. QED BY <3>1, <3>2, <4>1, MinIs
    <3>4. QED
      <4> HIDE DEF after
      <4>1. QED BY <3>1, <3>3, <1>2, <1>3
  <2>4. QED BY <2>2, <2>3
<1>11. Max(lead) = a
  <2>1. a \in lead
    BY <1>2, <1>3, <1>6
  <2>2. ASSUME NEW n \in lead, n > a
        PROVE  FALSE
    <3>1. n \in 0..d /\ a + 1 \in 1..n /\ a + 1 \in 1..d
      BY <1>2, <1>3, <2>2
    <3>2. tools[a + 1] \in Shell
      BY <3>1
    <3>3. CASE a + 1 \in (a + 1)..b
      BY <1>6, <3>2, <3>3 DEF Shell, Helpers
    <3>4. CASE a + 1 \in (b + 1)..c
      <4>1. a = b /\ (a + 1) - b = 1 /\ 1 \in 1..Len(middle)
        BY <1>2, <1>3, <3>4
      <4>2. tools[a + 1] = middle[1]
        BY <1>2, <1>3, <3>4, <4>1 DEF tools
      <4>3. middle # <<>>
        BY <4>1, <1>2, EmptySeq
      <4>4. QED BY <3>2, <4>2, <4>3
    <3>5. CASE a + 1 \in (c + 1)..d
      <4>1. a = c
        BY <1>2, <1>3, <3>5
      <4>2. d # c
        BY <1>2, <1>3, <3>5
      <4>3. QED BY <1>8, <1>9, <3>2, <4>1, <4>2 DEF Shell, Afterwards
    <3>6. ~ (a + 1 \in 1..a)
      BY <1>2, <1>3
    <3>7. QED BY <1>7, <3>1, <3>3, <3>4, <3>5, <3>6
  <2>3. ASSUME NEW n \in lead
        PROVE  n \in Int /\ a >= n
    <3>1. n \in Int /\ a \in Int
      BY <1>2, <1>3
    <3>2. ~ n > a
      BY <2>2
    <3>3. QED BY <3>1, <3>2
  <2>4. a \in Int
    BY <1>2, <1>3
  <2> HIDE DEF lead
  <2>5. QED BY <2>1, <2>3, <2>4, MaxIs
<1>12. Listed(Helpers) <=> own # <<>>
  <2>1. ASSUME own # <<>>
        PROVE  Listed(Helpers)
    <3>1. Len(own) >= 1
      BY <2>1, <1>2, EmptySeq
    <3>2. a + 1 \in (a + 1)..b /\ a + 1 \in 1..d
      BY <1>2, <1>3, <1>2, <3>1
    <3>3. QED BY <1>4, <1>6, <3>2
  <2>2. ASSUME NEW i \in 1..d, tools[i] \in Helpers
        PROVE  own # <<>>
    <3>1. tools[i] \notin Shell /\ tools[i] \notin Plain /\ tools[i] \notin Afterwards
      BY <2>2 DEF Shell, Helpers, Plain, Afterwards
    <3>2. i \in (a + 1)..b
      BY <1>6, <1>7, <3>1
    <3>3. QED BY <1>2, <1>3, <1>2, <3>2, EmptySeq
  <2>3. QED BY <1>4, <2>1, <2>2
<1>13. ~ Listed({"image_gen"})
  <2>1. SUFFICES ASSUME NEW i \in 1..d, tools[i] = "image_gen"
                 PROVE  FALSE
    BY <1>4
  <2>2. QED BY <1>6, <1>7, <2>1 DEF Shell, Helpers, Plain, Afterwards
<1>14. pictured = front \o drawn \o last
  <2>1. SubSeq(tools, 1, c) = front /\ SubSeq(tools, c + 1, Len(tools)) = last
    <3>1. Parts(front, last)
      BY <1>5, Parted
    <3> HIDE DEF front
    <3>2. QED BY <1>2, <3>1 DEF tools, Parts
  <2>2. QED BY <1>10, <2>1
<1>15. pictured = shell \o rest
  <2>1. Regroups(shell, own, middle, drawn, last)
    BY <1>1, Regrouped
  <2>2. shell \o own \o middle \o drawn \o last = shell \o rest
    BY <2>1 DEF Regroups
  <2> HIDE DEF pictured, rest
  <2>3. QED BY <1>14, <2>2
<1> HIDE DEF pictured, rest
<1>16. SubSeq(pictured, 1, a) = shell /\ SubSeq(pictured, a + 1, Len(pictured)) = rest
  <2>1. Parts(shell, rest)
    BY <1>5, Parted
  <2>2. QED BY <1>2, <1>15, <2>1 DEF Parts
<1>17. ~ (image < Max(lead))
  BY <1>2, <1>3, <1>10, <1>11
<1>18. Completed(tools, facts, free) =
         SubSeq(pictured, 1, Max(lead)) \o added \o SubSeq(pictured, Max(lead) + 1, Len(pictured))
  <2>1. (IF Listed({"image_gen"}) THEN <<>> ELSE Images(facts, free)) = drawn
    BY <1>13 DEF drawn
  <2>2. (IF Listed(Helpers) THEN <<>> ELSE ResourceHelpers(facts)) = added
    BY <1>12
  <2>3. QED BY <1>17, <2>1, <2>2 DEF Completed, pictured
<1>19. QED BY <1>11, <1>16, <1>18 DEF tools, rest, drawn, InOrder

Facts == [images : BOOLEAN, text : {"built in", "described", "schema"}]

(* What is offered is what was completed, for a client and a catalog.       *)
ToolsInv ==
  /\ catalog \in Facts
  /\ offer # NoRequest =>
       /\ offer.client \in Clients /\ offer.facts \in Facts
       /\ offer.tools = Completed(ByKey(offer.client, offer.facts), offer.facts, offer.free)

LEMMA OfferedInOrder ==
  ASSUME NEW client \in Clients, NEW facts \in Facts, NEW free
  PROVE  LET helpers == IF facts.text = "schema" /\ ~ client.own THEN <<>>
                        ELSE <<OwnHelpers(facts)>>
         IN  Completed(ByKey(client, facts), facts, free) =
               Offered(client, helpers, Images(facts, free))
<1> DEFINE shell == client.shell
           own == IF client.own THEN <<OwnHelpers(facts)>> ELSE <<>>
           middle == client.middle
           last == client.last
           drawn == Images(facts, free)
           added == IF own # <<>> THEN <<>> ELSE ResourceHelpers(facts)
           helpers == IF facts.text = "schema" /\ ~ client.own THEN <<>>
                      ELSE <<OwnHelpers(facts)>>
<1>1. /\ Shell \subseteq Tools /\ Plain \subseteq Tools
      /\ Plain \cup Afterwards \subseteq Tools
  BY DEF Tools
<1>2. shell \in Seq(Tools) /\ \A i \in 1..Len(shell) : shell[i] \in Shell
  <2>1. shell \in Seq(Shell)
    BY ToolAssumption
  <2>2. QED BY <1>1, <2>1, SeqMonotonic, ElementOfSeq
<1>3. middle \in Seq(Tools) /\ \A i \in 1..Len(middle) : middle[i] \in Plain
  <2>1. middle \in Seq(Plain)
    BY ToolAssumption
  <2>2. QED BY <1>1, <2>1, SeqMonotonic, ElementOfSeq
<1>4. last \in Seq(Tools) /\ \A i \in 1..Len(last) : last[i] \in Plain \cup Afterwards
  <2>1. last \in Seq(Plain \cup Afterwards)
    BY ToolAssumption
  <2>2. QED BY <1>1, <2>1, SeqMonotonic, ElementOfSeq
<1>5. /\ middle # <<>> => middle[1] \notin Shell
      /\ last # <<>> => last[1] \in Afterwards
      /\ client.own \in BOOLEAN
  BY ToolAssumption
<1>6. OwnHelpers(facts) \in Helpers /\ OwnHelpers(facts) \in Tools
  BY DEF OwnHelpers, Helpers, Tools
<1>7. own \in Seq(Tools) /\ \A i \in 1..Len(own) : own[i] \in Helpers
  <2>1. CASE client.own
    <3>1. own = <<OwnHelpers(facts)>>
      BY <2>1
    <3>2. QED BY <1>6, <3>1, OneEntry
  <2>2. CASE ~ client.own
    <3>1. own = <<>> /\ <<>> \in Seq(Tools) /\ Len(<<>>) = 0
      BY <2>2, EmptySeq
    <3>2. \A i \in 1..Len(<<>>) : own[i] \in Helpers
      BY <3>1
    <3>3. QED BY <3>1, <3>2
  <2>3. QED BY <2>1, <2>2
<1>8. drawn \in Seq(Tools)
  <2>1. <<"image_gen">> \in Seq(Tools) /\ <<>> \in Seq(Tools)
    BY OneEntry, EmptySeq DEF Tools
  <2>2. QED BY <2>1 DEF Images
<1>9. helpers \in Seq(Tools)
  <2>1. <<OwnHelpers(facts)>> \in Seq(Tools) /\ <<>> \in Seq(Tools)
    BY <1>6, OneEntry, EmptySeq
  <2>2. QED BY <2>1
<1>10. InOrder(shell, own, middle, last, facts, free)
  <2> HIDE DEF shell, own, middle, last
  <2>1. middle # <<>> => middle[1] \notin Shell
    BY <1>5 DEF middle
  <2>2. last # <<>> => last[1] \in Afterwards
    BY <1>5 DEF last
  <2>3. QED BY <1>2, <1>3, <1>4, <1>7, <1>8, <2>1, <2>2, CompletedInOrder
<1>11. ByKey(client, facts) = shell \o own \o middle \o last
  <2>1. shell \o own \o middle \in Seq(Tools)
    <3>1. shell \o own \in Seq(Tools)
      BY <1>2, <1>7, ConcatProperties
    <3>2. QED BY <1>3, <3>1, ConcatProperties
  <2>2. shell \o own \o middle \o <<>> = shell \o own \o middle
    BY <2>1, ConcatEmptySeq
  <2>3. QED BY <2>2 DEF ByKey, Offered
<1>12. shell \o added \o (own \o middle \o drawn \o last)
         = shell \o helpers \o middle \o drawn \o last
  <2>1. CASE client.own
    <3>1. own = helpers /\ added = <<>>
      BY <2>1
    <3>2. shell \o <<>> = shell
      BY <1>2, ConcatEmptySeq
    <3>3. shell \o helpers \o middle \o drawn \o last = shell \o (helpers \o middle \o drawn \o last)
      <4> HIDE DEF shell, helpers, middle, drawn, last
      <4>1. Regroups(shell, helpers, middle, drawn, last)
        BY <1>2, <1>3, <1>4, <1>8, <1>9, Regrouped
      <4>2. QED BY <4>1 DEF Regroups
    <3>4. QED BY <3>1, <3>2, <3>3
  <2>2. CASE ~ client.own
    <3>1. own = <<>> /\ added = helpers
      BY <2>2 DEF ResourceHelpers
    <3>2. <<>> \o middle = middle
      BY <1>3, ConcatEmptySeq
    <3>3. shell \o helpers \o (middle \o drawn \o last) = shell \o helpers \o middle \o drawn \o last
      <4> HIDE DEF shell, helpers, middle, drawn, last
      <4> DEFINE x == shell \o helpers
                 y == middle \o drawn
      <4>1. x \in Seq(Tools) /\ y \in Seq(Tools)
        BY <1>2, <1>3, <1>8, <1>9, ConcatProperties
      <4>5. \A r, s, t \in Seq(Tools) : r \o s \o t = r \o (s \o t)
        BY ConcatAssociative
      <4> HIDE DEF x
      <4>2. x \o middle \o drawn = x \o y
        BY <1>3, <1>8, <4>1, <4>5
      <4> HIDE DEF y
      <4>3. x \o y \o last = x \o (y \o last)
        BY <1>4, <4>1, <4>5
      <4>4. QED BY <4>2, <4>3 DEF x, y
    <3>4. QED BY <3>1, <3>2, <3>3
  <2>3. QED BY <2>1, <2>2
<1>13. Completed(shell \o own \o middle \o last, facts, free)
         = shell \o added \o (own \o middle \o drawn \o last)
  BY <1>10 DEF InOrder
<1>14. QED BY <1>11, <1>12, <1>13 DEF Offered

(* Whatever the catalog, the plan and the server of a client's own: every   *)
(* attempt offers what a Codex signed in with ChatGPT offers there, each    *)
(* tool once and in its order.                                              *)
THEOREM NativeOffers == LoginSpec => []NativeTools
<1>1. LoginInit => ToolsInv
  <2>1. [images |-> TRUE, text |-> "built in"] \in Facts
    BY DEF Facts
  <2>2. QED BY <2>1 DEF LoginInit, ToolsInv
<1>2. ToolsInv /\ [ToolsNext \/ CallsNext]_loginVars => ToolsInv'
  <2> SUFFICES ASSUME ToolsInv, [ToolsNext \/ CallsNext]_loginVars
               PROVE  ToolsInv'
    OBVIOUS
  <2>1. CASE UNCHANGED <<catalog, offer>>
    BY <2>1 DEF ToolsInv
  <2>2. ASSUME NEW c \in Catalogs, CatalogServed(c)
        PROVE  ToolsInv'
    BY <2>2, ToolAssumption DEF ToolsInv, CatalogServed, Facts
  <2>3. ASSUME NEW client \in Clients, NEW free \in BOOLEAN, Offers(client, free)
        PROVE  ToolsInv'
    BY <2>3 DEF ToolsInv, Offers
  <2>4. QED BY <2>1, <2>2, <2>3 DEF ToolsNext, CallsNext, Restarts, SocketEnds,
                                    UpstreamCalls, Answers, loginVars
<1>3. ToolsInv => NativeTools
  BY OfferedInOrder DEF ToolsInv, NativeTools
<1>4. QED BY <1>1, <1>2, <1>3, PTL DEF LoginSpec

-----------------------------------------------------------------------------
(* New identifiers                                                          *)

LEMMA LeastNumber ==
  ASSUME NEW S \in SUBSET Nat, S # {}
  PROVE  \E x \in S : \A y \in S : x <= y
<1>1. IsWellFoundedOn(OpToRel(<, Nat), Nat)
  BY NatLessThanWellFounded
<1>2. PICK x \in S : \A y \in S : <<y, x>> \notin OpToRel(<, Nat)
  BY <1>1, WFMin
<1>3. ASSUME NEW y \in S
      PROVE  x <= y
  <2>1. ~ y < x
    BY <1>2 DEF OpToRel
  <2>2. QED BY <2>1
<1>4. QED BY <1>3

(* The numbers up to m that are not used: at most one more than up to m - 1.*)
LEMMA OneMoreFree ==
  ASSUME NEW used, NEW m \in Nat \ {0}
  PROVE  LET free == (1..m) \ used
             before == (1..(m - 1)) \ used
         IN  /\ IsFiniteSet(free) /\ IsFiniteSet(before)
             /\ Cardinality(free) = Cardinality(before) + IF m \in used THEN 0 ELSE 1
<1> DEFINE free == (1..m) \ used
           before == (1..(m - 1)) \ used
<1>1. IsFiniteSet(1..m) /\ IsFiniteSet(1..(m - 1))
  BY FS_Interval
<1>2. IsFiniteSet(free) /\ IsFiniteSet(before)
  <2>1. free \in SUBSET (1..m) /\ before \in SUBSET (1..(m - 1))
    OBVIOUS
  <2> HIDE DEF free, before
  <2>2. QED BY <1>1, <2>1, FS_Subset
<1>3. 1..m = (1..(m - 1)) \cup {m} /\ m \notin 1..(m - 1)
  OBVIOUS
<1>4. CASE m \in used
  <2>1. free = before
    BY <1>3, <1>4
  <2>2. Cardinality(before) \in Nat
    BY <1>2, FS_CardinalityType
  <2>3. QED BY <1>2, <1>4, <2>1, <2>2
<1>5. CASE m \notin used
  <2>1. free = before \cup {m} /\ m \notin before
    BY <1>3, <1>5
  <2> HIDE DEF free, before
  <2>2. Cardinality(before \cup {m}) = Cardinality(before) + 1
    BY <1>2, <2>1, FS_AddElement
  <2>3. Cardinality(free) = Cardinality(before) + IF m \in used THEN 0 ELSE 1
    BY <1>5, <2>1, <2>2
  <2>4. QED BY <1>2, <2>3 DEF free, before
<1>6. QED BY <1>4, <1>5

(* The n-th new identifier is none of the used ones, and has n - 1 unused   *)
(* ones before it: so distinct draws give distinct identifiers.             *)
LEMMA FreshIs ==
  ASSUME NEW used, IsFiniteSet(used), NEW n \in Nat \ {0}
  PROVE  /\ Fresh(used, n) \in Nat \ {0} /\ Fresh(used, n) \notin used
         /\ Cardinality((1..Fresh(used, n)) \ used) = n
<1> DEFINE Free(m) == (1..m) \ used
           G == {m \in Nat : Cardinality(Free(m)) >= n}
           top == Cardinality(used) + n
<1>1. Cardinality(used) \in Nat /\ top \in Nat
  BY FS_CardinalityType
<1>2. top \in G
  <2>1. IsFiniteSet(1..top) /\ Cardinality(1..top) = top
    BY <1>1, FS_Interval
  <2>2. Cardinality((1..top) \ used) = Cardinality(1..top) - Cardinality((1..top) \cap used)
    <3> HIDE DEF top
    <3>1. QED BY <2>1, FS_Difference
  <2>3. Cardinality((1..top) \cap used) \in Nat /\ Cardinality((1..top) \cap used) <= Cardinality(used)
    <3> DEFINE both == (1..top) \cap used
    <3>1. both \in SUBSET used
      OBVIOUS
    <3> HIDE DEF both
    <3>2. both \in SUBSET used /\ IsFiniteSet(both) /\ Cardinality(both) <= Cardinality(used)
      BY <3>1, FS_Subset
    <3>3. Cardinality(both) \in Nat /\ Cardinality(both) <= Cardinality(used)
      BY <3>2, FS_CardinalityType
    <3>4. QED BY <3>3 DEF both
  <2> DEFINE c == Cardinality((1..top) \cap used)
             u == Cardinality(used)
             f == Cardinality(Free(top))
  <2>4. c \in Nat /\ u \in Nat /\ c <= u /\ f = u + n - c
    BY <1>1, <2>1, <2>2, <2>3
  <2> HIDE DEF c, u, f
  <2>5. f >= n
    BY <2>4
  <2>6. QED BY <1>1, <2>5 DEF f
<1>3. PICK m \in G : \A k \in G : m <= k
  <2>1. G \in SUBSET Nat
    OBVIOUS
  <2> HIDE DEF G
  <2>2. QED BY <1>2, <2>1, LeastNumber
<1>4. m \in Nat /\ Cardinality(Free(m)) >= n /\ m <= top
  BY <1>2, <1>3
<1>5. m # 0
  <2>1. SUFFICES ASSUME m = 0
                 PROVE  FALSE
    OBVIOUS
  <2>2. Free(m) = {}
    BY <2>1
  <2>3. Cardinality(Free(m)) = 0
    BY <2>2, FS_EmptySet
  <2>4. QED BY <1>4, <2>3
<1>6. ~ Cardinality(Free(m - 1)) >= n
  <2>1. m - 1 \in Nat /\ ~ (m <= m - 1)
    BY <1>4, <1>5
  <2>2. m - 1 \notin G
    <3> HIDE DEF G
    <3>1. QED BY <1>3, <2>1
  <2>3. QED BY <2>1, <2>2
<1>7. /\ IsFiniteSet(Free(m - 1))
      /\ Cardinality(Free(m)) = Cardinality(Free(m - 1)) + IF m \in used THEN 0 ELSE 1
  BY <1>4, <1>5, OneMoreFree
<1>8. m \notin used /\ Cardinality(Free(m)) = n
  <2> DEFINE x == Cardinality(Free(m))
             y == Cardinality(Free(m - 1))
  <2>1. y \in Nat
    BY <1>7, FS_CardinalityType
  <2>2. x >= n /\ ~ y >= n /\ x = y + IF m \in used THEN 0 ELSE 1
    BY <1>4, <1>6, <1>7
  <2> HIDE DEF x, y
  <2>3. m \notin used /\ x = n
    BY <2>1, <2>2
  <2>4. QED BY <2>3 DEF x
<1>9. m \in 1..top
  BY <1>1, <1>4, <1>5
<1>10. \E id \in 1..top : id \notin used /\ Cardinality((1..id) \ used) = n
  BY <1>8, <1>9
<1>11. Fresh(used, n) = CHOOSE id \in 1..top : id \notin used /\ Cardinality((1..id) \ used) = n
  BY DEF Fresh
<1>12. Fresh(used, n) \in 1..top /\ Fresh(used, n) \notin used
       /\ Cardinality((1..Fresh(used, n)) \ used) = n
  <2> HIDE DEF top
  <2>1. QED BY <1>10, <1>11
<1>13. \A id \in 1..top : id \in Nat \ {0}
  BY <1>1
<1>14. QED BY <1>12, <1>13

(* The images of a finite set are finite.                                   *)
LEMMA ImagesFinite ==
  ASSUME NEW S, IsFiniteSet(S), NEW f, DOMAIN f = S
  PROVE  IsFiniteSet({f[x] : x \in S})
<1> DEFINE T == {f[x] : x \in S}
           g == [x \in S |-> f[x]]
<1>1. g \in [S -> T]
  OBVIOUS
<1>2. \A t \in T : \E x \in S : g[x] = t
  OBVIOUS
<1> HIDE DEF g, T
<1>3. g \in Surjection(S, T)
  BY <1>1, <1>2 DEF Surjection
<1>4. IsFiniteSet(T)
  BY <1>3, FS_Surjection
<1>5. QED BY <1>4 DEF T

-----------------------------------------------------------------------------
(* A conversation's entry                                                   *)

Sayings == UNION {Says[b] : b \in Apps}

\* Each place with its item has an identifier, which is no other's.
IdsOk(ids) ==
  /\ IsFiniteSet(DOMAIN ids) /\ ids = [p \in DOMAIN ids |-> ids[p]]
  /\ \A p \in DOMAIN ids : ids[p] \in Nat
  /\ \A p, q \in DOMAIN ids : ids[p] = ids[q] => p = q

Placed(ids, items) == \A i \in DOMAIN items : <<i, items[i]>> \in DOMAIN ids

(* The items of a request get identifiers of their own, and those that had  *)
(* one keep it.                                                             *)
LEMMA IdentifiedIs ==
  ASSUME NEW a, NEW ids, IdsOk(ids), NEW items, items \in Seq(Sayings),
         IsFiniteSet(ItemIds(a)), \A p \in DOMAIN ids : ids[p] \in ItemIds(a)
  PROVE  LET now == Identified(a, ids, items)
         IN  /\ IdsOk(now) /\ Placed(now, items)
             /\ \A p \in DOMAIN ids : p \in DOMAIN now /\ now[p] = ids[p]
<1> DEFINE new == {i \in DOMAIN items : <<i, items[i]>> \notin DOMAIN ids}
           pairs == [i \in new |-> <<i, items[i]>>]
           placed == {<<i, items[i]>> : i \in new}
           Rank(i) == Cardinality({j \in new : j <= i})
           used == ItemIds(a)
           now == Identified(a, ids, items)
<1>1. IsFiniteSet(new) /\ new \in SUBSET Nat
  <2>1. DOMAIN items = 1..Len(items) /\ Len(items) \in Nat
    OBVIOUS
  <2>2. IsFiniteSet(DOMAIN items)
    BY <2>1, FS_Interval
  <2>3. new \in SUBSET DOMAIN items
    OBVIOUS
  <2>4. DOMAIN items \subseteq Nat
    BY <2>1
  <2> HIDE DEF new
  <2>5. QED BY <2>2, <2>3, <2>4, FS_Subset
<1>2. \A i \in new : Rank(i) \in Nat \ {0}
  <2>1. SUFFICES ASSUME NEW i \in new
                 PROVE  Rank(i) \in Nat \ {0}
    OBVIOUS
  <2> DEFINE low == {j \in new : j <= i}
  <2>2. low \in SUBSET new /\ i \in low
    <3>1. i \in Nat
      BY <1>1
    <3>2. i <= i
      BY <3>1
    <3>3. QED BY <3>2
  <2> HIDE DEF low, new
  <2>3. IsFiniteSet(low)
    BY <1>1, <2>2, FS_Subset
  <2>4. Cardinality(low) \in Nat
    BY <2>3, FS_CardinalityType
  <2>5. Cardinality(low) # 0
    BY <2>2, <2>3, FS_EmptySet
  <2>6. QED BY <2>4, <2>5 DEF low
<1>3. \A i, j \in new : i # j => Rank(i) # Rank(j)
  <2> HIDE DEF new
  <2>1. \A i \in new : i \in Nat /\ Rank(i) \in Nat
    BY <1>1, <1>2
  <2>2. \A i, j \in new : i < j => Rank(i) < Rank(j)
    BY <1>1, RanksDiffer
  <2> HIDE DEF Rank
  <2>3. QED BY <2>1, <2>2
<1>4. \A i \in new : Fresh(used, Rank(i)) \in Nat /\ Fresh(used, Rank(i)) \notin used
                     /\ Cardinality((1..Fresh(used, Rank(i))) \ used) = Rank(i)
  <2> HIDE DEF new, Rank, used
  <2>1. IsFiniteSet(used)
    BY DEF used
  <2>2. QED BY <1>2, <2>1, FreshIs
<1>5. \A i, j \in new : Fresh(used, Rank(i)) = Fresh(used, Rank(j)) => i = j
  <2> HIDE DEF new, Rank, used
  <2>1. QED BY <1>3, <1>4
<1>6. /\ DOMAIN now = DOMAIN ids \cup placed
      /\ now = [p \in DOMAIN now |-> now[p]]
      /\ \A p \in DOMAIN ids : now[p] = ids[p]
      /\ \A p \in placed : p \notin DOMAIN ids => now[p] = Fresh(used, Rank(p[1]))
  <2> HIDE DEF Rank, used
  <2>1. now = [p \in DOMAIN ids \cup placed |->
                 IF p \in DOMAIN ids THEN ids[p] ELSE Fresh(used, Rank(p[1]))]
    BY DEF Identified, Rank, used
  <2> HIDE DEF now, placed
  <2>2. QED BY <2>1
<1>7. \A p \in placed : p \notin DOMAIN ids /\ p[1] \in new /\ p = <<p[1], items[p[1]]>>
  <2>1. SUFFICES ASSUME NEW p \in placed
                 PROVE  p \notin DOMAIN ids /\ p[1] \in new /\ p = <<p[1], items[p[1]]>>
    OBVIOUS
  <2>2. PICK i \in new : p = <<i, items[i]>>
    OBVIOUS
  <2> HIDE DEF placed
  <2>3. p[1] = i /\ p \notin DOMAIN ids
    BY <2>2
  <2>4. QED BY <2>2, <2>3
<1>8. IsFiniteSet(DOMAIN now)
  <2>1. DOMAIN pairs = new /\ placed = {pairs[i] : i \in new}
    OBVIOUS
  <2> HIDE DEF pairs, new, placed
  <2>2. IsFiniteSet(placed)
    BY <1>1, <2>1, ImagesFinite
  <2>3. IsFiniteSet(DOMAIN ids)
    BY DEF IdsOk
  <2>4. IsFiniteSet(DOMAIN ids \cup placed)
    BY <2>2, <2>3, FS_Union
  <2>5. QED BY <1>6, <2>4
<1>9. \A p \in DOMAIN now : now[p] \in Nat
  <2> HIDE DEF now, new, placed, Rank, used
  <2>1. \A p \in DOMAIN ids : now[p] \in Nat
    BY <1>6 DEF IdsOk
  <2>2. \A p \in placed : now[p] \in Nat
    BY <1>4, <1>6, <1>7
  <2>3. QED BY <1>6, <2>1, <2>2
<1>10. \A p, q \in DOMAIN now : now[p] = now[q] => p = q
  <2>1. \A p \in DOMAIN ids : now[p] = ids[p] /\ now[p] \in used
    BY <1>6
  <2>2. \A p \in placed : now[p] = Fresh(used, Rank(p[1])) /\ now[p] \notin used
    <3> HIDE DEF now, new, placed, Rank, used
    <3>1. QED BY <1>4, <1>6, <1>7
  <2> HIDE DEF now, new, placed, Rank, used
  <2>3. \A p, q \in DOMAIN ids : now[p] = now[q] => p = q
    BY <2>1 DEF IdsOk
  <2>4. \A p, q \in placed : now[p] = now[q] => p = q
    BY <1>5, <1>7, <2>2
  <2>5. QED BY <1>6, <2>1, <2>2, <2>3, <2>4
<1>11. Placed(now, items)
  <2>1. \A i \in DOMAIN items : <<i, items[i]>> \in DOMAIN ids \cup placed
    OBVIOUS
  <2>2. QED BY <1>6, <2>1 DEF Placed
<1>12. QED BY <1>6, <1>8, <1>9, <1>10, <1>11 DEF IdsOk

\* A kept conversation, and what upstream was last shown of it.
EntryOk(e) ==
  /\ e = [thread |-> e.thread, turn |-> e.turn, user |-> e.user, ids |-> e.ids]
  /\ e.thread \in Nat \ {0} /\ e.turn \in Nat \ {0} /\ IdsOk(e.ids)

ShownOk(s) ==
  /\ s.items \in Seq(Sayings) /\ IsFiniteSet(Range(s.ids))
  /\ DOMAIN s.ids = DOMAIN s.items

Agree(e, s) ==
  /\ e.thread = s.thread /\ e.turn = s.turn /\ e.user = s.said
  /\ Placed(e.ids, s.items)
  /\ \A i \in DOMAIN s.items : s.ids[i] = e.ids[<<i, s.items[i]>>]

\* What upstream was shown is what the pool keeps; what it no longer keeps was
\* unused for a day, went in a restart or had Limit others after it; so the
\* later ones of a kept conversation are counted.
ThreadInv ==
  /\ DOMAIN shown = Apps /\ DOMAIN since = Apps
  /\ DOMAIN entries \subseteq Apps /\ stale \subseteq DOMAIN entries
  /\ \A a \in Apps : ShownOk(shown[a]) /\ IsFiniteSet(since[a])
  /\ \A a \in DOMAIN entries : EntryOk(entries[a]) /\ Agree(entries[a], shown[a])
  /\ \A a \in stale : a \in since[a]
  /\ \A k, l \in DOMAIN entries : <<k, l>> \in older => l \in since[k]
  /\ \A a \in Apps \ DOMAIN entries :
       shown[a].thread # 0 => a \in since[a] \/ Cardinality(since[a]) >= Limit

\* The conversation of the app's next attempt, before it and after.
EntryOf(a) ==
  IF a \in DOMAIN entries THEN entries[a]
  ELSE [thread |-> Fresh(Threads(a), 1), turn |-> 0, user |-> <<>>, ids |-> <<>>]

NowOf(a, items) == Turn(a, EntryOf(a), items)

LEMMA PairFinite == \A x, y : IsFiniteSet({x, y})
<1>1. SUFFICES ASSUME NEW x, NEW y
               PROVE  IsFiniteSet({x, y})
  OBVIOUS
<1>2. IsFiniteSet({x})
  BY FS_Singleton
<1>3. IsFiniteSet({x} \cup {y})
  BY <1>2, FS_AddElement
<1>4. {x, y} = {x} \cup {y}
  OBVIOUS
<1>5. QED BY <1>3, <1>4

(* The identifiers a new one must differ from are finitely many.            *)
LEMMA UsedFinite ==
  ASSUME ThreadInv, NEW a \in Apps
  PROVE  /\ IsFiniteSet(Threads(a)) /\ shown[a].thread \in Threads(a)
         /\ IsFiniteSet(Turns(a))
         /\ a \in DOMAIN entries => entries[a].turn \in Turns(a)
         /\ IsFiniteSet(ItemIds(a))
         /\ a \in DOMAIN entries =>
              \A p \in DOMAIN entries[a].ids : entries[a].ids[p] \in ItemIds(a)
<1> DEFINE e == entries[a]
<1>1. Held(a) \subseteq {e} /\ (a \in DOMAIN entries => Held(a) = {e})
  BY DEF Held
<1>2. Threads(a) \in SUBSET {e.thread, shown[a].thread}
  BY <1>1 DEF Threads
<1>3. Turns(a) \in SUBSET {e.turn, shown[a].turn}
  BY <1>1 DEF Turns
<1>4. IsFiniteSet(Threads(a))
  BY <1>2, PairFinite, FS_Subset
<1>5. IsFiniteSet(Turns(a))
  BY <1>3, PairFinite, FS_Subset
<1>6. IsFiniteSet(Range(shown[a].ids))
  BY DEF ThreadInv, ShownOk
<1>7. IsFiniteSet(ItemIds(a))
  <2>1. CASE a \in DOMAIN entries
    <3> DEFINE mine == {e.ids[p] : p \in DOMAIN e.ids}
    <3>1. IsFiniteSet(DOMAIN e.ids)
      BY <2>1 DEF ThreadInv, EntryOk, IdsOk
    <3>2. IsFiniteSet(mine)
      BY <3>1, ImagesFinite
    <3>3. ItemIds(a) = mine \cup Range(shown[a].ids)
      <4>1. {Range(k.ids) : k \in Held(a)} = {Range(e.ids)}
        BY <1>1, <2>1
      <4>2. Range(e.ids) = mine
        BY DEF Range
      <4>3. UNION {mine} = mine
        OBVIOUS
      <4> HIDE DEF mine
      <4>4. QED BY <4>1, <4>2, <4>3 DEF ItemIds
    <3> HIDE DEF mine
    <3>4. QED BY <1>6, <3>2, <3>3, FS_Union
  <2>2. CASE a \notin DOMAIN entries
    <3>1. ItemIds(a) = Range(shown[a].ids)
      <4>1. {Range(k.ids) : k \in Held(a)} = {}
        BY <2>2 DEF Held
      <4>2. QED BY <4>1 DEF ItemIds
    <3>2. QED BY <1>6, <3>1
  <2>3. QED BY <2>1, <2>2
<1>8. a \in DOMAIN entries => e.turn \in Turns(a)
  BY <1>1 DEF Turns
<1>9. a \in DOMAIN entries => \A p \in DOMAIN e.ids : e.ids[p] \in ItemIds(a)
  <2>1. CASE a \in DOMAIN entries
    <3>1. Range(e.ids) \subseteq ItemIds(a)
      BY <1>1, <2>1 DEF ItemIds
    <3>2. QED BY <3>1 DEF Range
  <2>2. QED BY <2>1
<1>10. shown[a].thread \in Threads(a)
  BY DEF Threads
<1>11. QED BY <1>4, <1>5, <1>7, <1>8, <1>9, <1>10

LEMMA FreshOne ==
  ASSUME NEW used, IsFiniteSet(used)
  PROVE  Fresh(used, 1) \in Nat \ {0} /\ Fresh(used, 1) \notin used
<1>1. 1 \in Nat \ {0}
  OBVIOUS
<1>2. QED BY <1>1, FreshIs

(* The conversation after an attempt: its thread and its identifiers are    *)
(* kept with it, and its turn changes when the user spoke.                  *)
LEMMA NowIs ==
  ASSUME ThreadInv, NEW a \in Apps, NEW items, items \in Seq(Sayings)
  PROVE  LET now == NowOf(a, items)
             e == entries[a]
         IN  /\ EntryOk(now) /\ Placed(now.ids, items) /\ now.user = LastUser(items)
             /\ a \in DOMAIN entries =>
                  /\ now.thread = e.thread
                  /\ now.turn = e.turn <=> LastUser(items) = e.user
                  /\ \A p \in DOMAIN e.ids : p \in DOMAIN now.ids /\ now.ids[p] = e.ids[p]
             /\ a \notin DOMAIN entries => now.thread # shown[a].thread
<1> DEFINE was == EntryOf(a)
           now == NowOf(a, items)
           new == was.turn = 0 \/ LastUser(items) # was.user
<1>1. /\ was = [thread |-> was.thread, turn |-> was.turn, user |-> was.user, ids |-> was.ids]
      /\ was.thread \in Nat \ {0} /\ was.turn \in Nat /\ IdsOk(was.ids)
      /\ \A p \in DOMAIN was.ids : was.ids[p] \in ItemIds(a)
      /\ a \in DOMAIN entries => was = entries[a] /\ was.turn # 0
      /\ a \notin DOMAIN entries => was.thread # shown[a].thread
  <2>1. CASE a \in DOMAIN entries
    <3>1. was = entries[a] /\ EntryOk(entries[a])
      BY <2>1 DEF EntryOf, ThreadInv
    <3>2. QED BY <2>1, <3>1, UsedFinite DEF EntryOk
  <2>2. CASE a \notin DOMAIN entries
    <3> DEFINE first == Fresh(Threads(a), 1)
    <3>1. first \in Nat \ {0} /\ first # shown[a].thread
      <4>1. first \in Nat \ {0} /\ first \notin Threads(a)
        BY UsedFinite, FreshOne
      <4> HIDE DEF first
      <4>2. QED BY <4>1, UsedFinite
    <3>2. was = [thread |-> first, turn |-> 0, user |-> <<>>, ids |-> <<>>]
      BY <2>2 DEF EntryOf
    <3>3. IdsOk(<<>>) /\ DOMAIN <<>> = {}
      <4>1. DOMAIN <<>> = {}
        OBVIOUS
      <4>2. <<>> = [p \in DOMAIN <<>> |-> <<>>[p]]
        OBVIOUS
      <4>3. IsFiniteSet(DOMAIN <<>>)
        BY <4>1, FS_EmptySet
      <4>4. QED BY <4>1, <4>2, <4>3 DEF IdsOk
    <3> HIDE DEF first, was
    <3>4. was.thread = first /\ was.turn = 0 /\ was.user = <<>> /\ was.ids = <<>>
      BY <3>2
    <3>5. was = [thread |-> was.thread, turn |-> was.turn, user |-> was.user, ids |-> was.ids]
      BY <3>2, <3>4
    <3>6. QED BY <2>2, <3>1, <3>3, <3>4, <3>5
  <2>3. QED BY <2>1, <2>2
<1>2. /\ now = [thread |-> was.thread,
                turn |-> IF new THEN Fresh(Turns(a), 1) ELSE was.turn,
                user |-> LastUser(items),
                ids |-> Identified(a, was.ids, items)]
  <2> HIDE DEF was
  <2>1. NowOf(a, items) = Turn(a, was, items)
    BY DEF NowOf, was
  <2>2. QED BY <1>1, <2>1 DEF Turn
<1>3. /\ now.thread = was.thread /\ now.user = LastUser(items)
      /\ now.turn = IF new THEN Fresh(Turns(a), 1) ELSE was.turn
      /\ now.ids = Identified(a, was.ids, items)
      /\ now = [thread |-> now.thread, turn |-> now.turn, user |-> now.user, ids |-> now.ids]
  <2> HIDE DEF now, was, new
  <2>1. QED BY <1>2
<1>4. Fresh(Turns(a), 1) \in Nat \ {0} /\ Fresh(Turns(a), 1) \notin Turns(a)
  BY UsedFinite, FreshOne
<1>5. /\ IdsOk(now.ids) /\ Placed(now.ids, items)
      /\ \A p \in DOMAIN was.ids : p \in DOMAIN now.ids /\ now.ids[p] = was.ids[p]
  <2> HIDE DEF now, was
  <2>1. IsFiniteSet(ItemIds(a))
    BY UsedFinite
  <2>2. QED BY <1>1, <1>3, <2>1, IdentifiedIs
<1>6. now.turn \in Nat \ {0}
  <2> HIDE DEF now, was
  <2>1. QED BY <1>1, <1>3, <1>4
<1>7. a \in DOMAIN entries => (now.turn = was.turn <=> LastUser(items) = was.user)
  <2>1. a \in DOMAIN entries => was.turn \in Turns(a) /\ was.turn # 0
    BY <1>1, UsedFinite
  <2> HIDE DEF now, was
  <2>2. QED BY <1>3, <1>4, <2>1
<1>8. EntryOk(now)
  <2> HIDE DEF now, was
  <2>1. QED BY <1>1, <1>3, <1>5, <1>6 DEF EntryOk
<1> HIDE DEF was, now
<1>9. QED BY <1>1, <1>3, <1>5, <1>7, <1>8 DEF now

-----------------------------------------------------------------------------
(* Steps                                                                    *)

(* A conversation that goes for want of room had as many others after it as *)
(* the pool keeps, the one that arrives included.                           *)
LEMMA EvictedWasPassed ==
  ASSUME ThreadInv, NEW a \in Apps, a \notin DOMAIN entries,
         NEW k \in Evicted(DOMAIN entries \ stale)
  PROVE  Cardinality(since[k] \cup {a}) >= Limit
<1> DEFINE fresh == DOMAIN entries \ stale
           newer == Newer(fresh, k)
           all == since[k] \cup {a}
<1>1. k \in DOMAIN entries /\ k \in Apps /\ Cardinality(newer) >= Limit - 1
  BY DEF Evicted, ThreadInv
<1>2. newer \subseteq since[k] /\ a \notin newer
  BY <1>1 DEF Newer, ThreadInv
<1>3. IsFiniteSet(since[k])
  BY <1>1 DEF ThreadInv
<1> HIDE DEF newer
<1>4. IsFiniteSet(all)
  BY <1>3, FS_AddElement
<1>5. newer \cup {a} \in SUBSET all
  BY <1>2
<1>6. IsFiniteSet(newer)
  BY <1>2, <1>3, FS_Subset
<1>7. Cardinality(newer \cup {a}) = Cardinality(newer) + 1
  BY <1>2, <1>6, FS_AddElement
<1> HIDE DEF all
<1>8. Cardinality(newer \cup {a}) <= Cardinality(all)
  BY <1>4, <1>5, FS_Subset
<1>9. Cardinality(newer) \in Nat /\ Cardinality(all) \in Nat
  BY <1>4, <1>6, FS_CardinalityType
<1>10. Limit \in Nat \ {0}
  BY ConversationAssumption
<1>11. Cardinality(all) >= Limit
  BY <1>1, <1>7, <1>8, <1>9, <1>10
<1>12. QED BY <1>11 DEF all

LEMMA SendsIs ==
  ASSUME NEW a \in Apps, NEW items, Sends(a, items), ThreadInv
  PROVE  LET now == NowOf(a, items)
             next == [thread |-> now.thread, turn |-> now.turn, said |-> LastUser(items),
                      items |-> items,
                      ids |-> [i \in DOMAIN items |-> now.ids[<<i, items[i]>>]]]
         IN  /\ entries' = [k \in Kept(a) \cup {a} |-> IF k = a THEN now ELSE entries[k]]
             /\ older' = {p \in older : {p[1], p[2]} \subseteq Kept(a) \ {a}}
                         \cup (Kept(a) \ {a}) \X {a}
             /\ shown' = [b \in Apps |-> IF b = a THEN next ELSE shown[b]]
             /\ stale' = (stale \cap DOMAIN entries') \ {a}
             /\ since' = [b \in Apps |-> IF b = a THEN {} ELSE since[b] \cup {a}]
<1>1. DOMAIN shown = Apps
  BY DEF ThreadInv
<1>2. QED BY <1>1 DEF Sends, NowOf, EntryOf

(* What a request holds is a sequence of what the conversation says.        *)
LEMMA HistoriesAre ==
  ASSUME NEW a \in Apps, NEW items \in Histories(a)
  PROVE  items \in Seq(Sayings)
<1>1. Histories(a) = UNION {[1..m -> Says[a]] : m \in 0..MaxItems[a]}
  BY DEF Histories, BoundedSeq, SeqOf
<1>2. PICK m \in 0..MaxItems[a] : items \in [1..m -> Says[a]]
  BY <1>1
<1>3. m \in Nat
  BY ConversationAssumption
<1>4. \A i \in 1..m : items[i] \in Sayings
  BY <1>2 DEF Sayings
<1>5. items \in [1..m -> Sayings]
  BY <1>2, <1>4
<1>6. QED BY <1>3, <1>5, SeqDef

LEMMA ThreadInitInv == ThreadInit => ThreadInv
<1>1. SUFFICES ASSUME ThreadInit
               PROVE  ThreadInv
  OBVIOUS
<1>2. ShownOk(Nothing) /\ Nothing.thread = 0
  <2>1. /\ Nothing.items = <<>> /\ Nothing.ids = <<>> /\ Nothing.thread = 0
    BY DEF Nothing
  <2>2. <<>> \in Seq(Sayings) /\ DOMAIN <<>> = {}
    BY EmptySeq
  <2>3. Range(<<>>) = {}
    BY <2>2 DEF Range
  <2>4. QED BY <2>1, <2>2, <2>3, FS_EmptySet DEF ShownOk
<1>3. IsFiniteSet({})
  BY FS_EmptySet
<1>4. DOMAIN entries = {}
  BY <1>1 DEF ThreadInit
<1>5. QED BY <1>1, <1>2, <1>3, <1>4 DEF ThreadInit, ThreadInv

LEMMA DaysKeep ==
  ASSUME ThreadInv, NEW used, DayPasses(used)
  PROVE  ThreadInv'
<1>1. /\ entries' = entries /\ older' = older /\ shown' = shown
      /\ stale' = stale \cup (DOMAIN entries \ used)
      /\ since' = [a \in Apps |-> IF a \in stale' THEN since[a] \cup {a} ELSE since[a]]
  BY DEF DayPasses
<1>2. \A a \in Apps : since[a] \subseteq since'[a] /\ IsFiniteSet(since'[a])
  <2>1. SUFFICES ASSUME NEW a \in Apps
                 PROVE  since[a] \subseteq since'[a] /\ IsFiniteSet(since'[a])
    OBVIOUS
  <2>2. IsFiniteSet(since[a])
    BY DEF ThreadInv
  <2>3. IsFiniteSet(since[a] \cup {a})
    BY <2>2, FS_AddElement
  <2>4. since'[a] = since[a] \cup {a} \/ since'[a] = since[a]
    BY <1>1
  <2>5. QED BY <2>2, <2>3, <2>4
<1>3. \A a \in Apps : Cardinality(since[a]) >= Limit => Cardinality(since'[a]) >= Limit
  <2>1. SUFFICES ASSUME NEW a \in Apps, Cardinality(since[a]) >= Limit
                 PROVE  Cardinality(since'[a]) >= Limit
    OBVIOUS
  <2>2. since[a] \in SUBSET since'[a] /\ IsFiniteSet(since'[a]) /\ IsFiniteSet(since[a])
    BY <1>2 DEF ThreadInv
  <2>3. Cardinality(since[a]) <= Cardinality(since'[a])
    BY <2>2, FS_Subset
  <2>4. Cardinality(since[a]) \in Nat /\ Cardinality(since'[a]) \in Nat /\ Limit \in Nat
    BY <2>2, FS_CardinalityType, ConversationAssumption
  <2>5. QED BY <2>1, <2>3, <2>4
<1>4. DOMAIN since' = Apps /\ DOMAIN shown' = Apps
  BY <1>1 DEF ThreadInv
<1>5. \A a \in stale' : a \in since'[a]
  BY <1>1 DEF ThreadInv
<1>6. \A k, l \in DOMAIN entries' : <<k, l>> \in older' => l \in since'[k]
  BY <1>1, <1>2 DEF ThreadInv
<1>7. \A a \in Apps \ DOMAIN entries' :
        shown'[a].thread # 0 => a \in since'[a] \/ Cardinality(since'[a]) >= Limit
  BY <1>1, <1>2, <1>3 DEF ThreadInv
<1>8. \A a \in Apps : ShownOk(shown'[a])
  BY <1>1 DEF ThreadInv
<1>9. \A a \in DOMAIN entries' : EntryOk(entries'[a]) /\ Agree(entries'[a], shown'[a])
  BY <1>1 DEF ThreadInv
<1>10. DOMAIN entries' \subseteq Apps /\ stale' \subseteq DOMAIN entries'
  BY <1>1 DEF ThreadInv
<1>11. (\A a \in Apps : ShownOk(shown[a]) /\ IsFiniteSet(since[a]))'
  BY <1>2, <1>8 DEF ShownOk
<1>12. (\A a \in DOMAIN entries : EntryOk(entries[a]) /\ Agree(entries[a], shown[a]))'
  BY <1>9
<1>13. QED BY <1>4, <1>5, <1>6, <1>7, <1>10, <1>11, <1>12 DEF ThreadInv

LEMMA RestartKeeps ==
  ASSUME ThreadInv, Restart
  PROVE  ThreadInv'
<1>1. /\ entries' = <<>> /\ older' = {} /\ stale' = {} /\ shown' = shown
      /\ since' = [a \in Apps |-> since[a] \cup {a}]
  BY DEF Restart
<1>2. DOMAIN entries' = {}
  BY <1>1
<1>3. \A a \in Apps : a \in since'[a] /\ IsFiniteSet(since'[a])
  <2>1. SUFFICES ASSUME NEW a \in Apps
                 PROVE  a \in since'[a] /\ IsFiniteSet(since'[a])
    OBVIOUS
  <2>2. since'[a] = since[a] \cup {a}
    BY <1>1
  <2>3. IsFiniteSet(since[a])
    BY DEF ThreadInv
  <2>4. IsFiniteSet(since[a] \cup {a})
    BY <2>3, FS_AddElement
  <2>5. QED BY <2>2, <2>4
<1>4. \A a \in Apps : ShownOk(shown'[a])
  BY <1>1 DEF ThreadInv
<1>5. (\A a \in Apps : ShownOk(shown[a]) /\ IsFiniteSet(since[a]))'
  BY <1>3, <1>4 DEF ShownOk
<1>6. DOMAIN since' = Apps /\ DOMAIN shown' = Apps
  BY <1>1 DEF ThreadInv
<1>7. QED BY <1>1, <1>2, <1>3, <1>5, <1>6 DEF ThreadInv

(* An attempt: what goes is counted, what stays is as shown.                *)
LEMMA SendsKeep ==
  ASSUME ThreadInv, NEW a \in Apps, NEW items \in Histories(a), Sends(a, items)
  PROVE  ThreadInv'
<1> DEFINE now == NowOf(a, items)
           kept == Kept(a)
           ids == [i \in DOMAIN items |-> now.ids[<<i, items[i]>>]]
           next == [thread |-> now.thread, turn |-> now.turn, said |-> LastUser(items),
                    items |-> items, ids |-> ids]
<1>1. /\ entries' = [k \in kept \cup {a} |-> IF k = a THEN now ELSE entries[k]]
      /\ older' = {p \in older : {p[1], p[2]} \subseteq kept \ {a}} \cup (kept \ {a}) \X {a}
      /\ shown' = [b \in Apps |-> IF b = a THEN next ELSE shown[b]]
      /\ stale' = (stale \cap DOMAIN entries') \ {a}
      /\ since' = [b \in Apps |-> IF b = a THEN {} ELSE since[b] \cup {a}]
  BY SendsIs
<1>2. items \in Seq(Sayings) /\ EntryOk(now) /\ Placed(now.ids, items) /\ now.user = LastUser(items)
  BY HistoriesAre, NowIs
<1>3. /\ kept \subseteq DOMAIN entries /\ DOMAIN entries \subseteq Apps
      /\ a \in DOMAIN entries => kept = DOMAIN entries
      /\ a \notin DOMAIN entries =>
           \A k \in DOMAIN entries \ kept : k \in stale \/ k \in Evicted(DOMAIN entries \ stale)
  BY DEF Kept, ThreadInv
<1>4. /\ next.thread = now.thread /\ next.turn = now.turn /\ next.said = LastUser(items)
      /\ next.items = items /\ next.ids = ids
  <2> HIDE DEF ids, now
  <2>1. QED OBVIOUS
<1>5. ShownOk(next) /\ Agree(now, next)
  <2>1. DOMAIN ids = DOMAIN items /\ \A i \in DOMAIN items : ids[i] = now.ids[<<i, items[i]>>]
    OBVIOUS
  <2>2. IsFiniteSet(Range(ids))
    <3>1. DOMAIN items = 1..Len(items) /\ Len(items) \in Nat
      BY <1>2
    <3>2. IsFiniteSet(DOMAIN items)
      BY <3>1, FS_Interval
    <3> HIDE DEF ids
    <3>3. IsFiniteSet({ids[i] : i \in DOMAIN items})
      BY <2>1, <3>2, ImagesFinite
    <3>4. QED BY <2>1, <3>3 DEF Range
  <2> HIDE DEF ids, now, next
  <2>3. ShownOk(next)
    BY <1>2, <1>4, <2>1, <2>2 DEF ShownOk
  <2>4. Agree(now, next)
    BY <1>2, <1>4, <2>1 DEF Agree
  <2>5. QED BY <2>3, <2>4
<1> HIDE DEF now, next, kept, ids
<1>6. DOMAIN entries' = kept \cup {a} /\ DOMAIN shown' = Apps /\ DOMAIN since' = Apps
  BY <1>1
<1>7. DOMAIN entries' \subseteq Apps /\ stale' \subseteq DOMAIN entries'
  BY <1>1, <1>3, <1>6
<1>8. \A b \in Apps : ShownOk(shown'[b])
  BY <1>1, <1>5 DEF ThreadInv
<1>9. \A b \in Apps : IsFiniteSet(since'[b]) /\ (b # a => since'[b] = since[b] \cup {a})
  <2>1. SUFFICES ASSUME NEW b \in Apps
                 PROVE  IsFiniteSet(since'[b]) /\ (b # a => since'[b] = since[b] \cup {a})
    OBVIOUS
  <2>2. IsFiniteSet(since[b])
    BY DEF ThreadInv
  <2>3. IsFiniteSet(since[b] \cup {a})
    BY <2>2, FS_AddElement
  <2>4. IsFiniteSet({})
    BY FS_EmptySet
  <2>5. since'[b] = IF b = a THEN {} ELSE since[b] \cup {a}
    BY <1>1
  <2>6. QED BY <2>3, <2>4, <2>5
<1>10. \A b \in DOMAIN entries' : EntryOk(entries'[b]) /\ Agree(entries'[b], shown'[b])
  <2>1. SUFFICES ASSUME NEW b \in DOMAIN entries'
                 PROVE  EntryOk(entries'[b]) /\ Agree(entries'[b], shown'[b])
    OBVIOUS
  <2>2. CASE b = a
    <3>1. entries'[b] = now /\ shown'[b] = next
      BY <1>1, <1>6, <2>2
    <3>2. QED BY <1>2, <1>5, <3>1
  <2>3. CASE b # a
    <3>1. b \in kept /\ b \in DOMAIN entries /\ b \in Apps
      BY <1>3, <1>6, <2>3
    <3>2. entries'[b] = entries[b] /\ shown'[b] = shown[b]
      BY <1>1, <2>3, <3>1
    <3>3. QED BY <3>1, <3>2 DEF ThreadInv
  <2>4. QED BY <2>2, <2>3
<1>11. \A b \in stale' : b \in since'[b]
  <2>1. SUFFICES ASSUME NEW b \in stale'
                 PROVE  b \in since'[b]
    OBVIOUS
  <2>2. b \in stale /\ b # a
    BY <1>1
  <2>3. b \in since[b] /\ b \in Apps
    BY <2>2 DEF ThreadInv
  <2>4. QED BY <1>9, <2>2, <2>3
<1>12. \A k, l \in DOMAIN entries' : <<k, l>> \in older' => l \in since'[k]
  <2>1. SUFFICES ASSUME NEW k \in DOMAIN entries', NEW l \in DOMAIN entries', <<k, l>> \in older'
                 PROVE  l \in since'[k]
    OBVIOUS
  <2>2. \/ <<k, l>> \in older /\ k \in kept \ {a} /\ l \in kept \ {a}
        \/ k \in kept \ {a} /\ l = a
    <3>1. <<k, l>> \in {p \in older : {p[1], p[2]} \subseteq kept \ {a}}
          \/ <<k, l>> \in (kept \ {a}) \X {a}
      BY <1>1, <2>1
    <3>2. QED BY <3>1
  <2>3. k # a /\ k \in Apps
    BY <1>3, <2>2
  <2>4. CASE l = a
    BY <1>9, <2>3, <2>4
  <2>5. CASE l # a
    <3>1. k \in DOMAIN entries /\ l \in DOMAIN entries /\ <<k, l>> \in older
      BY <1>3, <2>2, <2>5
    <3>2. l \in since[k]
      BY <3>1 DEF ThreadInv
    <3>3. QED BY <1>9, <2>3, <3>2
  <2>6. QED BY <2>4, <2>5
<1>13. \A b \in Apps \ DOMAIN entries' :
         shown'[b].thread # 0 => b \in since'[b] \/ Cardinality(since'[b]) >= Limit
  <2>1. SUFFICES ASSUME NEW b \in Apps \ DOMAIN entries', shown'[b].thread # 0
                 PROVE  b \in since'[b] \/ Cardinality(since'[b]) >= Limit
    OBVIOUS
  <2>2. b # a /\ b \notin kept /\ shown[b].thread # 0 /\ since'[b] = since[b] \cup {a}
    BY <1>1, <1>6, <1>9, <2>1
  <2>3. CASE b \in DOMAIN entries
    <3>1. a \notin DOMAIN entries /\ (b \in stale \/ b \in Evicted(DOMAIN entries \ stale))
      BY <1>3, <2>2, <2>3
    <3>2. CASE b \in stale
      BY <2>2, <3>2 DEF ThreadInv
    <3>3. CASE b \in Evicted(DOMAIN entries \ stale)
      BY <2>2, <3>1, <3>3, EvictedWasPassed
    <3>4. QED BY <3>1, <3>2, <3>3
  <2>4. CASE b \notin DOMAIN entries
    <3>1. b \in since[b] \/ Cardinality(since[b]) >= Limit
      BY <2>2, <2>4 DEF ThreadInv
    <3>2. CASE Cardinality(since[b]) >= Limit
      <4>1. IsFiniteSet(since[b]) /\ IsFiniteSet(since'[b]) /\ since[b] \in SUBSET since'[b]
        BY <1>9, <2>2 DEF ThreadInv
      <4>2. Cardinality(since[b]) <= Cardinality(since'[b])
        BY <4>1, FS_Subset
      <4>3. Cardinality(since[b]) \in Nat /\ Cardinality(since'[b]) \in Nat /\ Limit \in Nat
        BY <4>1, FS_CardinalityType, ConversationAssumption
      <4>4. QED BY <3>2, <4>2, <4>3
    <3>3. QED BY <2>2, <3>1, <3>2
  <2>5. QED BY <2>3, <2>4
<1>14. (\A b \in Apps : ShownOk(shown[b]) /\ IsFiniteSet(since[b]))'
  BY <1>8, <1>9
<1>15. QED BY <1>6, <1>7, <1>10, <1>11, <1>12, <1>13, <1>14 DEF ThreadInv

\* What the action property says of one conversation.
OneThreadOf(a) ==
  LET was == shown[a]
      now == shown'[a]
  IN  was.thread # 0 /\ now # was =>
        IF now.thread # was.thread
        THEN a \in since[a] \/ Cardinality(since[a]) >= Limit
        ELSE /\ now.turn = was.turn <=> now.said = was.said
             /\ \A i \in DOMAIN now.items :
                  /\ i \in DOMAIN was.items /\ was.items[i] = now.items[i] =>
                       now.ids[i] = was.ids[i]
                  /\ \A j \in DOMAIN now.items : now.ids[i] = now.ids[j] => i = j

LEMMA SendsOnOneThread ==
  ASSUME ThreadInv, NEW a \in Apps, NEW items \in Histories(a), Sends(a, items)
  PROVE  \A b \in Apps : OneThreadOf(b)
<1> DEFINE now == NowOf(a, items)
           e == entries[a]
           ids == [i \in DOMAIN items |-> now.ids[<<i, items[i]>>]]
           next == [thread |-> now.thread, turn |-> now.turn, said |-> LastUser(items),
                    items |-> items, ids |-> ids]
<1>1. shown' = [b \in Apps |-> IF b = a THEN next ELSE shown[b]]
  <2>1. DOMAIN shown = Apps
    BY DEF ThreadInv
  <2>2. QED BY <2>1 DEF Sends, NowOf, EntryOf
<1>2. items \in Seq(Sayings)
  BY HistoriesAre
<1>3. /\ EntryOk(now) /\ Placed(now.ids, items) /\ now.user = LastUser(items)
      /\ a \in DOMAIN entries =>
           /\ now.thread = e.thread
           /\ now.turn = e.turn <=> LastUser(items) = e.user
           /\ \A p \in DOMAIN e.ids : p \in DOMAIN now.ids /\ now.ids[p] = e.ids[p]
      /\ a \notin DOMAIN entries => now.thread # shown[a].thread
  BY <1>2, NowIs
<1>4. \A i \in DOMAIN items : ids[i] = now.ids[<<i, items[i]>>]
  OBVIOUS
<1>5. /\ next.thread = now.thread /\ next.turn = now.turn /\ next.said = LastUser(items)
      /\ next.items = items /\ next.ids = ids
  <2> HIDE DEF ids, now
  <2>1. QED OBVIOUS
<1> HIDE DEF now, next, ids
<1>6. \A b \in Apps : b # a => OneThreadOf(b)
  BY <1>1 DEF OneThreadOf
<1>7. shown'[a] = next
  BY <1>1
<1>8. CASE a \notin DOMAIN entries
  <2>1. next.thread # shown[a].thread
    BY <1>3, <1>5, <1>8
  <2>2. shown[a].thread # 0 => a \in since[a] \/ Cardinality(since[a]) >= Limit
    BY <1>8 DEF ThreadInv
  <2>3. OneThreadOf(a)
    BY <1>7, <2>1, <2>2 DEF OneThreadOf
  <2>4. QED BY <1>6, <2>3
<1>9. CASE a \in DOMAIN entries
  <2>1. Agree(e, shown[a]) /\ EntryOk(e)
    BY <1>9 DEF ThreadInv
  <2>2. next.thread = shown[a].thread
    BY <1>3, <1>5, <1>9, <2>1 DEF Agree
  <2>3. next.turn = shown[a].turn <=> next.said = shown[a].said
    BY <1>3, <1>5, <1>9, <2>1 DEF Agree
  <2>4. ASSUME NEW i \in DOMAIN items, i \in DOMAIN shown[a].items, shown[a].items[i] = items[i]
        PROVE  ids[i] = shown[a].ids[i]
    <3>1. shown[a].ids[i] = e.ids[<<i, items[i]>>] /\ <<i, items[i]>> \in DOMAIN e.ids
      BY <2>1, <2>4 DEF Agree, Placed
    <3>2. now.ids[<<i, items[i]>>] = e.ids[<<i, items[i]>>]
      BY <1>3, <1>9, <3>1
    <3>3. QED BY <1>4, <3>1, <3>2
  <2>5. ASSUME NEW i \in DOMAIN items, NEW j \in DOMAIN items, ids[i] = ids[j]
        PROVE  i = j
    <3>1. /\ <<i, items[i]>> \in DOMAIN now.ids /\ <<j, items[j]>> \in DOMAIN now.ids
          /\ now.ids[<<i, items[i]>>] = now.ids[<<j, items[j]>>]
      BY <1>3, <1>4, <2>5 DEF Placed
    <3>2. <<i, items[i]>> = <<j, items[j]>>
      BY <1>3, <3>1 DEF EntryOk, IdsOk
    <3>3. QED BY <3>2
  <2>6. OneThreadOf(a)
    BY <1>5, <1>7, <2>2, <2>3, <2>4, <2>5 DEF OneThreadOf
  <2>7. QED BY <1>6, <2>6
<1>10. QED BY <1>8, <1>9

LEMMA ThreadNextInv == ThreadInv /\ [ThreadNext]_threadVars => ThreadInv'
<1>1. SUFFICES ASSUME ThreadInv, [ThreadNext]_threadVars
               PROVE  ThreadInv'
  OBVIOUS
<1>2. CASE UNCHANGED threadVars
  BY <1>1, <1>2 DEF threadVars, ThreadInv, ShownOk, EntryOk, IdsOk, Agree, Placed
<1>3. ASSUME NEW a \in Apps, NEW items \in Histories(a), Sends(a, items)
      PROVE  ThreadInv'
  BY <1>1, <1>3, SendsKeep
<1>4. ASSUME NEW used \in SUBSET Apps, DayPasses(used)
      PROVE  ThreadInv'
  BY <1>1, <1>4, DaysKeep
<1>5. CASE Restart
  BY <1>1, <1>5, RestartKeeps
<1>6. QED BY <1>1, <1>2, <1>3, <1>4, <1>5 DEF ThreadNext

LEMMA ThreadInvariant == ThreadSpec => []ThreadInv
<1>1. QED BY ThreadInitInv, ThreadNextInv, PTL DEF ThreadSpec

LEMMA ThreadStep ==
  ThreadInv /\ [ThreadNext]_threadVars => [\A a \in Apps : OneThreadOf(a)]_threadVars
<1>1. SUFFICES ASSUME ThreadInv, ThreadNext
               PROVE  \A a \in Apps : OneThreadOf(a)
  OBVIOUS
<1>2. ASSUME NEW a \in Apps, NEW items \in Histories(a), Sends(a, items)
      PROVE  \A b \in Apps : OneThreadOf(b)
  BY <1>1, <1>2, SendsOnOneThread
<1>3. ASSUME NEW used \in SUBSET Apps, DayPasses(used)
      PROVE  \A b \in Apps : OneThreadOf(b)
  BY <1>3 DEF DayPasses, OneThreadOf
<1>4. CASE Restart
  BY <1>4 DEF Restart, OneThreadOf
<1>5. QED BY <1>1, <1>2, <1>3, <1>4 DEF ThreadNext

(* Whatever the conversations, the room for them and what their requests    *)
(* hold, upstream sees one Codex thread of each: it changes only after a    *)
(* day without it, a restart, or as many others as the pool keeps, its turn *)
(* changes exactly with the last thing the user said, and its items keep    *)
(* identifiers of their own (codex_request.rs, Conversations::turn).        *)
THEOREM OneThreadKept == ThreadSpec => OneThread
<1>1. [][\A a \in Apps : OneThreadOf(a)]_threadVars => OneThread
  BY DEF OneThread, OneThreadOf
<1>2. QED BY <1>1, ThreadInvariant, ThreadStep, PTL DEF ThreadSpec
=============================================================================
