------------------------------ MODULE ValueProofs ------------------------------
(***************************************************************************)
(* That Decode takes the objects a schema describes, for every schema and  *)
(* every object, that what Encode writes of one is read back, and that     *)
(* the variants of a sum are told apart, for every sum and every value.    *)
(***************************************************************************)
EXTENDS ObjectCodec, SumTypes, SequenceTheorems, FiniteSetTheorems, TLAPS

-----------------------------------------------------------------------------
(* What reading n members has established.  Neither property speaks of an  *)
(* object that is half read or half written: CInv adds that the fields and *)
(* maps hold the last value under each name so far, that the bits set are  *)
(* those of the required names met, and that what is written and what is   *)
(* still to be written make up the Go value that was read.                 *)

KeysTo(n) == {incoming[i].key : i \in 1..n}
IsLast(n, i) == \A l \in 1..n : l > i => incoming[l].key # incoming[i].key
FieldNamed == {Field(i).name : i \in JSONFields}

\* What Decode takes of a member.
Taken(m) ==
  IF m.key \in FieldNamed THEN \A i \in JSONFields : Field(i).name = m.key => m.value \in Field(i).values
  ELSE \/ \E p \in DOMAIN shape.patterns : PatternsOf(m.key) = {p} /\ m.value \in shape.patterns[p].values
       \/ PatternsOf(m.key) = {} /\ shape.additional = "yes" /\ m.value \in shape.item
       \/ PatternsOf(m.key) = {} /\ shape.additional = "unset"

ExtraKeys(n) == {k \in KeysTo(n) : k \notin FieldNamed /\ PatternsOf(k) = {} /\ shape.additional = "yes"}
PatternKeys(n, p) == {k \in KeysTo(n) : k \notin FieldNamed /\ PatternsOf(k) = {p}}
Required(n) ==
  [b \in Bytes |-> {Bit(i) : i \in {j \in JSONFields : /\ Byte(j) = b /\ Field(j).required
                                                       /\ Field(j).name \in KeysTo(n)}}]

\* The Go value is made of functions.
IsHeld(h) ==
  /\ h = [fields |-> h.fields, extra |-> h.extra, matched |-> h.matched]
  /\ h.fields = [i \in JSONFields |-> h.fields[i]]
  /\ h.extra = [k \in DOMAIN h.extra |-> h.extra[k]]
  /\ h.matched = [p \in DOMAIN shape.patterns |-> h.matched[p]]
  /\ \A p \in DOMAIN shape.patterns : h.matched[p] = [k \in DOMAIN h.matched[p] |-> h.matched[p][k]]

FieldsRead(h, n) ==
  \A i \in JSONFields :
    /\ Field(i).name \notin KeysTo(n) => h.fields[i] = Field(i).default
    /\ \A j \in 1..n : incoming[j].key = Field(i).name /\ IsLast(n, j) => h.fields[i] = {incoming[j].value}
ExtraRead(h, n) ==
  /\ DOMAIN h.extra = ExtraKeys(n)
  /\ \A j \in 1..n : incoming[j].key \in ExtraKeys(n) /\ IsLast(n, j) => h.extra[incoming[j].key] = incoming[j].value
PatternRead(h, n, p) ==
  /\ DOMAIN h.matched[p] = PatternKeys(n, p)
  /\ \A j \in 1..n : incoming[j].key \in PatternKeys(n, p) /\ IsLast(n, j) =>
       h.matched[p][incoming[j].key] = incoming[j].value
PatternsRead(h, n) == \A p \in DOMAIN shape.patterns : PatternRead(h, n, p)
HeldRead(h, n) == IsHeld(h) /\ FieldsRead(h, n) /\ ExtraRead(h, n) /\ PatternsRead(h, n)

LastThere(n) == \A j \in 1..n : \E l \in 1..n : incoming[l].key = incoming[j].key /\ IsLast(n, l)
AllTaken(n) == \A j \in 1..n : Taken(incoming[j])
ReadSoFar(n) ==
  /\ n \in 0..Len(incoming) /\ AllTaken(n) /\ LastThere(n)
  /\ bitSet = Required(n) /\ HeldRead(held, n) /\ lacking = {}

Missing(n) == {Field(i).name : i \in {j \in JSONFields : Field(j).required /\ Field(j).name \notin KeysTo(n)}}
InBounds(n) == (\A m \in shape.max : n <= m) /\ (\A m \in shape.min : n >= m)

\* Why an object is refused.
Refused ==
  \/ lacking = {} /\ \E j \in 1..Len(incoming) : ~Taken(incoming[j])
  \/ lacking = {} /\ AllTaken(Len(incoming)) /\ ~InBounds(Len(incoming))
  \/ lacking = Missing(Len(incoming)) /\ lacking # {}

\* What a value that was read is known to hold, and how it is written.
Carries(h) ==
  /\ IsHeld(h)
  /\ \A i \in JSONFields : /\ h.fields[i] \subseteq Field(i).values /\ AtMostOne(h.fields[i])
                           /\ Field(i).required \/ Field(i).default # {} => h.fields[i] # {}
  /\ \A k \in DOMAIN h.extra : /\ k \notin FieldNamed /\ PatternsOf(k) = {} /\ shape.additional = "yes"
                               /\ h.extra[k] \in shape.item
  /\ \A p \in DOMAIN shape.patterns : \A k \in DOMAIN h.matched[p] :
       k \notin FieldNamed /\ PatternsOf(k) = {p} /\ h.matched[p][k] \in shape.patterns[p].values
ConstKept(h) == \A i \in JSONFields : Field(i).const \in {{}, h.fields[i]}
SameMember(m, n) == m.key = n.key /\ m.value = n.value
Written(ps) ==
  /\ unwritten \subseteq ps
  /\ \A m \in ps \ unwritten : \E i \in DOMAIN incoming : SameMember(incoming[i], m)
  /\ \A i \in DOMAIN incoming : \E m \in ps \ unwritten : SameMember(incoming[i], m)
  /\ \A i, j \in DOMAIN incoming : i # j => incoming[i].key # incoming[j].key

FirstRound == rounds = <<incoming>> /\ reading # "encode"
SecondRound ==
  /\ \/ rounds = <<rounds[1], rounds[2]>> /\ rounds[2] = held /\ reading = "encode"
     \/ /\ rounds = <<rounds[1], rounds[2], incoming>> /\ unwritten = {}
        /\ reading \in {"start", "members", "read", "error"}
  /\ Carries(rounds[2]) /\ InBounds(Len(rounds[1]))
  /\ ConstKept(rounds[2]) => Written(Pieces(rounds[2]))
CInv ==
  /\ ShapeSound(shape) /\ IsSequence(incoming)
  /\ reading = "members" => ReadSoFar(propertiesCount)
  /\ reading = "read" => /\ ReadSoFar(Len(incoming)) /\ InBounds(Len(incoming))
                         /\ Missing(Len(incoming)) = {}
  /\ reading = "error" => Refused
  /\ FirstRound \/ SecondRound

-----------------------------------------------------------------------------
\* One more member.
LEMMA NextKeys ==
  ASSUME NEW n \in Nat
  PROVE  /\ KeysTo(n + 1) = KeysTo(n) \cup {incoming[n + 1].key} /\ KeysTo(0) = {}
         /\ IsLast(n + 1, n + 1)
         /\ \A j \in 1..n : IsLast(n + 1, j) <=> IsLast(n, j) /\ incoming[j].key # incoming[n + 1].key
<1>1. 1..(n + 1) = (1..n) \cup {n + 1} /\ 1..0 = {}
  OBVIOUS
<1>2. KeysTo(n + 1) = KeysTo(n) \cup {incoming[n + 1].key} /\ KeysTo(0) = {}
  BY <1>1 DEF KeysTo
<1>3. IsLast(n + 1, n + 1)
  BY DEF IsLast
<1>4. ASSUME NEW j \in 1..n
      PROVE  IsLast(n + 1, j) <=> IsLast(n, j) /\ incoming[j].key # incoming[n + 1].key
  BY <1>1 DEF IsLast
<1>5. QED
  BY <1>2, <1>3, <1>4

LEMMA NextLast ==
  ASSUME NEW n \in Nat, LastThere(n)
  PROVE  LastThere(n + 1)
<1> SUFFICES ASSUME NEW j \in 1..(n + 1)
             PROVE  \E l \in 1..(n + 1) : incoming[l].key = incoming[j].key /\ IsLast(n + 1, l)
  BY DEF LastThere
<1>1. CASE incoming[j].key = incoming[n + 1].key
  <2>1. n + 1 \in 1..(n + 1)
    OBVIOUS
  <2>2. QED
    BY <1>1, <2>1, NextKeys
<1>2. CASE incoming[j].key # incoming[n + 1].key
  <2>1. j \in 1..n
    BY <1>2
  <2>2. PICK l \in 1..n : incoming[l].key = incoming[j].key /\ IsLast(n, l)
    BY <2>1 DEF LastThere
  <2>3. l \in 1..(n + 1) /\ IsLast(n + 1, l)
    BY <1>2, <2>2, NextKeys
  <2>4. QED
    BY <2>2, <2>3
<1>3. QED
  BY <1>1, <1>2

LEMMA NextTaken ==
  ASSUME NEW n \in Nat, AllTaken(n), Taken(incoming[n + 1])
  PROVE  AllTaken(n + 1)
  BY DEF AllTaken

LEMMA SequenceIndices ==
  ASSUME NEW s, IsSequence(s)
  PROVE  Len(s) \in Nat /\ DOMAIN s = 1..Len(s)
<1> DEFINE S == ToSet(s)
<1>1. s \in Seq(S)
  BY DEF IsSequence
<1> HIDE DEF S
<1>2. QED
  BY <1>1

\* The bit of a field in a byte.
LEMMA Places ==
  ASSUME ShapeSound(shape)
  PROVE  /\ \A i \in JSONFields : Position(i) \in Nat /\ Byte(i) \in Nat /\ Bit(i) \in 0..7
                                  /\ Position(i) = 8 * Byte(i) + Bit(i)
         /\ \A i, j \in JSONFields : Position(i) = Position(j) => i = j
         /\ \A i, j \in JSONFields : Field(i).name = Field(j).name => i = j
         /\ JSONFields \subseteq 1..Len(shape.properties)
<1>1. JSONFields \subseteq 1..Len(shape.properties) /\ Len(shape.properties) \in Nat
  <2>1. IsSequence(shape.properties)
    BY DEF ShapeSound
  <2>2. JSONFields \subseteq DOMAIN shape.properties
    BY DEF JSONFields
  <2>3. QED
    BY <2>1, <2>2, SequenceIndices
<1>2. IsFiniteSet(JSONFields)
  <2>1. IsFiniteSet(1..Len(shape.properties))
    BY <1>1, FS_Interval
  <2>2. QED
    BY <1>1, <2>1, FS_Subset
<1> DEFINE Before(i) == {j \in JSONFields : j < i}
<1>3. \A i \in JSONFields : IsFiniteSet(Before(i)) /\ Cardinality(Before(i)) \in Nat
  BY <1>2, FS_Subset, FS_CardinalityType
<1>4. \A i \in JSONFields : Position(i) = Cardinality(Before(i))
  BY DEF Position
<1> HIDE DEF Before
<1>5. ASSUME NEW i \in JSONFields, NEW j \in JSONFields, i < j
      PROVE  Position(i) < Position(j)
  <2>1. Before(i) \subseteq Before(j) /\ i \in Before(j) /\ i \notin Before(i)
    <3>1. i \in Int /\ j \in Int /\ \A k \in JSONFields : k \in Int
      BY <1>1
    <3>2. \A k \in JSONFields : k < i => k < j
      BY <1>5, <3>1
    <3>3. Before(i) \subseteq Before(j)
      BY <3>2 DEF Before
    <3>4. i \in Before(j)
      BY <1>5 DEF Before
    <3>5. i \notin Before(i)
      BY <3>1 DEF Before
    <3>6. QED
      BY <3>3, <3>4, <3>5
  <2>2. Before(i) # Before(j)
    BY <2>1
  <2>3. QED
    BY <1>3, <1>4, <2>1, <2>2, FS_Subset
<1>6. \A i, j \in JSONFields : Position(i) = Position(j) => i = j
  <2> SUFFICES ASSUME NEW i \in JSONFields, NEW j \in JSONFields, i # j PROVE Position(i) # Position(j)
    OBVIOUS
  <2>1. i < j \/ j < i
    BY <1>1
  <2>2. Position(i) < Position(j) \/ Position(j) < Position(i)
    BY <1>5, <2>1
  <2>3. QED
    BY <1>3, <1>4, <2>2
<1>7. ASSUME NEW i \in JSONFields
      PROVE  Position(i) \in Nat /\ Byte(i) \in Nat /\ Bit(i) \in 0..7 /\ Position(i) = 8 * Byte(i) + Bit(i)
  <2>1. Position(i) \in Nat
    BY <1>3, <1>4
  <2>2. QED
    BY <2>1 DEF Byte, Bit
<1>8. \A i, j \in JSONFields : Field(i).name = Field(j).name => i = j
  BY DEF ShapeSound, JSONFields, Field
<1>9. QED
  BY <1>1, <1>6, <1>7, <1>8

\* What one more member does to the fields and to each map.
LEMMA FieldsStay ==
  ASSUME NEW n \in Nat, NEW h, NEW g, FieldsRead(h, n), g.fields = h.fields, incoming[n + 1].key \notin FieldNamed
  PROVE  FieldsRead(g, n + 1)
<1> SUFFICES ASSUME NEW i \in JSONFields
             PROVE  /\ Field(i).name \notin KeysTo(n + 1) => g.fields[i] = Field(i).default
                    /\ \A j \in 1..(n + 1) : incoming[j].key = Field(i).name /\ IsLast(n + 1, j) =>
                         g.fields[i] = {incoming[j].value}
  BY DEF FieldsRead
<1>1. Field(i).name # incoming[n + 1].key
  BY DEF FieldNamed
<1>2. Field(i).name \notin KeysTo(n + 1) => g.fields[i] = Field(i).default
  BY NextKeys DEF FieldsRead
<1>3. ASSUME NEW j \in 1..(n + 1), incoming[j].key = Field(i).name, IsLast(n + 1, j)
      PROVE  g.fields[i] = {incoming[j].value}
  <2>1. j \in 1..n
    BY <1>1, <1>3
  <2>2. IsLast(n, j)
    BY <1>3, <2>1, NextKeys
  <2>3. QED
    BY <1>3, <2>1, <2>2 DEF FieldsRead
<1>4. QED
  BY <1>2, <1>3

LEMMA FieldIsRead ==
  ASSUME ShapeSound(shape), NEW n \in Nat, NEW h, NEW g, FieldsRead(h, n), NEW i \in JSONFields,
         Field(i).name = incoming[n + 1].key, g.fields[i] = {incoming[n + 1].value},
         \A j \in JSONFields : j # i => g.fields[j] = h.fields[j]
  PROVE  FieldsRead(g, n + 1)
<1> SUFFICES ASSUME NEW k \in JSONFields
             PROVE  /\ Field(k).name \notin KeysTo(n + 1) => g.fields[k] = Field(k).default
                    /\ \A j \in 1..(n + 1) : incoming[j].key = Field(k).name /\ IsLast(n + 1, j) =>
                         g.fields[k] = {incoming[j].value}
  BY DEF FieldsRead
<1>1. CASE k = i
  <2>1. Field(k).name \in KeysTo(n + 1)
    BY <1>1, NextKeys
  <2>2. ASSUME NEW j \in 1..(n + 1), incoming[j].key = Field(k).name, IsLast(n + 1, j)
        PROVE  j = n + 1
    <3>1. j \in 1..n => incoming[j].key # incoming[n + 1].key
      BY <2>2, NextKeys
    <3>2. QED
      BY <1>1, <2>2, <3>1
  <2>3. QED
    BY <1>1, <2>1, <2>2
<1>2. CASE k # i
  <2>1. Field(k).name # incoming[n + 1].key
    BY <1>2, Places
  <2>2. Field(k).name \notin KeysTo(n + 1) => g.fields[k] = Field(k).default
    BY <1>2, NextKeys DEF FieldsRead
  <2>3. ASSUME NEW j \in 1..(n + 1), incoming[j].key = Field(k).name, IsLast(n + 1, j)
        PROVE  g.fields[k] = {incoming[j].value}
    <3>1. j \in 1..n
      BY <2>1, <2>3
    <3>2. IsLast(n, j)
      BY <2>3, <3>1, NextKeys
    <3>3. QED
      BY <1>2, <2>3, <3>1, <3>2 DEF FieldsRead
  <2>4. QED
    BY <2>2, <2>3
<1>3. QED
  BY <1>1, <1>2

LEMMA ExtraStays ==
  ASSUME NEW n \in Nat, NEW h, NEW g, ExtraRead(h, n), g.extra = h.extra,
         \/ incoming[n + 1].key \in FieldNamed \/ PatternsOf(incoming[n + 1].key) # {}
         \/ shape.additional # "yes"
  PROVE  ExtraRead(g, n + 1)
<1>1. ExtraKeys(n + 1) = ExtraKeys(n) /\ incoming[n + 1].key \notin ExtraKeys(n)
  BY NextKeys DEF ExtraKeys
<1>2. ASSUME NEW j \in 1..(n + 1), incoming[j].key \in ExtraKeys(n), IsLast(n + 1, j)
      PROVE  g.extra[incoming[j].key] = incoming[j].value
  <2>1. j \in 1..n
    BY <1>1, <1>2
  <2>2. IsLast(n, j)
    BY <1>2, <2>1, NextKeys
  <2>3. QED
    BY <1>2, <2>1, <2>2 DEF ExtraRead
<1>3. DOMAIN g.extra = ExtraKeys(n)
  BY DEF ExtraRead
<1>4. QED
  BY <1>1, <1>2, <1>3 DEF ExtraRead

LEMMA PatternStays ==
  ASSUME NEW n \in Nat, NEW h, NEW g, NEW p, PatternRead(h, n, p), g.matched[p] = h.matched[p],
         incoming[n + 1].key \in FieldNamed \/ PatternsOf(incoming[n + 1].key) # {p}
  PROVE  PatternRead(g, n + 1, p)
<1>1. PatternKeys(n + 1, p) = PatternKeys(n, p) /\ incoming[n + 1].key \notin PatternKeys(n, p)
  BY NextKeys DEF PatternKeys
<1>2. ASSUME NEW j \in 1..(n + 1), incoming[j].key \in PatternKeys(n, p), IsLast(n + 1, j)
      PROVE  g.matched[p][incoming[j].key] = incoming[j].value
  <2>1. j \in 1..n
    BY <1>1, <1>2
  <2>2. IsLast(n, j)
    BY <1>2, <2>1, NextKeys
  <2>3. QED
    BY <1>2, <2>1, <2>2 DEF PatternRead
<1>3. DOMAIN g.matched[p] = PatternKeys(n, p)
  BY DEF PatternRead
<1>4. QED
  BY <1>1, <1>2, <1>3 DEF PatternRead

\* An entry of a map: the last value of a name is the one that stays.
With(entries, m) == [k \in {m.key} \cup DOMAIN entries |-> IF k = m.key THEN m.value ELSE entries[k]]

LEMMA ExtraIsRead ==
  ASSUME NEW n \in Nat, NEW h, NEW g, ExtraRead(h, n), g.extra = With(h.extra, incoming[n + 1]),
         incoming[n + 1].key \notin FieldNamed, PatternsOf(incoming[n + 1].key) = {}, shape.additional = "yes"
  PROVE  ExtraRead(g, n + 1)
<1> DEFINE last == incoming[n + 1].key
<1>1. ExtraKeys(n + 1) = {last} \cup ExtraKeys(n)
  BY NextKeys DEF ExtraKeys
<1>2. DOMAIN g.extra = {last} \cup ExtraKeys(n)
  BY DEF ExtraRead, With
<1>3. ASSUME NEW j \in 1..(n + 1), incoming[j].key \in ExtraKeys(n + 1), IsLast(n + 1, j)
      PROVE  g.extra[incoming[j].key] = incoming[j].value
  <2>1. CASE j = n + 1
    BY <1>2, <2>1 DEF With
  <2>2. CASE j \in 1..n
    <3>1. IsLast(n, j) /\ incoming[j].key # last
      BY <1>3, <2>2, NextKeys
    <3>2. incoming[j].key \in ExtraKeys(n)
      BY <1>1, <1>3, <3>1
    <3>3. h.extra[incoming[j].key] = incoming[j].value
      BY <2>2, <3>1, <3>2 DEF ExtraRead
    <3>4. QED
      BY <1>2, <3>1, <3>2, <3>3 DEF With
  <2>3. QED
    BY <2>1, <2>2
<1>4. QED
  BY <1>1, <1>2, <1>3 DEF ExtraRead

LEMMA PatternIsRead ==
  ASSUME NEW n \in Nat, NEW h, NEW g, NEW p, PatternRead(h, n, p),
         g.matched[p] = With(h.matched[p], incoming[n + 1]),
         incoming[n + 1].key \notin FieldNamed, PatternsOf(incoming[n + 1].key) = {p}
  PROVE  PatternRead(g, n + 1, p)
<1> DEFINE last == incoming[n + 1].key
<1>1. PatternKeys(n + 1, p) = {last} \cup PatternKeys(n, p)
  BY NextKeys DEF PatternKeys
<1>2. DOMAIN g.matched[p] = {last} \cup PatternKeys(n, p)
  BY DEF PatternRead, With
<1>3. ASSUME NEW j \in 1..(n + 1), incoming[j].key \in PatternKeys(n + 1, p), IsLast(n + 1, j)
      PROVE  g.matched[p][incoming[j].key] = incoming[j].value
  <2>1. CASE j = n + 1
    BY <1>2, <2>1 DEF With
  <2>2. CASE j \in 1..n
    <3>1. IsLast(n, j) /\ incoming[j].key # last
      BY <1>3, <2>2, NextKeys
    <3>2. incoming[j].key \in PatternKeys(n, p)
      BY <1>1, <1>3, <3>1
    <3>3. h.matched[p][incoming[j].key] = incoming[j].value
      BY <2>2, <3>1, <3>2 DEF PatternRead
    <3>4. QED
      BY <1>2, <3>1, <3>2, <3>3 DEF With
  <2>3. QED
    BY <2>1, <2>2
<1>4. QED
  BY <1>1, <1>2, <1>3 DEF PatternRead

\* The bits that stay unset are those of the required fields no member is named after.
LEMMA FailuresAreMissing ==
  ASSUME ShapeSound(shape), NEW n, bitSet = Required(n)
  PROVE  Failures = Missing(n)
<1> DEFINE R(b) == RequiredMask[b] \ bitSet[b]
<1>1. ASSUME NEW b \in Bytes
      PROVE  R(b) = {Bit(i) : i \in {j \in JSONFields : /\ Byte(j) = b /\ Field(j).required
                                                        /\ Field(j).name \notin KeysTo(n)}}
  <2>1. RequiredMask[b] = {Bit(i) : i \in {j \in JSONFields : Byte(j) = b /\ Field(j).required}}
    BY DEF RequiredMask
  <2>2. bitSet[b] = {Bit(i) : i \in {j \in JSONFields : Byte(j) = b /\ Field(j).required
                                                        /\ Field(j).name \in KeysTo(n)}}
    BY DEF Required
  <2>3. ASSUME NEW i \in JSONFields, NEW j \in JSONFields, Byte(i) = Byte(j), Bit(i) = Bit(j)
        PROVE  i = j
    BY <2>3, Places
  <2>4. QED
    BY <2>1, <2>2, <2>3
<1>2. ASSUME NEW x \in Failures PROVE x \in Missing(n)
  <2>0. PICK b \in Bytes : \E bit \in R(b) : x \in NamesAt(8 * b + bit)
    BY DEF Failures
  <2>1. PICK bit \in R(b) : x \in NamesAt(8 * b + bit)
    BY <2>0
  <2>2. PICK i \in JSONFields : Byte(i) = b /\ Bit(i) = bit /\ Field(i).required /\ Field(i).name \notin KeysTo(n)
    BY <1>1, <2>1
  <2>3. PICK j \in JSONFields : Position(j) = 8 * b + bit /\ x = Field(j).name
    BY <2>1 DEF NamesAt
  <2>4. i = j
    BY <2>2, <2>3, Places
  <2>5. QED
    BY <2>2, <2>3, <2>4 DEF Missing
<1>3. ASSUME NEW x \in Missing(n) PROVE x \in Failures
  <2>1. PICK i \in JSONFields : x = Field(i).name /\ Field(i).required /\ Field(i).name \notin KeysTo(n)
    BY DEF Missing
  <2>2. Byte(i) \in Bytes /\ Bit(i) \in R(Byte(i)) /\ x \in NamesAt(8 * Byte(i) + Bit(i))
    <3>1. Byte(i) \in Bytes
      BY DEF Bytes
    <3>2. Bit(i) \in R(Byte(i))
      BY <1>1, <2>1, <3>1
    <3>3. x \in NamesAt(8 * Byte(i) + Bit(i))
      BY <2>1, Places DEF NamesAt
    <3>4. QED
      BY <3>1, <3>2, <3>3
  <2> HIDE DEF R
  <2>3. x \in UNION {NamesAt(8 * Byte(i) + bit) : bit \in R(Byte(i))}
    BY <2>2
  <2>4. QED
    BY <2>2, <2>3 DEF Failures, R
<1>4. QED
  BY <1>2, <1>3

-----------------------------------------------------------------------------
\* The members of the object, by their place.
LEMMA KeysAre ==
  ASSUME IsSequence(incoming)
  PROVE  /\ Len(incoming) \in Nat /\ DOMAIN incoming = 1..Len(incoming)
         /\ Keys(incoming) = KeysTo(Len(incoming))
<1>1. Len(incoming) \in Nat /\ DOMAIN incoming = 1..Len(incoming)
  BY SequenceIndices
<1>2. QED
  BY <1>1 DEF Keys, KeysTo

LEMMA DeclaredFields ==
  ASSUME ShapeSound(shape)
  PROVE  /\ \A i \in JSONFields : Field(i) \in Declared
         /\ \A q \in Declared : q.name # empty => \E i \in JSONFields : q = Field(i)
<1>1. ASSUME NEW i \in JSONFields PROVE Field(i) \in Declared
  BY DEF JSONFields, Field, Declared
<1>2. ASSUME NEW q \in Declared, q.name # empty PROVE \E i \in JSONFields : q = Field(i)
  <2>1. PICK i \in DOMAIN shape.properties : q = shape.properties[i]
    BY DEF Declared
  <2>2. i \in JSONFields /\ q = Field(i)
    BY <1>2, <2>1 DEF JSONFields, Field
  <2>3. QED
    BY <2>2
<1>3. QED
  BY <1>1, <1>2

\* A set of indices of a list with at most one member is empty or a singleton.
LEMMA OneOrNone ==
  ASSUME ShapeSound(shape), NEW k, ~(Cardinality(PatternsOf(k)) > 1), PatternsOf(k) # {}
  PROVE  \E p \in DOMAIN shape.patterns : PatternsOf(k) = {p}
<1>1. Len(shape.patterns) \in Nat /\ DOMAIN shape.patterns = 1..Len(shape.patterns)
  BY SequenceIndices DEF ShapeSound
<1>2. PatternsOf(k) \subseteq 1..Len(shape.patterns)
  BY <1>1 DEF PatternsOf
<1>3. IsFiniteSet(PatternsOf(k))
  <2>1. IsFiniteSet(1..Len(shape.patterns))
    BY <1>1, FS_Interval
  <2>2. QED
    BY <1>2, <2>1, FS_Subset
<1>4. Cardinality(PatternsOf(k)) \in Nat /\ Cardinality(PatternsOf(k)) # 0
  BY <1>3, FS_CardinalityType, FS_EmptySet
<1>5. Cardinality(PatternsOf(k)) = 1
  BY <1>4
<1>6. PICK p : PatternsOf(k) = {p}
  BY <1>3, <1>5, FS_Singleton
<1>7. QED
  BY <1>1, <1>2, <1>6

\* Decode takes a member when the schema allows it, but for what it overlooks.
LEMMA TakenIffAllowed ==
  ASSUME ShapeSound(shape), IsSequence(incoming), received = incoming, ~Overlooked,
         NEW j \in 1..Len(incoming)
  PROVE  Taken(incoming[j]) <=> MemberAllowed(incoming[j])
<1> DEFINE m == incoming[j]
<1>1. m.key \in Keys(received) /\ j \in DOMAIN received
  BY KeysAre DEF Keys
<1>2. \A q \in Declared : q.name # empty /\ PatternsOf(q.name) = {}
  BY DEF Overlooked
<1>3. CASE m.key \in FieldNamed
  <2>1. PICK i \in JSONFields : Field(i).name = m.key
    BY <1>3 DEF FieldNamed
  <2>2. \A q \in Declared : q.name = m.key => q = Field(i)
    BY <1>2, <2>1, DeclaredFields, Places
  <2>3. Field(i) \in Declared
    BY DeclaredFields
  <2>4. PatternsOf(m.key) = {} /\ Described(m.key)
    BY <1>2, <2>1, <2>3 DEF Described
  <2>5. Field(i).const # {} => m.value \in Field(i).const
    BY <1>1, <2>1, <2>3 DEF Overlooked
  <2>6. Taken(m) <=> m.value \in Field(i).values
    BY <1>3, <2>1, Places DEF Taken
  <2>7. MemberAllowed(m) <=> m.value \in Field(i).values
    BY <2>1, <2>2, <2>3, <2>4, <2>5 DEF MemberAllowed
  <2>8. QED
    BY <2>6, <2>7
<1>4. CASE m.key \notin FieldNamed
  <2>1. \A q \in Declared : q.name # m.key
    <3>1. SUFFICES ASSUME NEW q \in Declared, q.name = m.key PROVE FALSE
      OBVIOUS
    <3>2. PICK i \in JSONFields : q = Field(i)
      BY <1>2, DeclaredFields
    <3>3. QED
      BY <1>4, <3>1, <3>2 DEF FieldNamed
  <2>2. CASE PatternsOf(m.key) = {}
    <3>1. ~Described(m.key)
      BY <2>1, <2>2 DEF Described
    <3>2. MemberAllowed(m) <=> shape.additional = "unset" \/ (shape.additional = "yes" /\ m.value \in shape.item)
      BY <2>1, <2>2, <3>1 DEF MemberAllowed
    <3>3. QED
      BY <1>4, <2>2, <3>2 DEF Taken
  <2>3. CASE PatternsOf(m.key) # {}
    <3>1. ~(Cardinality(PatternsOf(m.key)) > 1)
      BY <1>1 DEF Overlooked
    <3>2. PICK p \in DOMAIN shape.patterns : PatternsOf(m.key) = {p}
      BY <2>3, <3>1, OneOrNone
    <3>3. Described(m.key)
      BY <2>3 DEF Described
    <3>4. MemberAllowed(m) <=> m.value \in shape.patterns[p].values
      BY <2>1, <3>2, <3>3 DEF MemberAllowed
    <3>5. Taken(m) <=> m.value \in shape.patterns[p].values
      BY <1>4, <3>2 DEF Taken
    <3>6. QED
      BY <3>4, <3>5
  <2>4. QED
    BY <2>2, <2>3
<1>5. QED
  BY <1>3, <1>4

LEMMA MissingAre ==
  ASSUME ShapeSound(shape), IsSequence(incoming), received = incoming, ~Overlooked
  PROVE  Missing(Len(incoming)) = MissingOf(received)
<1>1. Keys(received) = KeysTo(Len(incoming))
  BY KeysAre
<1>2. \A q \in Declared : q.name # empty
  BY DEF Overlooked
<1>3. ASSUME NEW x \in Missing(Len(incoming)) PROVE x \in MissingOf(received)
  <2>1. PICK i \in JSONFields : x = Field(i).name /\ Field(i).required /\ Field(i).name \notin KeysTo(Len(incoming))
    BY DEF Missing
  <2>2. QED
    BY <1>1, <2>1, DeclaredFields DEF MissingOf
<1>4. ASSUME NEW x \in MissingOf(received) PROVE x \in Missing(Len(incoming))
  <2>1. PICK q \in Declared : x = q.name /\ q.required /\ q.name \notin KeysTo(Len(incoming))
    BY <1>1 DEF MissingOf
  <2>2. PICK i \in JSONFields : q = Field(i)
    BY <1>2, <2>1, DeclaredFields
  <2>3. QED
    BY <2>1, <2>2 DEF Missing
<1>5. QED
  BY <1>3, <1>4

LEMMA ReadsConforming ==
  ASSUME CInv
  PROVE  ReadIffConforms
<1> SUFFICES ASSUME reading \in {"read", "error"}, Len(rounds) = 1, ~Overlooked
             PROVE  /\ NamedOnce(received) => (reading = "read" <=> Conforms(received))
                    /\ lacking \in {{}, MissingOf(received)}
                    /\ reading = "read" => \A i \in JSONFields :
                         held.fields[i] = IF Field(i).name \in Keys(received) THEN LastSent(Field(i).name)
                                          ELSE Field(i).default
  BY DEF ReadIffConforms
<1> DEFINE n == Len(incoming)
<1>1. ShapeSound(shape) /\ IsSequence(incoming)
  BY DEF CInv
<1>2. received = incoming
  <2>1. rounds = <<incoming>>
    <3>1. ~SecondRound
      BY DEF SecondRound
    <3>2. QED
      BY <3>1 DEF CInv, FirstRound
  <2>2. QED
    BY <2>1 DEF received
<1>3. n \in Nat /\ DOMAIN incoming = 1..n /\ Keys(received) = KeysTo(n)
  BY <1>1, <1>2, KeysAre
<1>4. Missing(n) = MissingOf(received)
  BY <1>1, <1>2, MissingAre
<1>5. \A j \in 1..n : Taken(incoming[j]) <=> MemberAllowed(incoming[j])
  BY <1>1, <1>2, TakenIffAllowed
<1>6. NamedOnce(received) =>
        (Conforms(received) <=> Missing(n) = {} /\ AllTaken(n) /\ InBounds(n))
  BY <1>2, <1>3, <1>4, <1>5 DEF NamedOnce, Conforms, AllTaken, InBounds
<1>7. CASE reading = "read"
  <2>1. ReadSoFar(n) /\ InBounds(n) /\ Missing(n) = {}
    BY <1>7 DEF CInv
  <2>2. AllTaken(n) /\ lacking = {} /\ LastThere(n) /\ FieldsRead(held, n)
    BY <2>1 DEF ReadSoFar, HeldRead
  <2>3. ASSUME NEW i \in JSONFields
        PROVE  held.fields[i] = IF Field(i).name \in Keys(received) THEN LastSent(Field(i).name)
                                ELSE Field(i).default
    <3>1. CASE Field(i).name \notin Keys(received)
      BY <1>3, <2>2, <3>1 DEF FieldsRead
    <3>2. CASE Field(i).name \in Keys(received)
      <4>1. PICK k \in 1..n : incoming[k].key = Field(i).name
        BY <1>3, <3>2 DEF KeysTo
      <4>2. PICK j \in 1..n : incoming[j].key = Field(i).name /\ IsLast(n, j)
        BY <2>2, <4>1 DEF LastThere
      <4>3. held.fields[i] = {incoming[j].value}
        BY <2>2, <4>2 DEF FieldsRead
      <4>4. \A l \in 1..n : l > j => incoming[l].key # Field(i).name
        BY <4>2 DEF IsLast
      <4>5. ASSUME NEW l \in 1..n, incoming[l].key = Field(i).name,
                   \A o \in 1..n : o > l => incoming[o].key # Field(i).name
            PROVE  l = j
        BY <1>3, <4>2, <4>4, <4>5
      <4>6. LastSent(Field(i).name) = {incoming[j].value}
        <5>1. {l \in DOMAIN received : /\ received[l].key = Field(i).name
                                       /\ \A o \in DOMAIN received : o > l => received[o].key # Field(i).name} = {j}
          BY <1>2, <1>3, <4>2, <4>4, <4>5
        <5>2. QED
          BY <1>2, <5>1 DEF LastSent
      <4>7. QED
        BY <3>2, <4>3, <4>6
    <3>3. QED
      BY <3>1, <3>2
  <2>4. QED
    BY <1>6, <1>7, <2>1, <2>2, <2>3
<1>8. CASE reading = "error"
  <2>1. Refused
    BY <1>8 DEF CInv
  <2>2. ~(Missing(n) = {} /\ AllTaken(n) /\ InBounds(n)) /\ lacking \in {{}, Missing(n)}
    BY <2>1 DEF Refused, AllTaken
  <2>3. QED
    BY <1>4, <1>6, <1>8, <2>2
<1>9. QED
  BY <1>7, <1>8

-----------------------------------------------------------------------------
\* What Encode writes of a value that carries what its type allows: each kind of piece.
LEMMA FieldPiece ==
  ASSUME ShapeSound(shape), NEW h, ConstKept(h)
  PROVE  FieldPieces(h) = UNION {{Piece(i, Field(i).name, x) : x \in h.fields[i]} : i \in JSONFields}
<1>1. ASSUME NEW i \in JSONFields
      PROVE  (IF Field(i).const # {} THEN Field(i).const ELSE h.fields[i]) = h.fields[i]
  BY DEF ConstKept
<1>2. QED
  BY <1>1 DEF FieldPieces

LEMMA PieceKinds ==
  ASSUME ShapeSound(shape), NEW h, ConstKept(h), Carries(h)
  PROVE  /\ \A m \in Pieces(h) :
              \/ \E i \in JSONFields : m.key = Field(i).name /\ m.value \in h.fields[i] /\ m.key \in FieldNamed
                                       /\ m = Piece(i, Field(i).name, m.value)
              \/ m.key \in DOMAIN h.extra /\ m = Piece(Len(shape.properties) + 1, m.key, h.extra[m.key])
              \/ \E p \in DOMAIN shape.patterns :
                   /\ m.key \in DOMAIN h.matched[p]
                   /\ m = Piece(Len(shape.properties) + 1 + p, m.key, h.matched[p][m.key])
         /\ \A i \in JSONFields : \A x \in h.fields[i] : Piece(i, Field(i).name, x) \in Pieces(h)
         /\ \A k \in DOMAIN h.extra : Piece(Len(shape.properties) + 1, k, h.extra[k]) \in Pieces(h)
         /\ \A p \in DOMAIN shape.patterns : \A k \in DOMAIN h.matched[p] :
              Piece(Len(shape.properties) + 1 + p, k, h.matched[p][k]) \in Pieces(h)
<1> DEFINE F(i) == {Piece(i, Field(i).name, x) : x \in h.fields[i]}
           Q(p) == {Piece(Len(shape.properties) + 1 + p, k, h.matched[p][k]) : k \in DOMAIN h.matched[p]}
<1>1. FieldPieces(h) = UNION {F(i) : i \in JSONFields}
  BY FieldPiece
<1>2. PatternPieces(h) = UNION {Q(p) : p \in DOMAIN shape.patterns}
  BY DEF PatternPieces
<1>3. \A i \in JSONFields : \A m \in F(i) : /\ m.key = Field(i).name /\ m.value \in h.fields[i]
                                             /\ m.key \in FieldNamed /\ m = Piece(i, Field(i).name, m.value)
  BY DEF Piece, FieldNamed
<1>4. \A i \in JSONFields : \A x \in h.fields[i] : Piece(i, Field(i).name, x) \in F(i)
  OBVIOUS
<1>5. \A p : \A m \in Q(p) : /\ m.key \in DOMAIN h.matched[p]
                             /\ m = Piece(Len(shape.properties) + 1 + p, m.key, h.matched[p][m.key])
  BY DEF Piece
<1>6. \A p : \A k \in DOMAIN h.matched[p] : Piece(Len(shape.properties) + 1 + p, k, h.matched[p][k]) \in Q(p)
  OBVIOUS
<1>7. \A m \in ExtraPieces(h) : m.key \in DOMAIN h.extra /\ m = Piece(Len(shape.properties) + 1, m.key, h.extra[m.key])
  BY DEF ExtraPieces, Piece
<1>8. \A k \in DOMAIN h.extra : Piece(Len(shape.properties) + 1, k, h.extra[k]) \in ExtraPieces(h)
  BY DEF ExtraPieces
<1> HIDE DEF F, Q
<1>9. \A m : m \in Pieces(h) <=> \/ \E i \in JSONFields : m \in F(i)
                                 \/ m \in ExtraPieces(h)
                                 \/ \E p \in DOMAIN shape.patterns : m \in Q(p)
  BY <1>1, <1>2 DEF Pieces
<1>10. ASSUME NEW m \in Pieces(h)
       PROVE  \/ \E i \in JSONFields : m.key = Field(i).name /\ m.value \in h.fields[i] /\ m.key \in FieldNamed
                                       /\ m = Piece(i, Field(i).name, m.value)
              \/ m.key \in DOMAIN h.extra /\ m = Piece(Len(shape.properties) + 1, m.key, h.extra[m.key])
              \/ \E p \in DOMAIN shape.patterns :
                   /\ m.key \in DOMAIN h.matched[p]
                   /\ m = Piece(Len(shape.properties) + 1 + p, m.key, h.matched[p][m.key])
  <2>1. CASE \E i \in JSONFields : m \in F(i)
    BY <1>3, <2>1
  <2>2. CASE m \in ExtraPieces(h)
    BY <1>7, <2>2
  <2>3. CASE \E p \in DOMAIN shape.patterns : m \in Q(p)
    BY <1>5, <2>3
  <2>4. QED
    BY <1>9, <2>1, <2>2, <2>3
<1>11. \A i \in JSONFields : \A x \in h.fields[i] : Piece(i, Field(i).name, x) \in Pieces(h)
  BY <1>4, <1>9
<1>12. \A k \in DOMAIN h.extra : Piece(Len(shape.properties) + 1, k, h.extra[k]) \in Pieces(h)
  BY <1>8, <1>9
<1>13. \A p \in DOMAIN shape.patterns : \A k \in DOMAIN h.matched[p] :
         Piece(Len(shape.properties) + 1 + p, k, h.matched[p][k]) \in Pieces(h)
  BY <1>6, <1>9
<1>14. QED
  BY <1>10, <1>11, <1>12, <1>13

\* No two pieces have one name.
LEMMA PieceNames ==
  ASSUME ShapeSound(shape), NEW h, ConstKept(h), Carries(h), NEW m \in Pieces(h), NEW n \in Pieces(h),
         m.key = n.key
  PROVE  m = n
<1>1. CASE m.key \in FieldNamed
  <2>1. /\ m.key \notin DOMAIN h.extra
        /\ \A p \in DOMAIN shape.patterns : m.key \notin DOMAIN h.matched[p]
    BY <1>1 DEF Carries
  <2>2. PICK i \in JSONFields : m.key = Field(i).name /\ m.value \in h.fields[i] /\ m = Piece(i, Field(i).name, m.value)
    BY <2>1, PieceKinds
  <2>3. PICK j \in JSONFields : n.key = Field(j).name /\ n.value \in h.fields[j] /\ n = Piece(j, Field(j).name, n.value)
    BY <2>1, PieceKinds
  <2>4. i = j
    BY <2>2, <2>3, Places
  <2>5. m.value = n.value
    BY <2>2, <2>3, <2>4 DEF Carries, AtMostOne
  <2>6. QED
    BY <2>2, <2>3, <2>4, <2>5
<1>2. CASE m.key \notin FieldNamed
  <2>1. CASE m.key \in DOMAIN h.extra
    <3>1. \A p \in DOMAIN shape.patterns : m.key \notin DOMAIN h.matched[p]
      <4>1. \A p : PatternsOf(m.key) # {p}
        BY <2>1 DEF Carries
      <4>2. QED
        BY <4>1 DEF Carries
    <3>2. /\ m = Piece(Len(shape.properties) + 1, m.key, h.extra[m.key])
          /\ n = Piece(Len(shape.properties) + 1, n.key, h.extra[n.key])
      BY <1>2, <3>1, PieceKinds
    <3>3. QED
      BY <3>2
  <2>2. CASE m.key \notin DOMAIN h.extra
    <3>1. PICK p \in DOMAIN shape.patterns :
            /\ m.key \in DOMAIN h.matched[p]
            /\ m = Piece(Len(shape.properties) + 1 + p, m.key, h.matched[p][m.key])
      BY <1>2, <2>2, PieceKinds
    <3>2. PICK q \in DOMAIN shape.patterns :
            /\ n.key \in DOMAIN h.matched[q]
            /\ n = Piece(Len(shape.properties) + 1 + q, n.key, h.matched[q][n.key])
      BY <1>2, <2>2, PieceKinds
    <3>3. PatternsOf(m.key) = {p} /\ PatternsOf(m.key) = {q}
      BY <3>1, <3>2 DEF Carries
    <3>4. p = q
      BY <3>3
    <3>5. QED
      BY <3>1, <3>2, <3>4
  <2>3. QED
    BY <2>1, <2>2
<1>3. QED
  BY <1>1, <1>2

LEMMA KeptConstants ==
  ASSUME CInv, Len(rounds) = 3, ~WrittenOtherwise
  PROVE  /\ rounds = <<rounds[1], rounds[2], incoming>> /\ unwritten = {}
         /\ Carries(rounds[2]) /\ ConstKept(rounds[2]) /\ Written(Pieces(rounds[2]))
         /\ InBounds(Len(incoming))
<1>1. ~FirstRound
  BY DEF FirstRound
<1>2. rounds = <<rounds[1], rounds[2], incoming>> /\ unwritten = {}
  <2>1. rounds # <<rounds[1], rounds[2]>>
    OBVIOUS
  <2>2. QED
    BY <1>1, <2>1 DEF CInv, SecondRound
<1>3. SecondRound
  BY <1>1 DEF CInv
<1>4. ConstKept(rounds[2])
  BY DEF WrittenOtherwise, ConstKept
<1>5. InBounds(Len(incoming))
  <2>1. CASE shape.min \cup shape.max = {}
    BY <2>1 DEF InBounds
  <2>2. CASE shape.min \cup shape.max # {}
    <3>1. Len(rounds[3]) = Len(rounds[1])
      BY <2>2 DEF WrittenOtherwise, received
    <3>2. rounds[3] = incoming
      BY <1>2
    <3>3. QED
      BY <1>3, <3>1, <3>2 DEF SecondRound
  <2>3. QED
    BY <2>1, <2>2
<1>6. QED
  BY <1>2, <1>3, <1>4, <1>5 DEF SecondRound

LEMMA WrittenTaken ==
  ASSUME ShapeSound(shape), NEW h, ConstKept(h), Carries(h), NEW m \in Pieces(h), NEW o, SameMember(o, m)
  PROVE  Taken(o)
<1>0. o.key = m.key /\ o.value = m.value
  BY DEF SameMember
<1>1. CASE \E i \in JSONFields : m.key = Field(i).name /\ m.value \in h.fields[i] /\ m.key \in FieldNamed
  <2>1. PICK i \in JSONFields : m.key = Field(i).name /\ m.value \in h.fields[i] /\ m.key \in FieldNamed
    BY <1>1
  <2>2. m.value \in Field(i).values
    BY <2>1 DEF Carries
  <2>3. \A j \in JSONFields : Field(j).name = m.key => j = i
    BY <2>1, Places
  <2>4. QED
    BY <1>0, <2>1, <2>2, <2>3 DEF Taken
<1>2. CASE m.key \in DOMAIN h.extra /\ m = Piece(Len(shape.properties) + 1, m.key, h.extra[m.key])
  <2>1. m.value = h.extra[m.key]
    BY <1>2 DEF Piece
  <2>2. m.key \notin FieldNamed /\ PatternsOf(m.key) = {} /\ shape.additional = "yes" /\ m.value \in shape.item
    BY <1>2, <2>1 DEF Carries
  <2>3. QED
    BY <1>0, <2>2 DEF Taken
<1>3. CASE \E p \in DOMAIN shape.patterns :
             /\ m.key \in DOMAIN h.matched[p]
             /\ m = Piece(Len(shape.properties) + 1 + p, m.key, h.matched[p][m.key])
  <2>1. PICK p \in DOMAIN shape.patterns :
               /\ m.key \in DOMAIN h.matched[p]
               /\ m = Piece(Len(shape.properties) + 1 + p, m.key, h.matched[p][m.key])
    BY <1>3
  <2>2. m.value = h.matched[p][m.key]
    BY <2>1 DEF Piece
  <2>3. m.key \notin FieldNamed /\ PatternsOf(m.key) = {p} /\ m.value \in shape.patterns[p].values
    BY <2>1, <2>2 DEF Carries
  <2>4. QED
    BY <1>0, <2>3 DEF Taken
<1>4. QED
  BY <1>1, <1>2, <1>3, PieceKinds

\* The names of a list whose members all have another one are as many as its members.
LEMMA NamesApart ==
  ASSUME NEW s, IsSequence(s), \A i, j \in DOMAIN s : i # j => s[i].key # s[j].key
  PROVE  NamedOnce(s)
<1> DEFINE f == [i \in 1..Len(s) |-> s[i].key]
<1>1. Len(s) \in Nat /\ DOMAIN s = 1..Len(s)
  BY SequenceIndices
<1>2. f \in Bijection(1..Len(s), Keys(s))
  <2>1. f \in [1..Len(s) -> Keys(s)]
    BY <1>1 DEF Keys
  <2>2. \A i, j \in 1..Len(s) : f[i] = f[j] => i = j
    BY <1>1
  <2>3. \A k \in Keys(s) : \E i \in 1..Len(s) : f[i] = k
    BY <1>1 DEF Keys
  <2> HIDE DEF f
  <2>4. QED
    BY <2>1, <2>2, <2>3 DEF Bijection, Injection, Surjection, IsInjective
<1>3. IsFiniteSet(1..Len(s)) /\ Cardinality(1..Len(s)) = Len(s)
  BY <1>1, FS_Interval
<1>4. QED
  BY <1>2, <1>3, FS_Bijection DEF NamedOnce, ExistsBijection

\* A piece that was written is found in the object, and a member of the object among the pieces.
LEMMA PieceRead ==
  ASSUME IsSequence(incoming), NEW ps, Written(ps), unwritten = {}
  PROVE  /\ \A m \in ps : m.key \in KeysTo(Len(incoming))
         /\ \A j \in 1..Len(incoming) : \E m \in ps : SameMember(incoming[j], m)
<1>1. DOMAIN incoming = 1..Len(incoming)
  BY SequenceIndices
<1>2. ASSUME NEW m \in ps PROVE m.key \in KeysTo(Len(incoming))
  <2>1. PICK i \in DOMAIN incoming : SameMember(incoming[i], m)
    BY DEF Written
  <2>2. QED
    BY <1>1, <2>1 DEF SameMember, KeysTo
<1>3. ASSUME NEW j \in 1..Len(incoming) PROVE \E m \in ps : SameMember(incoming[j], m)
  BY <1>1 DEF Written
<1>4. QED
  BY <1>2, <1>3

\* What was read of the pieces of a value is that value: its fields,
LEMMA FieldsBack ==
  ASSUME ShapeSound(shape), IsSequence(incoming), NEW h, ConstKept(h), Carries(h), Written(Pieces(h)),
         unwritten = {}, ReadSoFar(Len(incoming)), NEW i \in JSONFields
  PROVE  held.fields[i] = h.fields[i]
<1> DEFINE n == Len(incoming)
<1>1. LastThere(n) /\ FieldsRead(held, n)
  BY DEF ReadSoFar, HeldRead
<1>2. CASE Field(i).name \notin KeysTo(n)
  <2>1. h.fields[i] = {}
    <3>1. SUFFICES ASSUME NEW x \in h.fields[i] PROVE FALSE
      OBVIOUS
    <3>2. Piece(i, Field(i).name, x) \in Pieces(h)
      BY PieceKinds
    <3>3. Piece(i, Field(i).name, x).key = Field(i).name
      BY DEF Piece
    <3>4. QED
      BY <1>2, <3>2, <3>3, PieceRead
  <2>2. Field(i).default = {}
    BY <2>1 DEF Carries
  <2>3. QED
    BY <1>1, <1>2, <2>1, <2>2 DEF FieldsRead
<1>3. CASE Field(i).name \in KeysTo(n)
  <2>1. PICK k \in 1..n : incoming[k].key = Field(i).name
    BY <1>3 DEF KeysTo
  <2>2. PICK j \in 1..n : incoming[j].key = Field(i).name /\ IsLast(n, j)
    BY <1>1, <2>1 DEF LastThere
  <2>3. held.fields[i] = {incoming[j].value}
    BY <1>1, <2>2 DEF FieldsRead
  <2>4. PICK m \in Pieces(h) : SameMember(incoming[j], m)
    BY <2>2, PieceRead
  <2>5. m.key = Field(i).name /\ m.value = incoming[j].value /\ m.key \in FieldNamed
    BY <2>2, <2>4 DEF SameMember, FieldNamed
  <2>6. m.key \notin DOMAIN h.extra /\ \A p \in DOMAIN shape.patterns : m.key \notin DOMAIN h.matched[p]
    BY <2>5 DEF Carries
  <2>7. PICK k2 \in JSONFields : m.key = Field(k2).name /\ m.value \in h.fields[k2]
    BY <2>6, PieceKinds
  <2>8. k2 = i
    BY <2>5, <2>7, Places
  <2>9. incoming[j].value \in h.fields[i] /\ AtMostOne(h.fields[i])
    BY <2>5, <2>7, <2>8 DEF Carries
  <2>10. h.fields[i] = {incoming[j].value}
    BY <2>9 DEF AtMostOne
  <2>11. QED
    BY <2>3, <2>10
<1>4. QED
  BY <1>2, <1>3

\* the map of further members,
LEMMA ExtraBack ==
  ASSUME ShapeSound(shape), IsSequence(incoming), NEW h, ConstKept(h), Carries(h), Written(Pieces(h)),
         unwritten = {}, ReadSoFar(Len(incoming))
  PROVE  DOMAIN held.extra = DOMAIN h.extra /\ \A k \in DOMAIN h.extra : held.extra[k] = h.extra[k]
<1> DEFINE n == Len(incoming)
<1>1. LastThere(n) /\ ExtraRead(held, n)
  BY DEF ReadSoFar, HeldRead
<1>2. ASSUME NEW k \in DOMAIN h.extra PROVE k \in ExtraKeys(n)
  <2>1. k \notin FieldNamed /\ PatternsOf(k) = {} /\ shape.additional = "yes"
    BY DEF Carries
  <2>2. Piece(Len(shape.properties) + 1, k, h.extra[k]) \in Pieces(h)
    BY PieceKinds
  <2>3. Piece(Len(shape.properties) + 1, k, h.extra[k]).key = k
    BY DEF Piece
  <2>4. k \in KeysTo(n)
    BY <2>2, <2>3, PieceRead
  <2>5. QED
    BY <2>1, <2>4 DEF ExtraKeys
<1>3. ASSUME NEW k \in ExtraKeys(n)
      PROVE  k \in DOMAIN h.extra /\ held.extra[k] = h.extra[k]
  <2>1. k \notin FieldNamed /\ PatternsOf(k) = {} /\ k \in KeysTo(n)
    BY DEF ExtraKeys
  <2>2. PICK l \in 1..n : incoming[l].key = k
    BY <2>1 DEF KeysTo
  <2>3. PICK j \in 1..n : incoming[j].key = k /\ IsLast(n, j)
    BY <1>1, <2>2 DEF LastThere
  <2>4. held.extra[k] = incoming[j].value
    BY <1>1, <2>3 DEF ExtraRead
  <2>5. PICK m \in Pieces(h) : SameMember(incoming[j], m)
    BY <2>3, PieceRead
  <2>6. m.key = k /\ m.value = incoming[j].value
    BY <2>3, <2>5 DEF SameMember
  <2>7. \A p \in DOMAIN shape.patterns : k \notin DOMAIN h.matched[p]
    <3>1. \A p : PatternsOf(k) # {p}
      BY <2>1
    <3>2. QED
      BY <3>1 DEF Carries
  <2>8. m.key \in DOMAIN h.extra /\ m = Piece(Len(shape.properties) + 1, m.key, h.extra[m.key])
    BY <2>1, <2>6, <2>7, PieceKinds
  <2>9. m.value = h.extra[m.key]
    BY <2>8 DEF Piece
  <2>10. QED
    BY <2>4, <2>6, <2>8, <2>9
<1>4. DOMAIN held.extra = ExtraKeys(n)
  BY <1>1 DEF ExtraRead
<1>5. QED
  BY <1>2, <1>3, <1>4

\* and the maps of the patterns.
LEMMA PatternBack ==
  ASSUME ShapeSound(shape), IsSequence(incoming), NEW h, ConstKept(h), Carries(h), Written(Pieces(h)),
         unwritten = {}, ReadSoFar(Len(incoming)), NEW p \in DOMAIN shape.patterns
  PROVE  /\ DOMAIN held.matched[p] = DOMAIN h.matched[p]
         /\ \A k \in DOMAIN h.matched[p] : held.matched[p][k] = h.matched[p][k]
<1> DEFINE n == Len(incoming)
<1>1. LastThere(n) /\ PatternRead(held, n, p)
  BY DEF ReadSoFar, HeldRead, PatternsRead
<1>2. ASSUME NEW k \in DOMAIN h.matched[p] PROVE k \in PatternKeys(n, p)
  <2>1. k \notin FieldNamed /\ PatternsOf(k) = {p}
    BY DEF Carries
  <2>2. Piece(Len(shape.properties) + 1 + p, k, h.matched[p][k]) \in Pieces(h)
    BY PieceKinds
  <2>3. Piece(Len(shape.properties) + 1 + p, k, h.matched[p][k]).key = k
    BY DEF Piece
  <2>4. k \in KeysTo(n)
    BY <2>2, <2>3, PieceRead
  <2>5. QED
    BY <2>1, <2>4 DEF PatternKeys
<1>3. ASSUME NEW k \in PatternKeys(n, p)
      PROVE  k \in DOMAIN h.matched[p] /\ held.matched[p][k] = h.matched[p][k]
  <2>1. k \notin FieldNamed /\ PatternsOf(k) = {p} /\ k \in KeysTo(n)
    BY DEF PatternKeys
  <2>2. PICK l \in 1..n : incoming[l].key = k
    BY <2>1 DEF KeysTo
  <2>3. PICK j \in 1..n : incoming[j].key = k /\ IsLast(n, j)
    BY <1>1, <2>2 DEF LastThere
  <2>4. held.matched[p][k] = incoming[j].value
    BY <1>1, <2>3 DEF PatternRead
  <2>5. PICK m \in Pieces(h) : SameMember(incoming[j], m)
    BY <2>3, PieceRead
  <2>6. m.key = k /\ m.value = incoming[j].value
    BY <2>3, <2>5 DEF SameMember
  <2>7. k \notin DOMAIN h.extra
    <3>1. PatternsOf(k) # {}
      BY <2>1
    <3>2. QED
      BY <3>1 DEF Carries
  <2>8. PICK q \in DOMAIN shape.patterns :
          m.key \in DOMAIN h.matched[q] /\ m = Piece(Len(shape.properties) + 1 + q, m.key, h.matched[q][m.key])
    BY <2>1, <2>6, <2>7, PieceKinds
  <2>9. q = p
    <3>1. PatternsOf(k) = {q}
      BY <2>6, <2>8 DEF Carries
    <3>2. QED
      BY <2>1, <3>1
  <2>10. m.value = h.matched[p][m.key]
    BY <2>8, <2>9 DEF Piece
  <2>11. QED
    BY <2>4, <2>6, <2>8, <2>9, <2>10
<1>4. DOMAIN held.matched[p] = PatternKeys(n, p)
  BY <1>1 DEF PatternRead
<1>5. QED
  BY <1>2, <1>3, <1>4

LEMMA HeldBack ==
  ASSUME ShapeSound(shape), IsSequence(incoming), NEW h, ConstKept(h), Carries(h), Written(Pieces(h)),
         unwritten = {}, ReadSoFar(Len(incoming))
  PROVE  held = h
<1>1. IsHeld(held) /\ IsHeld(h)
  BY DEF ReadSoFar, HeldRead, Carries
<1>2. held.fields = h.fields
  <2>1. \A i \in JSONFields : held.fields[i] = h.fields[i]
    BY FieldsBack
  <2>2. QED
    BY <1>1, <2>1 DEF IsHeld
<1>3. held.extra = h.extra
  <2>1. DOMAIN held.extra = DOMAIN h.extra /\ \A k \in DOMAIN h.extra : held.extra[k] = h.extra[k]
    BY ExtraBack
  <2>2. QED
    BY <1>1, <2>1 DEF IsHeld
<1>4. held.matched = h.matched
  <2>1. ASSUME NEW p \in DOMAIN shape.patterns PROVE held.matched[p] = h.matched[p]
    <3>1. /\ DOMAIN held.matched[p] = DOMAIN h.matched[p]
          /\ \A k \in DOMAIN h.matched[p] : held.matched[p][k] = h.matched[p][k]
      BY PatternBack
    <3>2. /\ held.matched[p] = [k \in DOMAIN held.matched[p] |-> held.matched[p][k]]
          /\ h.matched[p] = [k \in DOMAIN h.matched[p] |-> h.matched[p][k]]
      BY <1>1 DEF IsHeld
    <3>3. QED
      BY <3>1, <3>2
  <2>2. QED
    BY <1>1, <2>1 DEF IsHeld
<1>5. QED
  BY <1>1, <1>2, <1>3, <1>4 DEF IsHeld

LEMMA ReadsBack ==
  ASSUME CInv
  PROVE  WrittenReadsBack
<1> SUFFICES ASSUME reading \in {"read", "error"}, Len(rounds) = 3, ~WrittenOtherwise
             PROVE  reading = "read" /\ held = rounds[2] /\ NamedOnce(rounds[3])
  BY DEF WrittenReadsBack
<1> DEFINE n == Len(incoming)
           h == rounds[2]
<1>1. ShapeSound(shape) /\ IsSequence(incoming)
  BY DEF CInv
<1>2. /\ rounds[3] = incoming /\ unwritten = {} /\ Carries(h) /\ ConstKept(h) /\ Written(Pieces(h))
      /\ InBounds(n)
  BY KeptConstants
<1> HIDE DEF h
<1>3. ASSUME NEW j \in 1..n PROVE Taken(incoming[j])
  <2>1. PICK m \in Pieces(h) : SameMember(incoming[j], m)
    BY <1>1, <1>2, PieceRead
  <2>2. QED
    BY <1>1, <1>2, <2>1, WrittenTaken
<1>4. Missing(n) = {}
  <2>1. SUFFICES ASSUME NEW i \in JSONFields, Field(i).required PROVE Field(i).name \in KeysTo(n)
    BY DEF Missing
  <2>2. PICK x : x \in h.fields[i]
    BY <1>2, <2>1 DEF Carries
  <2>3. Piece(i, Field(i).name, x) \in Pieces(h)
    BY <1>1, <1>2, <2>2, PieceKinds
  <2>4. Piece(i, Field(i).name, x).key = Field(i).name
    BY DEF Piece
  <2>5. QED
    BY <1>1, <1>2, <2>3, <2>4, PieceRead
<1>5. reading = "read"
  BY <1>2, <1>3, <1>4 DEF CInv, Refused
<1>6. held = h
  <2>1. ReadSoFar(n)
    BY <1>5 DEF CInv
  <2>2. QED
    BY <1>1, <1>2, <2>1, HeldBack
<1>7. NamedOnce(incoming)
  BY <1>1, <1>2, NamesApart DEF Written
<1>8. QED
  BY <1>2, <1>5, <1>6, <1>7 DEF h

-----------------------------------------------------------------------------
\* What a step that leaves the schema, and the object, alone keeps.
LEMMA SchemaStays ==
  ASSUME UNCHANGED shape
  PROVE  /\ JSONFields' = JSONFields /\ FieldNamed' = FieldNamed
         /\ \A i : Field(i)' = Field(i) /\ Byte(i)' = Byte(i) /\ Bit(i)' = Bit(i)
         /\ \A k : PatternsOf(k)' = PatternsOf(k)
         /\ \A n : InBounds(n)' <=> InBounds(n)
         /\ \A m : Taken(m)' <=> Taken(m)
         /\ \A h : (IsHeld(h)' <=> IsHeld(h)) /\ (Carries(h)' <=> Carries(h)) /\ (ConstKept(h)' <=> ConstKept(h))
         /\ \A h : Pieces(h)' = Pieces(h)
<1>1. JSONFields' = JSONFields /\ \A i : Field(i)' = Field(i)
  BY DEF JSONFields, Field
<1>2. \A i : Position(i)' = Position(i)
  BY <1>1 DEF Position
<1>3. \A i : Byte(i)' = Byte(i) /\ Bit(i)' = Bit(i)
  BY <1>2 DEF Byte, Bit
<1>4. FieldNamed' = FieldNamed
  BY <1>1 DEF FieldNamed
<1>5. \A k : PatternsOf(k)' = PatternsOf(k)
  BY DEF PatternsOf
<1>6. \A n : InBounds(n)' <=> InBounds(n)
  BY DEF InBounds
<1>7. \A m : Taken(m)' <=> Taken(m)
  BY <1>1, <1>4, <1>5 DEF Taken
<1>8. \A h : IsHeld(h)' <=> IsHeld(h)
  BY <1>1 DEF IsHeld
<1>9. \A h : Carries(h)' <=> Carries(h)
  BY <1>1, <1>4, <1>5, <1>8 DEF Carries
<1>10. \A h : ConstKept(h)' <=> ConstKept(h)
  BY <1>1 DEF ConstKept
<1>11. \A h : FieldPieces(h)' = FieldPieces(h)
  BY <1>1 DEF FieldPieces
<1>12. \A h : ExtraPieces(h)' = ExtraPieces(h) /\ PatternPieces(h)' = PatternPieces(h)
  BY DEF ExtraPieces, PatternPieces
<1>13. \A h : Pieces(h)' = Pieces(h)
  BY <1>11, <1>12 DEF Pieces
<1>14. QED
  BY <1>1, <1>3, <1>4, <1>5, <1>6, <1>7, <1>8, <1>9, <1>10, <1>13

LEMMA ObjectStays ==
  ASSUME UNCHANGED <<shape, incoming>>
  PROVE  /\ \A n : /\ KeysTo(n)' = KeysTo(n) /\ Required(n)' = Required(n) /\ Missing(n)' = Missing(n)
                   /\ (LastThere(n)' <=> LastThere(n)) /\ (AllTaken(n)' <=> AllTaken(n))
         /\ \A h, n : HeldRead(h, n)' <=> HeldRead(h, n)
<1>1. \A n : KeysTo(n)' = KeysTo(n)
  BY DEF KeysTo
<1>2. \A n, i : IsLast(n, i)' <=> IsLast(n, i)
  BY DEF IsLast
<1>3. \A n : LastThere(n)' <=> LastThere(n)
  BY <1>2 DEF LastThere
<1>4. \A n : AllTaken(n)' <=> AllTaken(n)
  BY SchemaStays DEF AllTaken
<1>5. Bytes' = Bytes
  BY SchemaStays DEF Bytes
<1>6. \A n : Required(n)' = Required(n)
  BY <1>1, <1>5, SchemaStays DEF Required
<1>7. \A n : Missing(n)' = Missing(n)
  BY <1>1, SchemaStays DEF Missing
<1>8. \A h, n : FieldsRead(h, n)' <=> FieldsRead(h, n)
  BY <1>1, <1>2, SchemaStays DEF FieldsRead
<1>9. \A n : ExtraKeys(n)' = ExtraKeys(n)
  BY <1>1, SchemaStays DEF ExtraKeys
<1>10. \A n, p : PatternKeys(n, p)' = PatternKeys(n, p)
  BY <1>1, SchemaStays DEF PatternKeys
<1>11. \A h, n : ExtraRead(h, n)' <=> ExtraRead(h, n)
  BY <1>2, <1>9 DEF ExtraRead
<1>12. \A h, n, p : PatternRead(h, n, p)' <=> PatternRead(h, n, p)
  BY <1>2, <1>10 DEF PatternRead
<1>13. \A h, n : PatternsRead(h, n)' <=> PatternsRead(h, n)
  BY <1>12 DEF PatternsRead
<1>14. \A h, n : HeldRead(h, n)' <=> HeldRead(h, n)
  BY <1>8, <1>11, <1>13, SchemaStays DEF HeldRead
<1>15. QED
  BY <1>1, <1>3, <1>4, <1>6, <1>7, <1>14

LEMMA RoundStays ==
  ASSUME CInv, reading \notin {"lower", "encode"}, UNCHANGED <<shape, incoming, unwritten, rounds>>,
         reading' \in {"start", "members", "read", "error"}
  PROVE  /\ ShapeSound(shape)' /\ IsSequence(incoming)'
         /\ FirstRound' \/ SecondRound'
<1>1. ShapeSound(shape)' /\ IsSequence(incoming)'
  BY DEF CInv
<1>2. CASE FirstRound
  BY <1>1, <1>2 DEF FirstRound
<1>3. CASE SecondRound
  <2>1. PICK h : h = rounds[2]
    OBVIOUS
  <2>2. rounds = <<rounds[1], h, incoming>> /\ unwritten = {}
    BY <1>3, <2>1 DEF SecondRound
  <2>3. /\ rounds' = <<rounds'[1], rounds'[2], incoming'>> /\ unwritten' = {}
        /\ rounds'[2] = h /\ rounds'[1] = rounds[1]
    BY <2>1, <2>2
  <2>4. Carries(h)' /\ (ConstKept(h)' <=> ConstKept(h)) /\ Pieces(h)' = Pieces(h)
    BY <1>3, <2>1, SchemaStays DEF SecondRound
  <2>5. PICK n : n = Len(rounds[1])
    OBVIOUS
  <2>6. InBounds(n)'
    BY <1>3, <2>5, SchemaStays DEF SecondRound
  <2>7. PICK ps : ps = Pieces(h)
    OBVIOUS
  <2>8. Written(ps)' <=> Written(ps)
    BY DEF Written
  <2>9. ConstKept(h)' => Written(ps)'
    BY <1>3, <2>1, <2>4, <2>7, <2>8 DEF SecondRound
  <2>10. QED
    BY <1>1, <2>3, <2>4, <2>5, <2>6, <2>7, <2>9 DEF SecondRound
<1>4. QED
  BY <1>2, <1>3 DEF CInv

-----------------------------------------------------------------------------
\* The state between two members of the object.
LEMMA BetweenMembers ==
  ASSUME CInv, reading = "members", UNCHANGED <<shape, incoming, lacking, unwritten, rounds>>,
         reading' = "members", NEW n, n = propertiesCount', n \in 0..Len(incoming),
         AllTaken(n), LastThere(n), bitSet' = Required(n), NEW h, h = held', HeldRead(h, n)
  PROVE  CInv'
<1>1. lacking = {}
  BY DEF CInv, ReadSoFar
<1>2. ReadSoFar(n)'
  BY <1>1, ObjectStays DEF ReadSoFar
<1>3. QED
  BY <1>2, RoundStays DEF CInv

LEMMA RefusedMember ==
  ASSUME CInv, reading = "members", UNCHANGED <<shape, incoming, lacking, unwritten, rounds>>,
         reading' = "error", NEW j \in 1..Len(incoming), ~Taken(incoming[j])
  PROVE  CInv'
<1>1. lacking = {}
  BY DEF CInv, ReadSoFar
<1>2. PICK m : m = incoming[j]
  OBVIOUS
<1>3. ~Taken(m)'
  BY <1>2, SchemaStays
<1>4. Refused'
  BY <1>1, <1>2, <1>3 DEF Refused
<1>5. QED
  BY <1>4, RoundStays DEF CInv

LEMMA MemberNext ==
  ASSUME CInv, Reading
  PROVE  /\ propertiesCount \in Nat /\ propertiesCount + 1 \in 1..Len(incoming)
         /\ Member = incoming[propertiesCount + 1] /\ ReadSoFar(propertiesCount)
         /\ ShapeSound(shape) /\ reading = "members"
<1>1. ReadSoFar(propertiesCount) /\ ShapeSound(shape) /\ IsSequence(incoming) /\ reading = "members"
  BY DEF CInv, Reading
<1>2. Len(incoming) \in Nat
  BY <1>1, SequenceIndices
<1>3. QED
  BY <1>1, <1>2 DEF ReadSoFar, Reading, Member

LEMMA BitsStay ==
  ASSUME NEW n \in Nat, incoming[n + 1].key \notin FieldNamed
  PROVE  Required(n + 1) = Required(n)
<1>1. \A i \in JSONFields : Field(i).name \in KeysTo(n + 1) <=> Field(i).name \in KeysTo(n)
  BY NextKeys DEF FieldNamed
<1>2. QED
  BY <1>1 DEF Required

LEMMA BitIsSet ==
  ASSUME ShapeSound(shape), NEW n \in Nat, NEW i \in JSONFields, Field(i).name = incoming[n + 1].key,
         NEW bits, bits = Required(n)
  PROVE  Required(n + 1) = IF Field(i).required THEN [bits EXCEPT ![Byte(i)] = @ \cup {Bit(i)}] ELSE bits
<1>1. \A k \in JSONFields : Field(k).name \in KeysTo(n + 1) <=> Field(k).name \in KeysTo(n) \/ k = i
  BY NextKeys, Places
<1> DEFINE R(m, b) == {Bit(k) : k \in {j \in JSONFields : /\ Byte(j) = b /\ Field(j).required
                                                          /\ Field(j).name \in KeysTo(m)}}
<1>2. \A m : Required(m) = [b \in Bytes |-> R(m, b)]
  BY DEF Required
<1>3. Byte(i) \in Bytes
  BY DEF Bytes
<1>4. CASE ~Field(i).required
  <2>1. ASSUME NEW b \in Bytes PROVE R(n + 1, b) = R(n, b)
    BY <1>1, <1>4
  <2> HIDE DEF R
  <2>2. QED
    BY <1>2, <1>4, <2>1
<1>5. CASE Field(i).required
  <2>1. ASSUME NEW b \in Bytes, b # Byte(i) PROVE R(n + 1, b) = R(n, b)
    BY <1>1, <2>1
  <2>2. R(n + 1, Byte(i)) = R(n, Byte(i)) \cup {Bit(i)}
    BY <1>1, <1>5
  <2> HIDE DEF R
  <2>3. QED
    BY <1>2, <1>3, <1>5, <2>1, <2>2
<1>6. QED
  BY <1>4, <1>5

\* The Go value with one part of it replaced.
LEMMA FieldReplaced ==
  ASSUME NEW h, IsHeld(h), NEW i \in JSONFields, NEW S, NEW g,
         g = [fields |-> [h.fields EXCEPT ![i] = S], extra |-> h.extra, matched |-> h.matched]
  PROVE  /\ IsHeld(g) /\ g.fields[i] = S /\ \A j \in JSONFields : j # i => g.fields[j] = h.fields[j]
         /\ g.extra = h.extra /\ g.matched = h.matched
<1>1. g.fields = [j \in JSONFields |-> IF j = i THEN S ELSE h.fields[j]]
  BY DEF IsHeld
<1>2. g.extra = h.extra /\ g.matched = h.matched
  OBVIOUS
<1>3. IsHeld(g)
  BY <1>1, <1>2 DEF IsHeld
<1>4. QED
  BY <1>1, <1>2, <1>3

LEMMA ExtraReplaced ==
  ASSUME NEW h, IsHeld(h), NEW m, NEW g, g = [h EXCEPT !.extra = With(@, m)]
  PROVE  IsHeld(g) /\ g.extra = With(h.extra, m) /\ g.fields = h.fields /\ g.matched = h.matched
<1>1. g = [fields |-> h.fields, extra |-> With(h.extra, m), matched |-> h.matched]
  BY DEF IsHeld
<1>2. g.extra = With(h.extra, m) /\ g.fields = h.fields /\ g.matched = h.matched
  BY <1>1
<1>3. With(h.extra, m) = [k \in DOMAIN With(h.extra, m) |-> With(h.extra, m)[k]]
  BY DEF With
<1>4. QED
  BY <1>1, <1>2, <1>3 DEF IsHeld

IsFunction(w) == w = [k \in DOMAIN w |-> w[k]]
WithMatched(h, p, w) ==
  [fields |-> h.fields, extra |-> h.extra, matched |-> [h.matched EXCEPT ![p] = w]]

LEMMA PatternReplaced ==
  ASSUME NEW h, IsHeld(h), NEW p \in DOMAIN shape.patterns, NEW w, IsFunction(w), NEW g,
         g = WithMatched(h, p, w)
  PROVE  /\ IsHeld(g) /\ g.matched[p] = w
         /\ \A q \in DOMAIN shape.patterns : q # p => g.matched[q] = h.matched[q]
         /\ g.fields = h.fields /\ g.extra = h.extra
<1>1. w = [k \in DOMAIN w |-> w[k]]
  BY DEF IsFunction
<1>2. g = [fields |-> h.fields, extra |-> h.extra, matched |-> [h.matched EXCEPT ![p] = w]]
  BY DEF WithMatched
<1>3. g.matched = [q \in DOMAIN shape.patterns |-> IF q = p THEN w ELSE h.matched[q]]
  BY <1>2 DEF IsHeld
<1>4. g.fields = h.fields /\ g.extra = h.extra
  BY <1>2
<1>5. g.matched[p] = w /\ \A q \in DOMAIN shape.patterns : q # p => g.matched[q] = h.matched[q]
  BY <1>3
<1>6. \A q \in DOMAIN shape.patterns : g.matched[q] = [k \in DOMAIN g.matched[q] |-> g.matched[q][k]]
  <2>1. SUFFICES ASSUME NEW q \in DOMAIN shape.patterns
                 PROVE  g.matched[q] = [k \in DOMAIN g.matched[q] |-> g.matched[q][k]]
    OBVIOUS
  <2>2. CASE q = p
    BY <1>1, <1>5, <2>2
  <2>3. CASE q # p
    BY <1>5, <2>3 DEF IsHeld
  <2>4. QED
    BY <2>2, <2>3
<1>7. g = [fields |-> g.fields, extra |-> g.extra, matched |-> g.matched]
  BY <1>2
<1>8. g.fields = [i \in JSONFields |-> g.fields[i]] /\ g.extra = [k \in DOMAIN g.extra |-> g.extra[k]]
  BY <1>4 DEF IsHeld
<1>9. g.matched = [q \in DOMAIN shape.patterns |-> g.matched[q]]
  BY <1>3
<1>10. QED
  BY <1>4, <1>5, <1>6, <1>7, <1>8, <1>9 DEF IsHeld

-----------------------------------------------------------------------------
\* Each step of Decode.
LEMMA FieldStep ==
  ASSUME CInv, ReadField
  PROVE  CInv'
<1>1. Reading
  BY DEF ReadField
<1>2. PICK n \in Nat : n = propertiesCount
  BY <1>1, MemberNext
<1>3. /\ n + 1 \in 1..Len(incoming) /\ Member = incoming[n + 1] /\ ReadSoFar(n)
      /\ ShapeSound(shape) /\ reading = "members"
  BY <1>1, <1>2, MemberNext
<1>4. PICK i \in JSONFields :
        /\ Field(i).name = Member.key
        /\ bitSet' = IF Field(i).required THEN [bitSet EXCEPT ![Byte(i)] = @ \cup {Bit(i)}] ELSE bitSet
        /\ Decoded(Member.value \in Field(i).values, [held EXCEPT !.fields[i] = {Member.value}])
  BY DEF ReadField
<1>5. UNCHANGED <<shape, incoming, lacking, unwritten, rounds>> /\ propertiesCount' = n + 1
  BY <1>2, <1>4 DEF Decoded
<1>6. Taken(Member) <=> Member.value \in Field(i).values
  BY <1>3, <1>4, Places DEF Taken, FieldNamed
<1>7. CASE Taken(Member)
  <2>1. reading' = "members" /\ held' = [held EXCEPT !.fields[i] = {Member.value}]
    BY <1>4, <1>6, <1>7 DEF Decoded
  <2>2. PICK h : h = held'
    OBVIOUS
  <2>3. /\ IsHeld(h) /\ h.fields[i] = {Member.value} /\ h.extra = held.extra /\ h.matched = held.matched
        /\ \A j \in JSONFields : j # i => h.fields[j] = held.fields[j]
    <3>1. IsHeld(held)
      BY <1>3 DEF ReadSoFar, HeldRead
    <3>2. PICK S, old : S = {Member.value} /\ old = held
      OBVIOUS
    <3>3. h = [fields |-> [old.fields EXCEPT ![i] = S], extra |-> old.extra, matched |-> old.matched] /\ IsHeld(old)
      BY <2>1, <2>2, <3>1, <3>2 DEF IsHeld
    <3>4. /\ IsHeld(h) /\ h.fields[i] = S /\ h.extra = old.extra /\ h.matched = old.matched
          /\ \A j \in JSONFields : j # i => h.fields[j] = old.fields[j]
      BY <3>3, FieldReplaced
    <3>5. QED
      BY <3>2, <3>4
  <2>4. FieldsRead(held, n) /\ ExtraRead(held, n) /\ PatternsRead(held, n)
    BY <1>3 DEF ReadSoFar, HeldRead
  <2>5. incoming[n + 1].key \in FieldNamed
    BY <1>3, <1>4 DEF FieldNamed
  <2>6. FieldsRead(h, n + 1)
    BY <1>3, <1>4, <2>3, <2>4, FieldIsRead
  <2>7. ExtraRead(h, n + 1)
    BY <2>3, <2>4, <2>5, ExtraStays
  <2>8. PatternsRead(h, n + 1)
    BY <2>3, <2>4, <2>5, PatternStays DEF PatternsRead
  <2>9. bitSet' = Required(n + 1)
    <3>1. bitSet = Required(n)
      BY <1>3 DEF ReadSoFar
    <3>2. QED
      BY <1>3, <1>4, <3>1, BitIsSet
  <2>10. AllTaken(n + 1) /\ LastThere(n + 1)
    BY <1>3, <1>7, NextTaken, NextLast DEF ReadSoFar
  <2>11. HeldRead(h, n + 1)
    BY <2>3, <2>6, <2>7, <2>8 DEF HeldRead
  <2>12. n + 1 \in 0..Len(incoming)
    BY <1>3
  <2>13. QED
    BY <1>3, <1>5, <2>1, <2>2, <2>9, <2>10, <2>11, <2>12, BetweenMembers
<1>8. CASE ~Taken(Member)
  <2>1. reading' = "error"
    BY <1>4, <1>6, <1>8 DEF Decoded
  <2>2. QED
    BY <1>3, <1>5, <1>8, <2>1, RefusedMember
<1>9. QED
  BY <1>7, <1>8

\* A member that no field is named after.
LEMMA UndeclaredStep ==
  ASSUME CInv, Undeclared, NEW ok \in BOOLEAN, NEW g, Decoded(ok, g), ok <=> Taken(Member),
         ok => /\ IsHeld(g) /\ g.fields = held.fields
               /\ \/ g.extra = held.extra /\ (PatternsOf(Member.key) # {} \/ shape.additional # "yes")
                  \/ g.extra = With(held.extra, Member) /\ PatternsOf(Member.key) = {} /\ shape.additional = "yes"
               /\ \A p \in DOMAIN shape.patterns :
                    \/ g.matched[p] = held.matched[p] /\ PatternsOf(Member.key) # {p}
                    \/ g.matched[p] = With(held.matched[p], Member) /\ PatternsOf(Member.key) = {p}
  PROVE  CInv'
<1>1. Reading
  BY DEF Undeclared
<1>2. PICK n \in Nat : n = propertiesCount
  BY <1>1, MemberNext
<1>3. /\ n + 1 \in 1..Len(incoming) /\ Member = incoming[n + 1] /\ ReadSoFar(n)
      /\ ShapeSound(shape) /\ reading = "members"
  BY <1>1, <1>2, MemberNext
<1>4. incoming[n + 1].key \notin FieldNamed /\ bitSet' = bitSet
  BY <1>3 DEF Undeclared, FieldNamed
<1>5. UNCHANGED <<shape, incoming, lacking, unwritten, rounds>> /\ propertiesCount' = n + 1
  BY <1>2 DEF Decoded
<1>6. CASE ok
  <2>1. reading' = "members" /\ held' = g
    BY <1>6 DEF Decoded
  <2>2. FieldsRead(held, n) /\ ExtraRead(held, n) /\ PatternsRead(held, n) /\ bitSet = Required(n)
    BY <1>3 DEF ReadSoFar, HeldRead
  <2>3. FieldsRead(g, n + 1)
    BY <1>4, <1>6, <2>2, FieldsStay
  <2>4. ExtraRead(g, n + 1)
    <3>1. CASE g.extra = held.extra /\ (PatternsOf(Member.key) # {} \/ shape.additional # "yes")
      BY <1>3, <2>2, <3>1, ExtraStays
    <3>2. CASE g.extra = With(held.extra, Member) /\ PatternsOf(Member.key) = {} /\ shape.additional = "yes"
      BY <1>3, <1>4, <2>2, <3>2, ExtraIsRead
    <3>3. QED
      BY <1>6, <3>1, <3>2
  <2>5. ASSUME NEW p \in DOMAIN shape.patterns PROVE PatternRead(g, n + 1, p)
    <3>1. PatternRead(held, n, p)
      BY <2>2 DEF PatternsRead
    <3>2. CASE g.matched[p] = held.matched[p] /\ PatternsOf(Member.key) # {p}
      BY <1>3, <3>1, <3>2, PatternStays
    <3>3. CASE g.matched[p] = With(held.matched[p], Member) /\ PatternsOf(Member.key) = {p}
      BY <1>3, <1>4, <3>1, <3>3, PatternIsRead
    <3>4. QED
      BY <1>6, <3>2, <3>3
  <2>6. HeldRead(g, n + 1)
    BY <1>6, <2>3, <2>4, <2>5 DEF HeldRead, PatternsRead
  <2>7. bitSet' = Required(n + 1)
    BY <1>4, <2>2, BitsStay
  <2>8. AllTaken(n + 1) /\ LastThere(n + 1)
    BY <1>3, <1>6, NextTaken, NextLast DEF ReadSoFar
  <2>9. n + 1 \in 0..Len(incoming)
    BY <1>3
  <2>10. QED
    BY <1>3, <1>5, <2>1, <2>6, <2>7, <2>8, <2>9, BetweenMembers
<1>7. CASE ~ok
  <2>1. reading' = "error"
    BY <1>7 DEF Decoded
  <2>2. QED
    BY <1>3, <1>5, <1>7, <2>1, RefusedMember
<1>8. QED
  BY <1>6, <1>7

LEMMA UndeclaredMember ==
  ASSUME CInv, Undeclared
  PROVE  /\ Matching = PatternsOf(Member.key) /\ Member.key \notin FieldNamed
         /\ Taken(Member) <=>
              \/ \E p \in DOMAIN shape.patterns : PatternsOf(Member.key) = {p} /\ Member.value \in shape.patterns[p].values
              \/ PatternsOf(Member.key) = {} /\ shape.additional = "yes" /\ Member.value \in shape.item
              \/ PatternsOf(Member.key) = {} /\ shape.additional = "unset"
         /\ IsHeld(held)
<1>1. Matching = PatternsOf(Member.key)
  BY DEF Matching, PatternsOf
<1>2. Member.key \notin FieldNamed
  BY DEF Undeclared, FieldNamed
<1>3. IsHeld(held)
  BY MemberNext DEF Undeclared, ReadSoFar, HeldRead
<1>4. QED
  BY <1>1, <1>2, <1>3 DEF Taken

LEMMA PatternsStep ==
  ASSUME CInv, ReadPatterns
  PROVE  CInv'
<1>1. PICK i \in Matching :
        Decoded(Matching = {i} /\ Member.value \in shape.patterns[i].values, [held EXCEPT !.matched[i] = Put(@)])
  BY DEF ReadPatterns
<1>2. Undeclared /\ PatternsOf(Member.key) # {} /\ Matching = PatternsOf(Member.key) /\ IsHeld(held)
  BY UndeclaredMember DEF ReadPatterns
<1>3. i \in DOMAIN shape.patterns
  BY <1>1 DEF Matching
<1>4. PICK g : g = [held EXCEPT !.matched[i] = With(@, Member)]
  OBVIOUS
<1>5. PICK ok \in BOOLEAN : ok <=> (Matching = {i} /\ Member.value \in shape.patterns[i].values)
  OBVIOUS
<1>6. Decoded(ok, g)
  BY <1>1, <1>4, <1>5 DEF Decoded, Put, With
<1>7. ok <=> Taken(Member)
  <2>1. \A p \in DOMAIN shape.patterns : PatternsOf(Member.key) = {p} => p = i
    BY <1>1, <1>2
  <2>2. QED
    BY <1>2, <1>3, <1>5, <2>1, UndeclaredMember
<1>8. /\ IsHeld(g) /\ g.matched[i] = With(held.matched[i], Member)
      /\ \A q \in DOMAIN shape.patterns : q # i => g.matched[q] = held.matched[q]
      /\ g.fields = held.fields /\ g.extra = held.extra
  <2>1. PICK old, w : old = held /\ w = With(held.matched[i], Member)
    OBVIOUS
  <2>2. IsFunction(w)
    BY <2>1 DEF With, IsFunction
  <2>3. IsHeld(old) /\ g = WithMatched(old, i, w)
    BY <1>2, <1>3, <1>4, <2>1 DEF IsHeld, WithMatched
  <2>4. /\ IsHeld(g) /\ g.matched[i] = w
        /\ \A q \in DOMAIN shape.patterns : q # i => g.matched[q] = old.matched[q]
        /\ g.fields = old.fields /\ g.extra = old.extra
    BY <1>3, <2>2, <2>3, PatternReplaced
  <2>5. QED
    BY <2>1, <2>4
<1>9. ok => \A p \in DOMAIN shape.patterns :
        \/ g.matched[p] = held.matched[p] /\ PatternsOf(Member.key) # {p}
        \/ g.matched[p] = With(held.matched[p], Member) /\ PatternsOf(Member.key) = {p}
  <2>1. SUFFICES ASSUME ok, NEW p \in DOMAIN shape.patterns
                 PROVE  \/ g.matched[p] = held.matched[p] /\ PatternsOf(Member.key) # {p}
                        \/ g.matched[p] = With(held.matched[p], Member) /\ PatternsOf(Member.key) = {p}
    OBVIOUS
  <2>2. PatternsOf(Member.key) = {i}
    BY <1>2, <1>5, <2>1
  <2>3. CASE p = i
    BY <1>8, <2>2, <2>3
  <2>4. CASE p # i
    <3>1. PatternsOf(Member.key) # {p}
      BY <2>2, <2>4
    <3>2. QED
      BY <1>8, <2>4, <3>1
  <2>5. QED
    BY <2>3, <2>4
<1>10. QED
  BY <1>2, <1>6, <1>7, <1>8, <1>9, UndeclaredStep

LEMMA AdditionalStep ==
  ASSUME CInv, ReadAdditional
  PROVE  CInv'
<1>1. /\ Undeclared /\ PatternsOf(Member.key) = {} /\ IsHeld(held) /\ shape.additional = "yes"
      /\ Taken(Member) <=> Member.value \in shape.item
  <2>1. Undeclared /\ Matching = {} /\ shape.additional = "yes"
    BY DEF ReadAdditional
  <2>2. \A p : PatternsOf(Member.key) # {p}
    BY <2>1, UndeclaredMember
  <2>3. QED
    BY <2>1, <2>2, UndeclaredMember
<1>2. PICK g : g = [held EXCEPT !.extra = With(@, Member)]
  OBVIOUS
<1>3. PICK ok \in BOOLEAN : ok <=> Member.value \in shape.item
  OBVIOUS
<1>4. Decoded(ok, g)
  BY <1>2, <1>3 DEF ReadAdditional, Decoded, Put, With
<1>5. IsHeld(g) /\ g.extra = With(held.extra, Member) /\ g.fields = held.fields /\ g.matched = held.matched
  <2>1. PICK m : m = Member
    OBVIOUS
  <2>2. QED
    BY <1>1, <1>2, <2>1, ExtraReplaced
<1>6. \A p : PatternsOf(Member.key) # {p}
  BY <1>1
<1>7. QED
  BY <1>1, <1>3, <1>4, <1>5, <1>6, UndeclaredStep

LEMMA OtherStep ==
  ASSUME CInv, Unexpected \/ SkipMember
  PROVE  CInv'
<1>1. Undeclared /\ PatternsOf(Member.key) = {} /\ IsHeld(held) /\ \A p : PatternsOf(Member.key) # {p}
  <2>1. Undeclared /\ Matching = {}
    BY DEF Unexpected, SkipMember
  <2>2. PatternsOf(Member.key) = {} /\ IsHeld(held)
    BY <2>1, UndeclaredMember
  <2>3. QED
    BY <2>1, <2>2
<1>2. PICK g : g = held
  OBVIOUS
<1>3. CASE Unexpected
  <2>1. shape.additional = "no" /\ Decoded(FALSE, g)
    BY <1>2, <1>3 DEF Unexpected
  <2>2. ~Taken(Member)
    BY <1>1, <2>1, UndeclaredMember
  <2>3. QED
    BY <1>1, <2>1, <2>2, UndeclaredStep
<1>4. CASE SkipMember
  <2>1. shape.additional = "unset" /\ Decoded(TRUE, g)
    BY <1>2, <1>4 DEF SkipMember
  <2>2. Taken(Member)
    BY <1>1, <2>1, UndeclaredMember
  <2>3. QED
    BY <1>1, <1>2, <2>1, <2>2, UndeclaredStep
<1>5. QED
  BY <1>3, <1>4

LEMMA LowerStep ==
  ASSUME CInv, LowerObject
  PROVE  CInv'
<1>1. FirstRound
  BY DEF CInv, LowerObject, SecondRound
<1>2. FirstRound' /\ ShapeSound(shape)' /\ IsSequence(incoming)'
  BY <1>1 DEF CInv, LowerObject, FirstRound
<1>3. QED
  BY <1>2 DEF CInv, LowerObject

\* setDefaults, before the first member.
LEMMA StartStep ==
  ASSUME CInv, Start
  PROVE  CInv'
<1>1. /\ UNCHANGED <<shape, incoming, unwritten, rounds>> /\ reading = "start" /\ reading' = "members"
      /\ propertiesCount' = 0 /\ lacking' = {} /\ bitSet' = [b \in Bytes |-> {}]
  BY DEF Start
<1>2. IsSequence(incoming) /\ Len(incoming) \in Nat
  BY SequenceIndices DEF CInv
<1>3. KeysTo(0) = {} /\ 1..0 = {}
  BY NextKeys
<1>4. PICK h : h = held'
  OBVIOUS
<1>5. h = [fields |-> [i \in JSONFields |-> Field(i).default], extra |-> NoEntries,
           matched |-> [i \in DOMAIN shape.patterns |-> NoEntries]]
  BY <1>4 DEF Start
<1>6. IsHeld(h)
  <2>1. NoEntries = [k \in DOMAIN NoEntries |-> NoEntries[k]]
    BY DEF NoEntries
  <2>2. QED
    BY <1>5, <2>1 DEF IsHeld
<1>7. FieldsRead(h, 0)
  BY <1>3, <1>5 DEF FieldsRead
<1>8. DOMAIN NoEntries = {}
  BY DEF NoEntries
<1>9. ExtraRead(h, 0)
  BY <1>3, <1>5, <1>8 DEF ExtraRead, ExtraKeys
<1>10. PatternsRead(h, 0)
  BY <1>3, <1>5, <1>8 DEF PatternsRead, PatternRead, PatternKeys
<1>11. HeldRead(h, 0)'
  BY <1>1, <1>6, <1>7, <1>9, <1>10, ObjectStays DEF HeldRead
<1>12. bitSet' = Required(0)
  <2>1. \A b : {Bit(i) : i \in {j \in JSONFields : /\ Byte(j) = b /\ Field(j).required
                                                   /\ Field(j).name \in KeysTo(0)}} = {}
    BY <1>3
  <2>2. QED
    BY <1>1, <2>1 DEF Required
<1>13. AllTaken(0)' /\ LastThere(0)' /\ bitSet' = Required(0)'
  BY <1>1, <1>3, <1>12, ObjectStays DEF AllTaken, LastThere
<1>14. ReadSoFar(0)'
  BY <1>1, <1>2, <1>4, <1>11, <1>13 DEF ReadSoFar
<1>15. QED
  BY <1>1, <1>14, RoundStays DEF CInv

LEMMA EndStep ==
  ASSUME CInv, EndOfObject
  PROVE  CInv'
<1>1. /\ UNCHANGED <<shape, incoming, held, bitSet, unwritten, rounds>> /\ reading = "members"
      /\ propertiesCount = Len(incoming) /\ reading' \in {"error", "read"}
  BY DEF EndOfObject
<1>2. PICK n : n = Len(incoming)
  OBVIOUS
<1>3. ReadSoFar(n) /\ n \in Nat /\ ShapeSound(shape)
  BY <1>1, <1>2, SequenceIndices DEF CInv
<1>4. CountWrong <=> ~InBounds(n)
  BY <1>1, <1>2, <1>3 DEF CountWrong, InBounds, ShapeSound
<1>5. isMap(shape) => Missing(n) = {}
  <2>1. isMap(shape) => JSONFields = {}
    BY DEF isMap, JSONFields
  <2>2. QED
    BY <2>1 DEF Missing
<1>6. lacking' = IF CountWrong THEN {} ELSE Missing(n)
  BY <1>3, <1>5, FailuresAreMissing DEF EndOfObject, ReadSoFar
<1>7. CASE reading' = "read"
  <2>1. InBounds(n) /\ Missing(n) = {} /\ lacking' = {}
    BY <1>4, <1>6, <1>7 DEF EndOfObject
  <2>2. PICK h : h = held
    OBVIOUS
  <2>3. HeldRead(h, n)'
    BY <1>1, <1>3, <2>2, ObjectStays DEF ReadSoFar
  <2>4. ReadSoFar(n)'
    BY <1>1, <1>3, <2>1, <2>2, <2>3, ObjectStays DEF ReadSoFar
  <2>5. InBounds(n)' /\ Missing(n)' = {}
    BY <1>1, <2>1, ObjectStays, SchemaStays
  <2>6. n = Len(incoming)'
    BY <1>1, <1>2
  <2>7. QED
    BY <1>1, <1>7, <2>4, <2>5, <2>6, RoundStays DEF CInv
<1>8. CASE reading' = "error"
  <2>1. AllTaken(n)'
    BY <1>1, <1>3, ObjectStays DEF ReadSoFar
  <2>2. Refused'
    <3>1. CASE CountWrong
      <4>1. lacking' = {} /\ ~InBounds(n)'
        BY <1>1, <1>4, <1>6, <3>1, SchemaStays
      <4>2. QED
        BY <1>1, <1>2, <2>1, <4>1 DEF Refused
    <3>2. CASE ~CountWrong
      <4>1. lacking' = Missing(n)' /\ lacking' # {}
        BY <1>1, <1>6, <1>8, <3>2, ObjectStays DEF EndOfObject
      <4>2. QED
        BY <1>1, <1>2, <4>1 DEF Refused
    <3>3. QED
      BY <3>1, <3>2
  <2>3. QED
    BY <1>1, <1>8, <2>2, RoundStays DEF CInv
<1>9. QED
  BY <1>1, <1>7, <1>8

\* A value that was read carries what its type allows.
LEMMA ReadCarries ==
  ASSUME ShapeSound(shape), NEW n \in Nat, AllTaken(n), LastThere(n), NEW h, HeldRead(h, n), Missing(n) = {}
  PROVE  Carries(h)
<1>1. IsHeld(h) /\ FieldsRead(h, n) /\ ExtraRead(h, n) /\ PatternsRead(h, n)
  BY DEF HeldRead
<1>2. ASSUME NEW i \in JSONFields
      PROVE  /\ h.fields[i] \subseteq Field(i).values /\ AtMostOne(h.fields[i])
             /\ Field(i).required \/ Field(i).default # {} => h.fields[i] # {}
  <2>1. CASE Field(i).name \notin KeysTo(n)
    <3>1. h.fields[i] = Field(i).default
      BY <1>1, <2>1 DEF FieldsRead
    <3>2. ~Field(i).required
      BY <2>1 DEF Missing
    <3>3. Field(i).default \subseteq Field(i).values /\ AtMostOne(Field(i).default)
      BY DEF ShapeSound, Field, JSONFields
    <3>4. QED
      BY <3>1, <3>2, <3>3
  <2>2. CASE Field(i).name \in KeysTo(n)
    <3>1. PICK k \in 1..n : incoming[k].key = Field(i).name
      BY <2>2 DEF KeysTo
    <3>2. PICK j \in 1..n : incoming[j].key = Field(i).name /\ IsLast(n, j)
      BY <3>1 DEF LastThere
    <3>3. h.fields[i] = {incoming[j].value}
      BY <1>1, <3>2 DEF FieldsRead
    <3>4. incoming[j].value \in Field(i).values
      BY <3>2 DEF AllTaken, Taken, FieldNamed
    <3>5. QED
      BY <3>3, <3>4 DEF AtMostOne
  <2>3. QED
    BY <2>1, <2>2
<1>3. ASSUME NEW k \in DOMAIN h.extra
      PROVE  k \notin FieldNamed /\ PatternsOf(k) = {} /\ shape.additional = "yes" /\ h.extra[k] \in shape.item
  <2>1. k \in KeysTo(n) /\ k \notin FieldNamed /\ PatternsOf(k) = {} /\ shape.additional = "yes"
    BY <1>1 DEF ExtraRead, ExtraKeys
  <2>2. PICK l \in 1..n : incoming[l].key = k
    BY <2>1 DEF KeysTo
  <2>3. PICK j \in 1..n : incoming[j].key = k /\ IsLast(n, j)
    BY <2>2 DEF LastThere
  <2>4. h.extra[k] = incoming[j].value
    BY <1>1, <2>3 DEF ExtraRead
  <2>5. \A p : PatternsOf(k) # {p}
    BY <2>1
  <2>6. incoming[j].value \in shape.item
    BY <2>1, <2>3, <2>5 DEF AllTaken, Taken
  <2>7. QED
    BY <2>1, <2>4, <2>6
<1>4. ASSUME NEW p \in DOMAIN shape.patterns, NEW k \in DOMAIN h.matched[p]
      PROVE  k \notin FieldNamed /\ PatternsOf(k) = {p} /\ h.matched[p][k] \in shape.patterns[p].values
  <2>1. k \in KeysTo(n) /\ k \notin FieldNamed /\ PatternsOf(k) = {p} /\ k \in PatternKeys(n, p)
    BY <1>1 DEF PatternsRead, PatternRead, PatternKeys
  <2>2. PICK l \in 1..n : incoming[l].key = k
    BY <2>1 DEF KeysTo
  <2>3. PICK j \in 1..n : incoming[j].key = k /\ IsLast(n, j)
    BY <2>2 DEF LastThere
  <2>4. h.matched[p][k] = incoming[j].value
    BY <1>1, <2>1, <2>3 DEF PatternsRead, PatternRead
  <2>5. \A q : PatternsOf(k) = {q} => q = p
    BY <2>1
  <2>6. PatternsOf(k) # {}
    BY <2>1
  <2>7. incoming[j].value \in shape.patterns[p].values
    BY <2>1, <2>3, <2>5, <2>6 DEF AllTaken, Taken
  <2>8. QED
    BY <2>1, <2>4, <2>7
<1>5. QED
  BY <1>1, <1>2, <1>3, <1>4 DEF Carries

-----------------------------------------------------------------------------
\* Each step of Encode.
LEMMA Longer ==
  ASSUME NEW a, NEW b, NEW c
  PROVE  Append(<<a>>, b) = <<a, b>> /\ Append(<<a, b>>, c) = <<a, b, c>>
<1>1. <<a>> \in Seq({a, b, c}) /\ <<a, b>> \in Seq({a, b, c}) /\ <<a, b, c>> \in Seq({a, b, c})
  OBVIOUS
<1>2. Append(<<a>>, b) = <<a, b>>
  <2> DEFINE s == Append(<<a>>, b)
  <2>1. s \in Seq({a, b, c}) /\ Len(s) = 2 /\ s[1] = a /\ s[2] = b
    BY <1>1
  <2> HIDE DEF s
  <2>2. Len(<<a, b>>) = 2 /\ \A i \in 1..2 : s[i] = <<a, b>>[i]
    BY <2>1
  <2>3. s = <<a, b>>
    BY <1>1, <2>1, <2>2, SeqEqual
  <2>4. QED
    BY <2>3 DEF s
<1>3. Append(<<a, b>>, c) = <<a, b, c>>
  <2> DEFINE s == Append(<<a, b>>, c)
  <2>1. s \in Seq({a, b, c}) /\ Len(s) = 3 /\ s[1] = a /\ s[2] = b /\ s[3] = c
    BY <1>1
  <2> HIDE DEF s
  <2>2. Len(<<a, b, c>>) = 3 /\ \A i \in 1..3 : s[i] = <<a, b, c>>[i]
    BY <2>1
  <2>3. s = <<a, b, c>>
    BY <1>1, <2>1, <2>2, SeqEqual
  <2>4. QED
    BY <2>3 DEF s
<1>4. QED
  BY <1>2, <1>3

LEMMA EncodeStep ==
  ASSUME CInv, Encode
  PROVE  CInv'
<1>1. /\ reading = "read" /\ Len(rounds) = 1 /\ incoming' = <<>> /\ reading' = "encode"
      /\ UNCHANGED <<shape, held>> /\ unwritten' = Pieces(held)
  BY DEF Encode
<1>2. rounds = <<incoming>>
  BY <1>1 DEF CInv, FirstRound, SecondRound
<1>3. PICK h, o : h = held /\ o = incoming
  OBVIOUS
<1>4. rounds' = <<o, h>>
  <2>1. rounds' = Append(<<o>>, h)
    BY <1>2, <1>3 DEF Encode
  <2>2. QED
    BY <2>1, Longer
<1>5. PICK n : n = Len(o)
  OBVIOUS
<1>6. ReadSoFar(n) /\ InBounds(n) /\ Missing(n) = {} /\ ShapeSound(shape) /\ n \in Nat
  BY <1>1, <1>3, <1>5, SequenceIndices DEF CInv
<1>7. Carries(h)
  BY <1>3, <1>6, ReadCarries DEF ReadSoFar
<1>8. Carries(h)' /\ InBounds(n)'
  BY <1>1, <1>6, <1>7, SchemaStays
<1>9. PICK ps : ps = Pieces(h)
  OBVIOUS
<1>10. Pieces(h)' = ps /\ unwritten' = ps
  BY <1>1, <1>3, <1>9, SchemaStays
<1>11. IsSequence(incoming)' /\ DOMAIN incoming' = {}
  BY <1>1 DEF IsSequence
<1>12. Written(ps)'
  BY <1>10, <1>11 DEF Written
<1>13. rounds'[2] = h /\ rounds'[1] = o /\ rounds' = <<rounds'[1], rounds'[2]>>
  BY <1>4
<1>14. SecondRound'
  BY <1>1, <1>3, <1>5, <1>8, <1>10, <1>12, <1>13 DEF SecondRound
<1>15. ShapeSound(shape)'
  BY <1>1, <1>6
<1>16. QED
  BY <1>1, <1>11, <1>14, <1>15 DEF CInv

LEMMA LongerSequence ==
  ASSUME NEW s, IsSequence(s), NEW x
  PROVE  /\ IsSequence(Append(s, x)) /\ Len(Append(s, x)) = Len(s) + 1
         /\ \A i \in 1..Len(s) : Append(s, x)[i] = s[i]
         /\ Append(s, x)[Len(s) + 1] = x
<1> DEFINE S == ToSet(s) \cup {x}
           t == Append(s, x)
<1>1. s \in Seq(ToSet(s)) /\ ToSet(s) \subseteq S /\ x \in S
  BY DEF IsSequence
<1> HIDE DEF S
<1>2. s \in Seq(S)
  BY <1>1
<1>3. t \in Seq(S) /\ Len(t) = Len(s) + 1 /\ Len(s) \in Nat /\ t[Len(s) + 1] = x
      /\ \A i \in 1..Len(s) : t[i] = s[i]
  BY <1>1, <1>2
<1> HIDE DEF t
<1>4. t \in Seq(ToSet(t))
  <2>1. \A i \in 1..Len(t) : t[i] \in ToSet(t)
    BY <1>3 DEF ToSet
  <2>2. QED
    BY <1>3, <2>1
<1>5. QED
  BY <1>3, <1>4 DEF IsSequence, t

LEMMA WriteStep ==
  ASSUME CInv, WriteMember
  PROVE  CInv'
<1>1. PICK m \in unwritten :
        /\ incoming' = Append(incoming, [key |-> m.key, value |-> m.value]) /\ unwritten' = unwritten \ {m}
  BY DEF WriteMember
<1>2. /\ reading = "encode" /\ reading' = "encode" /\ UNCHANGED <<shape, held, rounds>>
      /\ ShapeSound(shape) /\ IsSequence(incoming)
  BY DEF WriteMember, CInv
<1>3. rounds = <<rounds[1], rounds[2]>> /\ rounds[2] = held /\ SecondRound
  BY <1>2 DEF CInv, FirstRound, SecondRound
<1>4. PICK h, n : h = rounds[2] /\ n = Len(rounds[1])
  OBVIOUS
<1>5. PICK ps : ps = Pieces(h)
  OBVIOUS
<1>6. Carries(h)' /\ InBounds(n)' /\ (ConstKept(h)' <=> ConstKept(h)) /\ Pieces(h)' = ps
  BY <1>2, <1>3, <1>4, <1>5, SchemaStays DEF SecondRound
<1>7. PICK l \in Nat : l = Len(incoming) /\ DOMAIN incoming = 1..l
  BY <1>2, SequenceIndices
<1>8. PICK x : x = [key |-> m.key, value |-> m.value]
  OBVIOUS
<1>9. /\ IsSequence(incoming)' /\ DOMAIN incoming' = 1..(l + 1)
      /\ \A i \in 1..l : incoming'[i] = incoming[i]
      /\ incoming'[l + 1] = x
  <2>1. PICK o : o = incoming
    OBVIOUS
  <2>2. PICK p : p = Append(o, x)
    OBVIOUS
  <2>3. IsSequence(p) /\ Len(p) = l + 1 /\ (\A i \in 1..l : p[i] = o[i]) /\ p[l + 1] = x
    BY <1>2, <1>7, <2>1, <2>2, LongerSequence
  <2>4. DOMAIN p = 1..(l + 1)
    BY <2>3, SequenceIndices
  <2>5. incoming' = p
    BY <1>1, <1>8, <2>1, <2>2
  <2>6. QED
    BY <2>1, <2>3, <2>4, <2>5
<1>10. ConstKept(h) => Written(ps)'
  <2>1. SUFFICES ASSUME ConstKept(h) PROVE Written(ps)'
    OBVIOUS
  <2>2. Written(ps) /\ Carries(h)
    BY <1>3, <1>4, <1>5, <2>1 DEF SecondRound
  <2>3. m \in ps /\ unwritten' \subseteq ps
    BY <1>1, <2>2 DEF Written
  <2>4. SameMember(x, m)
    BY <1>8 DEF SameMember
  <2>5. ASSUME NEW q \in ps \ unwritten' PROVE \E i \in 1..(l + 1) : SameMember(incoming'[i], q)
    <3>1. CASE q = m
      BY <1>9, <2>4, <3>1
    <3>2. CASE q # m
      <4>1. q \in ps \ unwritten
        BY <1>1, <2>5, <3>2
      <4>2. PICK i \in 1..l : SameMember(incoming[i], q)
        BY <1>7, <2>2, <4>1 DEF Written
      <4>3. QED
        BY <1>9, <4>2
    <3>3. QED
      BY <3>1, <3>2
  <2>6. ASSUME NEW i \in 1..l PROVE \E q \in ps \ unwritten : SameMember(incoming[i], q)
    BY <1>7, <2>2 DEF Written
  <2>7. ASSUME NEW i \in 1..(l + 1) PROVE \E q \in ps \ unwritten' : SameMember(incoming'[i], q)
    <3>1. CASE i = l + 1
      BY <1>1, <1>9, <2>3, <2>4, <3>1
    <3>2. CASE i \in 1..l
      BY <1>1, <1>9, <2>6, <3>2
    <3>3. QED
      BY <3>1, <3>2
  <2>8. ASSUME NEW i \in 1..l PROVE incoming[i].key # x.key
    <3>1. PICK q \in ps \ unwritten : SameMember(incoming[i], q)
      BY <2>6
    <3>2. q # m /\ q.key = incoming[i].key /\ m.key = x.key
      BY <1>1, <2>4, <3>1 DEF SameMember
    <3>3. q.key # m.key
      BY <1>2, <1>5, <2>1, <2>2, <2>3, <3>2, PieceNames
    <3>4. QED
      BY <3>2, <3>3
  <2>9. ASSUME NEW i \in 1..(l + 1), NEW j \in 1..(l + 1), i # j PROVE incoming'[i].key # incoming'[j].key
    <3>1. CASE i \in 1..l /\ j \in 1..l
      BY <1>7, <1>9, <2>2, <2>9, <3>1 DEF Written
    <3>2. CASE i = l + 1 /\ j \in 1..l
      BY <1>9, <2>8, <3>2
    <3>3. CASE i \in 1..l /\ j = l + 1
      BY <1>9, <2>8, <3>3
    <3>4. QED
      BY <2>9, <3>1, <3>2, <3>3
  <2>10. QED
    BY <1>9, <2>3, <2>5, <2>7, <2>9 DEF Written
<1>11. SecondRound'
  <2>1. rounds' = <<rounds'[1], rounds'[2]>> /\ rounds'[2] = h /\ rounds'[1] = rounds[1] /\ h = held'
    BY <1>2, <1>3, <1>4
  <2>2. QED
    BY <1>2, <1>4, <1>6, <1>10, <2>1 DEF SecondRound
<1>12. ShapeSound(shape)'
  BY <1>2
<1>13. QED
  BY <1>2, <1>9, <1>11, <1>12 DEF CInv

LEMMA SendStep ==
  ASSUME CInv, SendOn
  PROVE  CInv'
<1>1. /\ reading = "encode" /\ reading' = "start" /\ unwritten = {} /\ rounds' = Append(rounds, incoming)
      /\ UNCHANGED <<shape, incoming, unwritten>> /\ ShapeSound(shape) /\ IsSequence(incoming)
  BY DEF SendOn, CInv
<1>2. PICK h, r, o : rounds = <<r, h>> /\ h = rounds[2] /\ r = rounds[1] /\ o = incoming
  BY <1>1 DEF CInv, FirstRound, SecondRound
<1>3. SecondRound
  <2>1. ~FirstRound
    BY <1>1 DEF FirstRound
  <2>2. QED
    BY <2>1 DEF CInv
<1>4. rounds' = <<r, h, o>>
  BY <1>1, <1>2, Longer
<1>5. PICK n, ps : n = Len(r) /\ ps = Pieces(h)
  OBVIOUS
<1>6. Carries(h)' /\ InBounds(n)' /\ (ConstKept(h)' <=> ConstKept(h)) /\ Pieces(h)' = ps
  BY <1>1, <1>2, <1>3, <1>5, SchemaStays DEF SecondRound
<1>7. Written(ps)' <=> Written(ps)
  BY <1>1 DEF Written
<1>8. ConstKept(h)' => Written(ps)'
  <2>1. ConstKept(h) => Written(ps)
    BY <1>2, <1>3, <1>5 DEF SecondRound
  <2>2. QED
    BY <1>6, <1>7, <2>1
<1>9. rounds'[1] = r /\ rounds'[2] = h /\ rounds' = <<rounds'[1], rounds'[2], incoming'>>
  <2>1. incoming' = o
    BY <1>1, <1>2
  <2>2. rounds'[1] = r /\ rounds'[2] = h
    BY <1>4
  <2>3. QED
    BY <1>4, <2>1, <2>2
<1>10. SecondRound'
  BY <1>1, <1>5, <1>6, <1>8, <1>9 DEF SecondRound
<1>11. QED
  BY <1>1, <1>10 DEF CInv

-----------------------------------------------------------------------------
LEMMA CodecStarts == CodecInit => CInv
<1> SUFFICES ASSUME CodecInit PROVE CInv
  OBVIOUS
<1>1. PICK c \in Codecs : shape = c.shape /\ incoming \in c.objects
  BY DEF CodecInit
<1>2. ShapeSound(shape) /\ IsSequence(incoming)
  BY <1>1, CodecsAssumption
<1>3. reading = "lower" /\ rounds = <<incoming>>
  BY DEF CodecInit
<1>4. QED
  BY <1>2, <1>3 DEF CInv, FirstRound

LEMMA CodecStays ==
  ASSUME CInv, UNCHANGED codecVars
  PROVE  CInv'
<1>1. /\ UNCHANGED <<shape, incoming, held, bitSet, propertiesCount, reading, lacking, unwritten, rounds>>
      /\ ShapeSound(shape)' /\ IsSequence(incoming)'
  BY DEF codecVars, CInv
<1>2. PICK h, k, n : h = held /\ k = propertiesCount /\ n = Len(incoming)
  OBVIOUS
<1>3. h = held' /\ k = propertiesCount' /\ n = Len(incoming)'
  BY <1>1, <1>2
<1>4. \A l : ReadSoFar(l) => ReadSoFar(l)'
  BY <1>1, <1>2, <1>3, ObjectStays DEF ReadSoFar
<1>5. Refused => Refused'
  <2>1. \A m : ~Taken(m) => ~Taken(m)'
    BY <1>1, SchemaStays
  <2>2. PICK o : o = incoming
    OBVIOUS
  <2>3. (\E j \in 1..n : ~Taken(o[j])) => \E j \in 1..n : ~Taken(o[j])'
    BY <2>1
  <2>4. (\E j \in 1..n : ~Taken(incoming[j])) => \E j \in 1..n : ~Taken(incoming[j])'
    BY <1>1, <2>2, <2>3
  <2>5. /\ AllTaken(n) => AllTaken(n)'
        /\ ~InBounds(n) => ~InBounds(n)'
        /\ Missing(n)' = Missing(n)
    BY <1>1, ObjectStays, SchemaStays
  <2>6. QED
    BY <1>1, <1>2, <1>3, <2>4, <2>5 DEF Refused
<1>6. FirstRound => FirstRound'
  BY <1>1 DEF FirstRound
<1>7. SecondRound => SecondRound'
  <2>1. PICK g, r : g = rounds[2] /\ r = Len(rounds[1])
    OBVIOUS
  <2>2. PICK ps : ps = Pieces(g)
    OBVIOUS
  <2>3. /\ Carries(g) => Carries(g)' 
        /\ InBounds(r) => InBounds(r)'
        /\ ConstKept(g)' <=> ConstKept(g)
        /\ Pieces(g)' = ps
    BY <1>1, <2>2, SchemaStays
  <2>4. Written(ps) => Written(ps)'
    BY <1>1 DEF Written
  <2>5. QED
    BY <1>1, <2>1, <2>2, <2>3, <2>4 DEF SecondRound
<1>8. InBounds(n) => InBounds(n)'
  BY <1>1, SchemaStays
<1>9. Missing(n)' = Missing(n)
  BY <1>1, ObjectStays
<1>10. reading = "members" => ReadSoFar(k)'
  BY <1>2, <1>4 DEF CInv
<1>11. reading = "read" => ReadSoFar(n)' /\ InBounds(n)' /\ Missing(n)' = {}
  BY <1>2, <1>4, <1>8, <1>9 DEF CInv
<1>12. reading = "error" => Refused'
  BY <1>5 DEF CInv
<1>13. FirstRound' \/ SecondRound'
  BY <1>6, <1>7 DEF CInv
<1>14. QED
  BY <1>1, <1>2, <1>3, <1>10, <1>11, <1>12, <1>13 DEF CInv

LEMMA CodecSteps == CInv /\ [CodecNext]_codecVars => CInv'
<1> SUFFICES ASSUME CInv, [CodecNext]_codecVars PROVE CInv'
  OBVIOUS
<1>1. CASE UNCHANGED codecVars
  BY <1>1, CodecStays
<1>2. CASE CodecNext
  BY <1>2, LowerStep, StartStep, FieldStep, PatternsStep, AdditionalStep, OtherStep, EndStep, EncodeStep, WriteStep,
     SendStep DEF CodecNext
<1>3. QED
  BY <1>1, <1>2

LEMMA CodecInvariant == CodecSpec => []CInv
<1>1. CInv /\ [CodecNext]_codecVars => CInv'
  BY CodecSteps
<1>2. QED
  BY CodecStarts, <1>1, PTL DEF CodecSpec

\* For every schema and object: Decode (encoders_struct.tmpl, encoders_map.tmpl) takes the
\* objects the schema allows and no other, its error names the required members that are
\* missing, although they are bits of several bytes, and it keeps the last value sent
\* under a name.
THEOREM ObjectsReadAsDescribed == CodecSpec => []ReadIffConforms
<1>1. CInv => ReadIffConforms
  BY ReadsConforming
<1>2. QED
  BY CodecInvariant, <1>1, PTL

\* For every schema and object: what Encode (encoders_struct.tmpl, encodeFields) writes of a
\* value that was read, in whatever order Go gives its maps, has every name once and is
\* read as that value.
THEOREM WrittenObjectsReadBack == CodecSpec => []WrittenReadsBack
<1>1. CInv => WrittenReadsBack
  BY ReadsBack
<1>2. QED
  BY CodecInvariant, <1>1, PTL

-----------------------------------------------------------------------------
(* How the variants of a sum are told apart.  ReadAsWritten speaks of the  *)
(* end; SInv says what lowering made of the schema, what was sent, and how *)
(* far it is read: what was found is the variant that was sent, and it was *)
(* found if a member that tells was read.  Whatever is read while one of   *)
(* the exceptions holds does not matter.                                   *)

\* What lowering may have made of a schema.
SpecOk ==
  \/ spec = ByTypeSpec /\ (IsEnum \/ CanUseTypeDiscriminator)
  \/ spec.by = "discriminator" /\ ~IsEnum
  \/ spec = FieldsSpec /\ ~FieldsRefused /\ ~IsEnum
  \/ IsEnum /\ \E f \in findEnumDiscriminator : spec = ToldBy(f)

\* The parts of FieldsSpec.
TellsBy(f, x) == {v \in UniqueFields[f] : x \in TypeOf(v, f).values}
ListedFor(f) == UNION {TypeOf(v, f).values : v \in UniqueFields[f]}
ValuesFor(f) == [x \in ListedFor(f) |-> TheOne(TellsBy(f, x))]
OwnFields == [f \in DOMAIN UniqueFields \ ByValue |-> UniqueFields[f]]
ListedFields == [f \in ByValue |-> ValuesFor(f)]
Default == IF NoUniqueFields = {} THEN 0 ELSE TheOne(NoUniqueFields)

\* The parts of ObjectsOf.
TokensFor(v, f) == TokensOf(TypeOf(v, f))
ObjectsWith(v, S) == [S -> UNION {TokensFor(v, f) : f \in S}]
Chosen(v) == UNION {ObjectsWith(v, S) : S \in SUBSET DOMAIN Fields(v)}
Needed(v) == {f \in DOMAIN Fields(v) : Fields(v)[f].required}
Complete(v) == {o \in Chosen(v) : Needed(v) \subseteq DOMAIN o /\ \A f \in DOMAIN o : o[f] \in TokensFor(v, f)}

\* What a peer has sent.
Keyed(o) ==
  IF spec.by # "discriminator" THEN object = o
  ELSE \E x \in KeysOf(sent) :
         object = [f \in DOMAIN o \union {Kind} |-> IF f = Kind THEN KeyToken(sent, x) ELSE o[f]]
KindsOf(v) == IF Variants[v].kind = "sum" THEN ToSet(Variants[v].of) ELSE {Variants[v].kind}
Was(v) ==
  IF Variants[v].kind = "struct" THEN token = Token("Object", none) /\ \E o \in ObjectsOf(v) : Keyed(o)
  ELSE /\ object = NoMembers
       /\ \E k \in KindsOf(v) : token \in Plain(k)
Sent == sent \in Index /\ Was(sent)

\* What may be returned.
Exempt ==
  \/ spec.by = "fields" /\ ~IsEnum /\ (Blurred \/ Undecided \/ EmptyArray \/ NullTwice \/ Borrowed)
  \/ spec.by = "discriminator" /\ (IntegerKey(sent) \/ token.json # "Object" \/ KeyTaken)
  \/ spec.by = "type" /\ (Repeated \/ Len(sum.enum) > 1)
  \/ Nulls
Right(t, err) ==
  \/ t = sent /\ ~err
  \/ ~sum.oneOf /\ ~err /\ token.json # "Object" /\ Fits(t)
  \/ Exempt

\* How far the members are read: which of them decide, and what they say.
Decides(f) ==
  IF spec.by = "discriminator" THEN f = Kind
  ELSE IF IsEnum THEN f \in DOMAIN spec.values
  ELSE Tells(f)
Progress ==
  /\ DOMAIN members \subseteq DOMAIN object
  /\ \A f \in DOMAIN members : members[f] = object[f]
  /\ found => type = sent
  /\ \A f \in DOMAIN object \ DOMAIN members : Decides(f) => found
  /\ spec.by = "discriminator" /\ Kind \in DOMAIN members => ~found

SInv ==
  /\ SumSound(sum)
  /\ stage \in {"lower", "receive", "read", "done"}
  /\ stage \in {"lower", "receive"} => ~found
  /\ stage \in {"receive", "read"} => SpecOk
  /\ stage = "read" => Sent /\ ((members = object /\ ~found) \/ Exempt \/ Progress)
  /\ stage = "done" => refused \/ Right(type, failed)

-----------------------------------------------------------------------------
LEMMA VariantsStay ==
  ASSUME UNCHANGED sum
  PROVE  /\ IsEnum' = IsEnum /\ Variants' = Variants /\ Index' = Index /\ Names' = Names
         /\ \A v : Fields(v)' = Fields(v)
         /\ \A v, f : Has(v, f)' = Has(v, f)
         /\ \A v, f : TypeOf(v, f)' = TypeOf(v, f)
<1>1. IsEnum' = IsEnum
  BY DEF IsEnum
<1>2. Variants' = Variants
  BY <1>1 DEF Variants
<1>3. Index' = Index
  BY <1>2 DEF Index
<1>4. \A v : Fields(v)' = Fields(v)
  BY <1>2 DEF Fields
<1>5. \A v, f : Has(v, f)' = Has(v, f)
  BY <1>4 DEF Has
<1>6. \A v, f : TypeOf(v, f)' = TypeOf(v, f)
  BY <1>4 DEF TypeOf
<1>7. Names' = Names
  BY <1>3, <1>4 DEF Names
<1>8. QED
  BY <1>1, <1>2, <1>3, <1>4, <1>5, <1>6, <1>7

LEMMA TypesStay ==
  ASSUME UNCHANGED sum
  PROVE  /\ CanUseTypeDiscriminator' = CanUseTypeDiscriminator
         /\ \A v : CaseTypes(v)' = CaseTypes(v)
         /\ Repeated' = Repeated
<1>1. \A k : GetType(k)' = GetType(k)
  BY DEF GetType
<1>2. \A k : TypesUpTo(k)' = TypesUpTo(k)
  BY <1>1, VariantsStay DEF TypesUpTo
<1>3. CanUseTypeDiscriminator' = CanUseTypeDiscriminator
  BY <1>1, <1>2, VariantsStay DEF CanUseTypeDiscriminator
<1>4. \A v : CaseTypes(v)' = CaseTypes(v)
  BY VariantsStay DEF CaseTypes
<1>5. Repeated' = Repeated
  BY <1>4, VariantsStay DEF Repeated
<1>6. QED
  BY <1>3, <1>4, <1>5

LEMMA UniqueStay ==
  ASSUME UNCHANGED sum
  PROVE  /\ \A v, f : Signature(v, f)' = Signature(v, f)
         /\ \A v : Signatures(v)' = Signatures(v)
         /\ \A v : Unique(v)' = Unique(v)
         /\ NoUniqueFields' = NoUniqueFields /\ UniqueFields' = UniqueFields /\ ByValue' = ByValue
         /\ \A f : ByElement(f)' = ByElement(f)
         /\ FieldsSpec' = FieldsSpec /\ FieldsRefused' = FieldsRefused
<1>1. \A v, f : Signature(v, f)' = Signature(v, f)
  BY VariantsStay DEF Signature
<1>2. \A v : Signatures(v)' = Signatures(v)
  BY <1>1, VariantsStay DEF Signatures
<1>3. \A v : Unique(v)' = Unique(v)
  BY <1>1, <1>2, VariantsStay DEF Unique
<1>4. NoUniqueFields' = NoUniqueFields /\ UniqueFields' = UniqueFields
  BY <1>3, VariantsStay DEF NoUniqueFields, UniqueFields
<1>5. \A f, vs : Enums(f, vs)' = Enums(f, vs) /\ Disjoint(f, vs)' = Disjoint(f, vs)
  BY VariantsStay DEF Enums, Disjoint
<1>6. \A f : Contested(f)' = Contested(f)
  BY <1>4, VariantsStay DEF Contested
<1>7. PICK us : us = UniqueFields
  OBVIOUS
<1>8. ByValue' = ByValue
  <2>1. us = UniqueFields'
    BY <1>4, <1>7
  <2>2. \A f \in DOMAIN us : (Enums(f, us[f]) /\ Disjoint(f, us[f]))' = (Enums(f, us[f]) /\ Disjoint(f, us[f]))
    BY <1>5
  <2>3. QED
    BY <1>6, <1>7, <2>1, <2>2 DEF ByValue
<1>9. \A f : ElementTypes(f)' = ElementTypes(f)
  BY <1>4, VariantsStay DEF ElementTypes
<1>10. \A f : ByElement(f)' = ByElement(f)
  BY <1>4, <1>9, VariantsStay DEF ByElement
<1>11. OwnName' = OwnName
  BY VariantsStay DEF OwnName
<1>12. Undiscriminable' = Undiscriminable
  BY <1>4, <1>6, <1>8, <1>10, <1>11 DEF Undiscriminable
<1>13. AllStructs' = AllStructs
  BY VariantsStay DEF AllStructs
<1>14. FieldsRefused' = FieldsRefused
  BY <1>4, <1>8, <1>12, <1>13 DEF FieldsRefused
<1>15. FieldsSpec' = FieldsSpec
  <2>1. \A v, f, x : (x \in TypeOf(v, f).values)' = (x \in TypeOf(v, f).values)
    BY VariantsStay
  <2>2. \A f, x : TellsBy(f, x)' = TellsBy(f, x)
    BY <1>4, <2>1 DEF TellsBy
  <2>3. \A f : ListedFor(f)' = ListedFor(f)
    BY <1>4, VariantsStay DEF ListedFor
  <2>4. \A f : ValuesFor(f)' = ValuesFor(f)
    BY <2>2, <2>3 DEF ValuesFor
  <2>5. OwnFields' = OwnFields
    BY <1>4, <1>8 DEF OwnFields
  <2>6. ListedFields' = ListedFields
    BY <1>8, <2>4 DEF ListedFields
  <2>7. Default' = Default
    BY <1>4 DEF Default
  <2>8. FieldsSpec = [NoSpec EXCEPT !.by = "fields", !.unique = OwnFields, !.values = ListedFields, !.default = Default]
    BY DEF FieldsSpec, OwnFields, ListedFields, ValuesFor, ListedFor, TellsBy, Default
  <2>9. FieldsSpec' =
          [NoSpec EXCEPT !.by = "fields", !.unique = OwnFields', !.values = ListedFields', !.default = Default']
    BY DEF FieldsSpec, OwnFields, ListedFields, ValuesFor, ListedFor, TellsBy, Default, NoSpec
  <2>10. QED
    BY <2>5, <2>6, <2>7, <2>8, <2>9
<1>16. QED
  BY <1>1, <1>2, <1>3, <1>4, <1>8, <1>10, <1>14, <1>15

LEMMA EnumsStay ==
  ASSUME UNCHANGED sum
  PROVE  /\ \A i : ObjectAt(i)' = ObjectAt(i)
         /\ findEnumDiscriminator' = findEnumDiscriminator
         /\ \A f : ToldBy(f)' = ToldBy(f)
<1>1. \A i : ObjectAt(i)' = ObjectAt(i)
  BY DEF ObjectAt
<1>2. \A i, f : StringIn(i, f)' = StringIn(i, f)
  BY <1>1 DEF StringIn
<1>3. findEnumDiscriminator' = findEnumDiscriminator
  BY <1>1, <1>2, VariantsStay DEF findEnumDiscriminator
<1>4. \A f : ToldBy(f)' = ToldBy(f)
  BY <1>1, VariantsStay DEF ToldBy, NoSpec
<1>5. QED
  BY <1>1, <1>3, <1>4

LEMMA SpecStays ==
  ASSUME UNCHANGED <<sum, spec>>
  PROVE  SpecOk' = SpecOk
<1>1. PICK s : s = spec
  OBVIOUS
<1>2. s = spec'
  BY <1>1
<1>3. \A f : (s = ToldBy(f))' = (s = ToldBy(f))
  BY EnumsStay
<1>4. (\E f \in findEnumDiscriminator : spec = ToldBy(f))' = (\E f \in findEnumDiscriminator : spec = ToldBy(f))
  BY <1>1, <1>2, <1>3, EnumsStay
<1>5. ByTypeSpec' = ByTypeSpec
  BY DEF ByTypeSpec, NoSpec
<1>6. QED
  BY <1>4, <1>5, VariantsStay, TypesStay, UniqueStay DEF SpecOk

LEMMA ReadingStays ==
  ASSUME UNCHANGED <<sum, spec, sent, token, object>>
  PROVE  /\ Exempt' = Exempt
         /\ \A t, e : Right(t, e)' = Right(t, e)
         /\ \A f : Decides(f)' = Decides(f)
         /\ \A f, t : MatchValue(f, t)' = MatchValue(f, t)
<1>1. Blurred' = Blurred
  <2>1. \A v, w, f : Alike(v, w, f)' = Alike(v, w, f)
    BY VariantsStay, UniqueStay DEF Alike
  <2>2. QED
    BY <2>1, VariantsStay, UniqueStay DEF Blurred
<1>2. \A f : Shared(f)' = Shared(f)
  BY VariantsStay DEF Shared
<1>3. \A f : Tells(f)' = Tells(f)
  BY <1>2, UniqueStay DEF Tells
<1>4. Undecided' = Undecided
  BY <1>3, UniqueStay DEF Undecided
<1>5. EmptyArray' = EmptyArray /\ NullTwice' = NullTwice
  BY <1>2 DEF EmptyArray, NullTwice, Token
<1>6. \A f, t : MatchValue(f, t)' = MatchValue(f, t)
  BY DEF MatchValue
<1>7. Borrowed' = Borrowed
  <2>1. \A f : MatchValue(f, object[f])' = MatchValue(f, object[f])
    BY DEF MatchValue
  <2>2. QED
    BY <2>1, UniqueStay DEF Borrowed
<1>8. KeyTaken' = KeyTaken
  <2>1. \A v : MappedTo(v)' = MappedTo(v)
    BY DEF MappedTo
  <2>2. QED
    BY <2>1, VariantsStay DEF KeyTaken
<1>9. IntegerKey(sent)' = IntegerKey(sent)
  <2>1. \A v : IntegerKey(v)' = IntegerKey(v)
    BY VariantsStay DEF IntegerKey, Explicit
  <2>2. QED
    BY <2>1 DEF IntegerKey, Explicit
<1>10. Nulls' = Nulls
  BY VariantsStay DEF Nulls
<1>11. Exempt' = Exempt
  BY <1>1, <1>4, <1>5, <1>7, <1>8, <1>9, <1>10, VariantsStay, TypesStay DEF Exempt
<1>12. \A v : Fits(v)' = Fits(v)
  BY VariantsStay DEF Fits
<1>13. \A t, e : Right(t, e)' = Right(t, e)
  BY <1>11, <1>12 DEF Right
<1>14. \A f : Decides(f)' = Decides(f)
  BY <1>3, VariantsStay DEF Decides
<1>15. QED
  BY <1>6, <1>11, <1>13, <1>14

LEMMA WrittenStay ==
  ASSUME UNCHANGED <<sum, spec>>
  PROVE  /\ \A v : ObjectsOf(v)' = ObjectsOf(v)
         /\ \A v : KeysOf(v)' = KeysOf(v)
         /\ \A v, x : KeyToken(v, x)' = KeyToken(v, x)
<1>1. \A v : ObjectsOf(v)' = ObjectsOf(v)
  <2>1. PlainTexts' = PlainTexts
    BY VariantsStay DEF PlainTexts
  <2>2. \A t : TokensOf(t)' = TokensOf(t)
    BY <2>1 DEF TokensOf, ListedTokens, UnlistedTokens
  <2>3. \A v, f : TokensFor(v, f)' = TokensFor(v, f)
    BY <2>2, VariantsStay DEF TokensFor
  <2>4. \A v, S : ObjectsWith(v, S)' = ObjectsWith(v, S)
    BY <2>3 DEF ObjectsWith
  <2>5. \A v : Needed(v)' = Needed(v)
    BY VariantsStay DEF Needed
  <2>6. \A v : Chosen(v)' = Chosen(v)
    BY <2>4, VariantsStay DEF Chosen
  <2>7. \A v : Complete(v)' = Complete(v)
    BY <2>3, <2>5, <2>6, VariantsStay DEF Complete
  <2>8. \A v : ObjectsOf(v) = IF IsEnum THEN {ObjectAt(v)} ELSE Complete(v)
    BY DEF ObjectsOf, Complete, Chosen, Needed, ObjectsWith, TokensFor
  <2>9. \A v : ObjectsOf(v)' = (IF IsEnum THEN {ObjectAt(v)} ELSE Complete(v))'
    BY DEF ObjectsOf, Complete, Chosen, Needed, ObjectsWith, TokensFor
  <2>10. QED
    BY <2>7, <2>8, <2>9, VariantsStay, EnumsStay
<1>2. \A v : KeysOf(v)' = KeysOf(v)
  BY DEF KeysOf, MappedTo
<1>3. \A v, x : KeyToken(v, x)' = KeyToken(v, x)
  BY VariantsStay DEF KeyToken, IntegerKey, Explicit
<1>4. QED
  BY <1>1, <1>2, <1>3

LEMMA SentStays ==
  ASSUME UNCHANGED <<sum, spec, sent, token, object>>
  PROVE  Sent' = Sent
<1>1. PICK u : u = sent
  OBVIOUS
<1>2. u = sent'
  BY <1>1
<1>3. /\ \A v : ObjectsOf(v)' = ObjectsOf(v)
      /\ \A v : KeysOf(v)' = KeysOf(v)
      /\ \A v, x : KeyToken(v, x)' = KeyToken(v, x)
  BY WrittenStay
<1>4. \A o : Keyed(o)' = Keyed(o)
  BY <1>1, <1>2, <1>3 DEF Keyed
<1>5. \A v : Was(v)' = Was(v)
  BY <1>3, <1>4, VariantsStay DEF Was, KindsOf
<1>6. Was(u)' = Was(u)
  BY <1>5
<1>7. QED
  BY <1>1, <1>2, <1>6, VariantsStay DEF Sent

-----------------------------------------------------------------------------
LEMMA NoneIsNoType == none # "Number" /\ none # "Object" /\ none # "String" /\ none # "Array" /\ none # "Null"
  BY Zenon DEF none

LEMMA TheOnly == \A x : TheOne({x}) = x
  BY Zenon DEF TheOne

LEMMA IndexIsFinite ==
  ASSUME SumSound(sum)
  PROVE  /\ \E n \in Nat : Index = 1..n
         /\ Index \subseteq Nat \ {0} /\ IsFiniteSet(Index)
         /\ ~IsEnum => Index = DOMAIN sum.variants /\ Variants = sum.variants
         /\ IsEnum => Index = DOMAIN sum.enum /\ DOMAIN sum.enum = 1..Len(sum.enum) /\ Len(sum.enum) \in Nat
<1>1. sum.variants \in Seq(Range(sum.variants)) /\ sum.enum \in Seq(Range(sum.enum))
  BY DEF SumSound
<1>2. /\ DOMAIN sum.variants = 1..Len(sum.variants) /\ Len(sum.variants) \in Nat
      /\ DOMAIN sum.enum = 1..Len(sum.enum) /\ Len(sum.enum) \in Nat
  BY <1>1
<1>3. /\ ~IsEnum => Index = DOMAIN sum.variants /\ Variants = sum.variants
      /\ IsEnum => Index = DOMAIN sum.enum
  BY DEF Index, Variants
<1>4. \E n \in Nat : Index = 1..n
  BY <1>2, <1>3
<1>5. PICK n \in Nat : Index = 1..n
  BY <1>4
<1>6. IsFiniteSet(1..n)
  BY <1>5, FS_Interval
<1>7. Index \subseteq Nat \ {0} /\ IsFiniteSet(Index)
  BY <1>5, <1>6
<1>8. QED
  BY <1>2, <1>3, <1>4, <1>7

-----------------------------------------------------------------------------
\* Variants told apart by JSON types.
LEMMA PlainIsTyped ==
  ASSUME NEW k, NEW t \in Plain(k)
  PROVE  /\ t.json = JSONType(k)
         /\ k = "integer" => t = Token("Number", "whole")
         /\ k = "number" => t \in {Token("Number", "whole"), Token("Number", "fraction")}
  BY DEF Plain, JSONType, Token

LEMMA SentIsACase ==
  ASSUME Sent, spec.by = "type"
  PROVE  /\ sent \in Cases(token.json)
         /\ Variants[sent].kind \in {"integer", "number"} => token \in Plain(Variants[sent].kind)
<1>1. CASE Variants[sent].kind = "struct"
  <2>1. token.json = "Object"
    BY <1>1 DEF Sent, Was, Token
  <2>2. QED
    BY <1>1, <2>1 DEF Sent, Cases, CaseTypes, JSONType
<1>2. CASE Variants[sent].kind = "sum"
  <2>1. PICK k \in ToSet(Variants[sent].of) : token \in Plain(k)
    BY <1>2 DEF Sent, Was, KindsOf
  <2>2. token.json = JSONType(k)
    BY <2>1, PlainIsTyped
  <2>3. QED
    BY <1>2, <2>2 DEF Sent, Cases, CaseTypes
<1>3. CASE Variants[sent].kind \notin {"struct", "sum"}
  <2>1. token \in Plain(Variants[sent].kind)
    BY <1>3 DEF Sent, Was, KindsOf
  <2>2. token.json = JSONType(Variants[sent].kind)
    BY <2>1, PlainIsTyped
  <2>3. QED
    BY <1>3, <2>1, <2>2 DEF Sent, Cases, CaseTypes
<1>4. QED
  BY <1>1, <1>2, <1>3

LEMMA CasesDiffer ==
  ASSUME SumSound(sum), CanUseTypeDiscriminator, ~Repeated, NEW json, NEW v \in Cases(json), NEW w \in Cases(json), v # w
  PROVE  /\ ~sum.oneOf /\ json = "Number"
         /\ \/ Variants[v].kind = "integer" /\ Variants[w].kind = "number"
            \/ Variants[v].kind = "number" /\ Variants[w].kind = "integer"
<1>1. /\ v \in Index /\ w \in Index /\ json \in CaseTypes(v) \cap CaseTypes(w)
      /\ Variants[v].kind # "sum" /\ Variants[w].kind # "sum"
  BY DEF Cases, Repeated
<1>2. JSONType(Variants[v].kind) = json /\ JSONType(Variants[w].kind) = json
  BY <1>1 DEF CaseTypes
<1>3. \A x, y \in Index : /\ Variants[x].kind # "sum" /\ Variants[y].kind # "sum" /\ x < y
                          => GetType(Variants[x].kind) # GetType(Variants[y].kind)
  <2>1. TAKE x, y \in Index
  <2>2. HAVE Variants[x].kind # "sum" /\ Variants[y].kind # "sum" /\ x < y
  <2>3. x \in 1..(y - 1)
    BY <2>2, IndexIsFinite
  <2>4. GetType(Variants[x].kind) \in TypesUpTo(y - 1)
    BY <2>2, <2>3 DEF TypesUpTo
  <2>5. QED
    BY <2>2, <2>4 DEF CanUseTypeDiscriminator
<1>4. v < w \/ w < v
  BY <1>1, IndexIsFinite
<1>5. GetType(Variants[v].kind) # GetType(Variants[w].kind)
  BY <1>1, <1>3, <1>4
<1>6. ~sum.oneOf /\ (Variants[v].kind = "integer" \/ Variants[w].kind = "integer") /\ Variants[v].kind # Variants[w].kind
  BY <1>2, <1>5 DEF GetType
<1>7. json = "Number"
  BY <1>2, <1>6 DEF JSONType
<1>8. \A k : JSONType(k) = "Number" /\ k # "integer" => k = "number"
  BY NoneIsNoType DEF JSONType
<1>9. QED
  BY <1>2, <1>6, <1>7, <1>8

LEMMA TypeFound ==
  ASSUME SumSound(sum), SpecOk, Sent, spec.by = "type", ~Exempt
  PROVE  Cases(token.json) # {} /\ Right(CaseOf(token), FALSE)
<1>1. sent \in Cases(token.json)
  BY SentIsACase
<1>2. ~Repeated /\ ~(Len(sum.enum) > 1)
  BY DEF Exempt
<1>3. CASE Cases(token.json) = {sent}
  <2>1. IntegersOf(token.json) \in {{}, {sent}}
    BY <1>3 DEF IntegersOf
  <2>2. {sent} \ {} = {sent}
    OBVIOUS
  <2>3. CaseOf(token) = TheOne({sent})
    BY <1>3, <2>1, <2>2 DEF CaseOf
  <2>4. QED
    BY <1>1, <2>3, TheOnly DEF Right
<1>4. CASE Cases(token.json) # {sent}
  <2>1. PICK w \in Cases(token.json) : w # sent
    BY <1>1, <1>4
  <2>2. sent \in Index /\ w \in Index
    BY <1>1 DEF Cases
  <2>3. CanUseTypeDiscriminator
    <3>1. ~IsEnum
      <4>1. SUFFICES ASSUME IsEnum PROVE FALSE
        OBVIOUS
      <4>2. Len(sum.enum) \in Nat /\ Index = 1..Len(sum.enum)
        BY <4>1, IndexIsFinite
      <4>3. QED
        BY <1>2, <2>1, <2>2, <4>2
    <3>2. spec.by # "fields" /\ spec.by # "discriminator"
      OBVIOUS
    <3>3. spec # FieldsSpec
      BY <3>2 DEF FieldsSpec, NoSpec
    <3>4. QED
      BY <3>1, <3>2, <3>3 DEF SpecOk
  <2>4. /\ ~sum.oneOf /\ token.json = "Number"
        /\ \/ Variants[sent].kind = "integer" /\ Variants[w].kind = "number"
           \/ Variants[sent].kind = "number" /\ Variants[w].kind = "integer"
    BY <1>1, <1>2, <2>1, <2>3, CasesDiffer
  <2>5. PICK i, n \in {sent, w} : Variants[i].kind = "integer" /\ Variants[n].kind = "number"
    BY <2>4
  <2>6. \A v \in Cases(token.json) : v \in {i, n}
    <3>1. TAKE v \in Cases(token.json)
    <3>2. i \in Cases(token.json) /\ n \in Cases(token.json)
      BY <1>1, <2>5
    <3>3. v # i /\ v # n => Variants[v].kind = "number" /\ Variants[v].kind = "integer"
      BY <1>2, <2>3, <2>5, <3>2, CasesDiffer
    <3>4. QED
      BY <3>3
  <2>7. i # n /\ Cases(token.json) = {i, n}
    BY <1>1, <2>5, <2>6
  <2>8. IntegersOf(token.json) = {i}
    BY <2>5, <2>7 DEF IntegersOf
  <2>9. token \in {Token("Number", "whole"), Token("Number", "fraction")}
    <3>1. token \in Plain(Variants[sent].kind)
      BY <2>4, SentIsACase
    <3>2. QED
      BY <2>4, <3>1, PlainIsTyped
  <2>10. CASE token = Token("Number", "whole")
    <3>1. token.text = "whole" /\ token.json = "Number"
      BY <2>10 DEF Token
    <3>2. CaseOf(token) = TheOne({i})
      BY <2>8, <3>1 DEF CaseOf
    <3>3. CaseOf(token) = i
      BY <3>2, TheOnly
    <3>4. Fits(i)
      BY <2>5, <2>10 DEF Fits, Plain
    <3>5. QED
      BY <1>1, <2>4, <3>3, <3>4 DEF Right
  <2>11. CASE token = Token("Number", "fraction")
    <3>1. token.text = "fraction" /\ token.json = "Number"
      BY <2>11 DEF Token
    <3>2. {i, n} \ {i} = {n} /\ {i, n} # {i} /\ "fraction" # "whole"
      BY <2>7
    <3>3. CaseOf(token) = TheOne({n})
      BY <2>7, <2>8, <3>1, <3>2 DEF CaseOf
    <3>4. CaseOf(token) = n
      BY <3>3, TheOnly
    <3>5. sent = n
      <4>1. Variants[sent].kind = "integer" => token = Token("Number", "whole")
        BY SentIsACase, PlainIsTyped
      <4>2. Token("Number", "fraction") # Token("Number", "whole")
        BY DEF Token
      <4>3. QED
        BY <2>4, <2>5, <2>11, <4>1, <4>2
    <3>6. QED
      BY <1>1, <3>4, <3>5 DEF Right
  <2>12. QED
    BY <2>9, <2>10, <2>11
<1>5. QED
  BY <1>3, <1>4

-----------------------------------------------------------------------------
\* Variants told apart by a key, and listed values by one of their strings.
LEMMA NoKindIsObject ==
  ASSUME NEW k, k # "struct", NEW t \in Plain(k)
  PROVE  t.json # "Object"
<1>1. t.json = JSONType(k)
  BY PlainIsTyped
<1>2. QED
  BY <1>1, NoneIsNoType DEF JSONType

LEMMA KeyFound ==
  ASSUME SumSound(sum), Sent, spec.by = "discriminator", ~IsEnum, ~Exempt
  PROVE  /\ Kind \in DOMAIN object /\ object[Kind].json = "String"
         /\ {v \in Index : object[Kind].text \in KeysOf(v)} = {sent}
<1>1. ~IntegerKey(sent) /\ token.json = "Object" /\ ~KeyTaken
  BY DEF Exempt
<1>2. sent \in Index /\ Index = DOMAIN sum.variants /\ Variants = sum.variants
  BY IndexIsFinite DEF Sent
<1>3. Variants[sent].kind = "struct"
  <2>1. SUFFICES ASSUME Variants[sent].kind # "struct" PROVE FALSE
    OBVIOUS
  <2>2. PICK k \in IF Variants[sent].kind = "sum" THEN ToSet(Variants[sent].of) ELSE {Variants[sent].kind} : token \in Plain(k)
    BY <2>1 DEF Sent, Was, KindsOf
  <2>3. ToSet(Variants[sent].of) \cap {"struct", "sum"} = {}
    BY <1>2 DEF SumSound
  <2>4. k # "struct"
    BY <2>1, <2>2, <2>3
  <2>5. QED
    BY <1>1, <2>2, <2>4, NoKindIsObject
<1>4. PICK o \in ObjectsOf(sent) : Keyed(o)
  BY <1>3 DEF Sent, Was, KindsOf
<1>5. PICK x \in KeysOf(sent) : object = [f \in DOMAIN o \union {Kind} |-> IF f = Kind THEN KeyToken(sent, x) ELSE o[f]]
  BY <1>4 DEF Keyed
<1>6. Kind \in DOMAIN object /\ object[Kind] = KeyToken(sent, x)
  BY <1>5
<1>7. object[Kind].json = "String" /\ object[Kind].text = x
  BY <1>1, <1>6 DEF KeyToken, Token
<1>8. \A v \in Index : x \in KeysOf(v) => v = sent
  <2>1. TAKE v \in Index
  <2>2. HAVE x \in KeysOf(v)
  <2>3. CASE MappedTo(v) # {} /\ MappedTo(sent) # {}
    BY <2>2, <2>3 DEF KeysOf, MappedTo
  <2>4. CASE MappedTo(v) = {} /\ MappedTo(sent) = {}
    <3>1. GoName(v) = GoName(sent)
      BY <2>2, <2>4 DEF KeysOf
    <3>2. QED
      BY <1>2, <3>1 DEF SumSound
  <2>5. CASE MappedTo(v) = {} /\ MappedTo(sent) # {}
    <3>1. GoName(v) \in DOMAIN spec.mapping
      BY <2>2, <2>5 DEF KeysOf, MappedTo
    <3>2. QED
      BY <1>1, <2>5, <3>1 DEF KeyTaken
  <2>6. CASE MappedTo(v) # {} /\ MappedTo(sent) = {}
    <3>1. GoName(sent) \in DOMAIN spec.mapping
      BY <2>2, <2>6 DEF KeysOf, MappedTo
    <3>2. QED
      BY <1>1, <1>2, <2>6, <3>1 DEF KeyTaken
  <2>7. QED
    BY <2>3, <2>4, <2>5, <2>6
<1>9. QED
  BY <1>2, <1>6, <1>7, <1>8

LEMMA ListedIsTold ==
  ASSUME IsEnum, Sent, SumSound(sum), NEW f \in findEnumDiscriminator, spec = ToldBy(f)
  PROVE  /\ f \in DOMAIN object /\ Decides(f) /\ \A g : Decides(g) => g = f
         /\ \A g \in DOMAIN object : Match(g, object[g]) = IF g = f THEN sent ELSE 0
<1>1. /\ spec.by = "fields" /\ spec.unique = NoMembers /\ DOMAIN spec.values = {f}
      /\ spec.values[f] = [x \in {ObjectAt(i)[f].text : i \in Index} |-> TheOne({i \in Index : ObjectAt(i)[f].text = x})]
  BY DEF ToldBy, NoSpec
<1>2. sent \in Index /\ Index = DOMAIN sum.enum
  BY IndexIsFinite DEF Sent
<1>3. Variants[sent].kind = "struct"
  BY <1>2 DEF Variants, IsEnum, inferSchemaFromObject
<1>4. object = ObjectAt(sent)
  BY <1>1, <1>3 DEF Sent, Was, Keyed, ObjectsOf
<1>5. /\ \A i \in Index : StringIn(i, f)
      /\ \A i, j \in Index : i # j => ObjectAt(i)[f].text # ObjectAt(j)[f].text
  BY DEF findEnumDiscriminator
<1>6. f \in DOMAIN object /\ object[f].json = "String"
  BY <1>2, <1>4, <1>5 DEF StringIn
<1>7. {i \in Index : ObjectAt(i)[f].text = object[f].text} = {sent}
  BY <1>2, <1>4, <1>5
<1>8. object[f].text \in {ObjectAt(i)[f].text : i \in Index}
  BY <1>2, <1>4
<1>9. spec.values[f][object[f].text] = TheOne({sent})
  BY <1>1, <1>7, <1>8
<1>10. MatchValue(f, object[f]) = sent
  BY <1>1, <1>6, <1>8, <1>9, TheOnly DEF MatchValue
<1>11. DOMAIN spec.unique = {}
  BY <1>1 DEF NoMembers
<1>12. \A g \in DOMAIN object : Match(g, object[g]) = IF g = f THEN sent ELSE 0
  BY <1>1, <1>10, <1>11 DEF Match
<1>13. QED
  BY <1>1, <1>6, <1>12 DEF Decides

-----------------------------------------------------------------------------
\* Variants told apart by their properties.
LEMMA TokenOfType ==
  ASSUME NEW T, NEW t \in TokensOf(T), T.values # {} => T.json = "String"
  PROVE  /\ T.json # none => TakenBy(T, t.json)
         /\ t.json = "Array" => /\ T.json = "Array"
                                /\ t.elem # none => t.elem = T.elem
                                /\ t.elem = none => t = Token("Array", none)
         /\ T.values # {} => t.json = "Null" \/ (t.json = "String" /\ t.text \in T.values)
<1>1. \/ T.values # {} /\ t \in ListedTokens(T)
      \/ T.values = {} /\ t \in UnlistedTokens(T)
      \/ T.null /\ t = Token("Null", none)
  BY DEF TokensOf
<1>2. CASE T.null /\ t = Token("Null", none)
  <2>1. t.json = "Null"
    BY <1>2 DEF Token
  <2>2. TakenBy(T, t.json)
    BY <1>2, <2>1 DEF TakenBy
  <2>3. t.json # "Array"
    BY <2>1
  <2>4. QED
    BY <2>1, <2>2, <2>3
<1>3. CASE T.values # {} /\ t \in ListedTokens(T)
  <2>1. PICK x \in T.values : t = Token(T.json, x)
    BY <1>3 DEF ListedTokens
  <2>2. t.json = "String" /\ t.text = x /\ T.json = "String"
    BY <1>3, <2>1 DEF Token
  <2>3. QED
    BY <2>1, <2>2 DEF TakenBy
<1>4. CASE t \in UnlistedTokens(T) /\ T.values = {} /\ T.json = none
  BY <1>4, NoneIsNoType DEF Token, TakenBy, UnlistedTokens
<1>5. CASE t \in UnlistedTokens(T) /\ T.values = {} /\ T.json = "String"
  BY <1>5, NoneIsNoType DEF Token, TakenBy, UnlistedTokens
<1>6. CASE t \in UnlistedTokens(T) /\ T.values = {} /\ T.json = "Array"
  <2>1. t = Token("Array", none) \/ t = [Token("Array", none) EXCEPT !.elem = T.elem]
    BY <1>6, NoneIsNoType DEF UnlistedTokens
  <2>2. QED
    BY <1>6, <2>1 DEF Token, TakenBy, UnlistedTokens
<1>7. CASE t \in UnlistedTokens(T) /\ T.values = {} /\ T.json \notin {none, "String", "Array"}
  <2>1. t = Token(T.json, "x")
    BY <1>7 DEF UnlistedTokens
  <2>2. QED
    BY <1>7, <2>1 DEF Token, TakenBy, UnlistedTokens
<1>8. QED
  BY <1>1, <1>2, <1>3, <1>4, <1>5, <1>6, <1>7

\* Everything that is known of the object sent, property by property.
LEMMA ObjectIsTyped ==
  ASSUME SumSound(sum), Sent, ~IsEnum, spec = FieldsSpec, ~FieldsRefused, NEW f \in DOMAIN object
  PROVE  /\ sent \in Index /\ Has(sent, f) /\ object[f] \in TokensOf(TypeOf(sent, f))
         /\ \A v \in Index : Has(v, f) /\ TypeOf(v, f).values # {} => TypeOf(v, f).json = "String"
<1>1. sent \in Index /\ Index = DOMAIN sum.variants /\ Variants = sum.variants
  BY IndexIsFinite DEF Sent
<1>2. Variants[sent].kind = "struct"
  BY <1>1 DEF FieldsRefused, AllStructs
<1>3. spec.by = "fields"
  BY DEF FieldsSpec, NoSpec
<1>4. object \in ObjectsOf(sent)
  BY <1>2, <1>3 DEF Sent, Was, Keyed
<1>5. ObjectsOf(sent) = Complete(sent)
  BY DEF ObjectsOf, Complete, Chosen, Needed, ObjectsWith, TokensFor
<1>6. PICK S \in SUBSET DOMAIN Fields(sent) : object \in ObjectsWith(sent, S)
  BY <1>4, <1>5 DEF Complete, Chosen
<1>7. DOMAIN object = S
  BY <1>6 DEF ObjectsWith
<1>8. Has(sent, f) /\ object[f] \in TokensOf(TypeOf(sent, f))
  BY <1>4, <1>5, <1>7 DEF Complete, TokensFor, Has
<1>9. ASSUME NEW v \in Index, Has(v, f), TypeOf(v, f).values # {} PROVE TypeOf(v, f).json = "String"
  <2>1. Variants[v].kind = "struct"
    BY DEF FieldsRefused, AllStructs
  <2>2. Fields(v) = sum.variants[v].fields
    BY <1>1, <2>1 DEF Fields
  <2>3. f \in DOMAIN sum.variants[v].fields /\ TypeOf(v, f) = sum.variants[v].fields[f].type
    BY <1>9, <2>2 DEF Has, TypeOf
  <2>4. QED
    BY <1>1, <1>9, <2>3 DEF SumSound
<1>10. QED
  BY <1>1, <1>8, <1>9

\* A variant that has the property as well, and of which it is its own, is not meant.
LEMMA OthersDiffer ==
  ASSUME SumSound(sum), Sent, ~IsEnum, spec = FieldsSpec, ~FieldsRefused, ~Exempt,
         NEW f \in DOMAIN object, f \notin ByValue, NEW v \in Index, v # sent, f \in Unique(v)
  PROVE  /\ Shared(f) /\ object[f].json # "Null"
         /\ \/ TypeOf(v, f).json # TypeOf(sent, f).json /\ none \notin {TypeOf(v, f).json, TypeOf(sent, f).json}
            \/ ByElement(f) /\ TypeOf(v, f).elem # TypeOf(sent, f).elem
<1>1. spec.by = "fields"
  BY DEF FieldsSpec, NoSpec
<1>2. ~Blurred /\ ~NullTwice
  BY <1>1 DEF Exempt
<1>3. sent \in Index /\ Has(sent, f) /\ object[f] \in TokensOf(TypeOf(sent, f))
  BY ObjectIsTyped
<1>4. Has(v, f) /\ Signature(v, f) \notin Signatures(sent)
  BY <1>3 DEF Unique, Has
<1>5. TypeOf(v, f).id # TypeOf(sent, f).id
  BY <1>3, <1>4 DEF Signatures, Signature, Has
<1>6. Shared(f)
  BY <1>3, <1>4 DEF Shared
<1>7. object[f].json # "Null"
  BY <1>2, <1>6 DEF NullTwice
<1>8. f \in Names
  BY <1>3 DEF Names, Has
<1>9. ~Alike(v, sent, f)
  BY <1>2, <1>3, <1>4, <1>8 DEF Blurred
<1>10. \/ TypeOf(v, f).json # TypeOf(sent, f).json /\ none \notin {TypeOf(v, f).json, TypeOf(sent, f).json}
       \/ ByElement(f) /\ TypeOf(v, f).elem # TypeOf(sent, f).elem
  BY <1>5, <1>9 DEF Alike
<1>11. QED
  BY <1>6, <1>7, <1>10

LEMMA FirstIsIt ==
  ASSUME NEW x \in Nat
  PROVE  First({}) = 0 /\ First({x}) = x
<1>1. First({}) = 0
  BY DEF First
<1>2. \E v \in {x} : \A w \in {x} : v <= w
  OBVIOUS
<1>3. First({x}) \in {x}
  BY <1>2 DEF First
<1>4. QED
  BY <1>1, <1>3

LEMMA FieldsOfSpec ==
  ASSUME spec = FieldsSpec
  PROVE  /\ spec.by = "fields" /\ spec.default = Default
         /\ DOMAIN spec.unique = DOMAIN UniqueFields \ ByValue /\ DOMAIN spec.values = ByValue
         /\ \A f \in DOMAIN UniqueFields \ ByValue : spec.unique[f] = UniqueFields[f]
         /\ \A f \in ByValue : spec.values[f] = ValuesFor(f)
         /\ \A f \in DOMAIN UniqueFields : UniqueFields[f] = {v \in Index : f \in Unique(v)}
         /\ \A f : f \in DOMAIN UniqueFields <=> \E v \in Index : f \in Unique(v)
<1>1. spec = [NoSpec EXCEPT !.by = "fields", !.unique = OwnFields, !.values = ListedFields, !.default = Default]
  BY DEF FieldsSpec, OwnFields, ListedFields, ValuesFor, ListedFor, TellsBy, Default
<1>2. spec.by = "fields" /\ spec.unique = OwnFields /\ spec.values = ListedFields /\ spec.default = Default
  BY <1>1 DEF NoSpec
<1>3. /\ \A f \in DOMAIN UniqueFields : UniqueFields[f] = {v \in Index : f \in Unique(v)}
      /\ \A f : f \in DOMAIN UniqueFields <=> \E v \in Index : f \in Unique(v)
  BY DEF UniqueFields
<1>4. /\ DOMAIN spec.unique = DOMAIN UniqueFields \ ByValue
      /\ \A f \in DOMAIN UniqueFields \ ByValue : spec.unique[f] = UniqueFields[f]
  BY <1>2 DEF OwnFields
<1>5. DOMAIN spec.values = ByValue /\ \A f \in ByValue : spec.values[f] = ValuesFor(f)
  BY <1>2 DEF ListedFields
<1>6. QED
  BY <1>2, <1>3, <1>4, <1>5

\* A set of variants that only the one sent may be in speaks for it, or for none.
LEMMA OnlySentSpeaks ==
  ASSUME sent \in Nat, NEW S, \A v \in S : v = sent
  PROVE  First(S) \in {0, sent} /\ (sent \in S => First(S) = sent)
<1>1. S = {} \/ S = {sent}
  OBVIOUS
<1>2. QED
  BY <1>1, FirstIsIt

LEMMA OwnFieldSpeaks ==
  ASSUME SumSound(sum), Sent, ~IsEnum, spec = FieldsSpec, ~FieldsRefused, ~Exempt,
         NEW f \in DOMAIN object, f \in DOMAIN UniqueFields \ ByValue
  PROVE  /\ Match(f, object[f]) \in {0, sent}
         /\ Tells(f) => Match(f, object[f]) = sent
<1> DEFINE vs == UniqueFields[f]
           t == object[f]
           T == TypeOf(sent, f)
<1>1. sent \in Index /\ sent \in Nat /\ Has(sent, f) /\ t \in TokensOf(T)
  BY ObjectIsTyped, IndexIsFinite
<1>2. T.values # {} => T.json = "String"
  BY <1>1, ObjectIsTyped
<1>3. /\ T.json # none => TakenBy(T, t.json)
      /\ t.json = "Array" => /\ T.json = "Array"
                             /\ t.elem # none => t.elem = T.elem
                             /\ t.elem = none => t = Token("Array", none)
  BY <1>1, <1>2, TokenOfType
<1>4. vs = {v \in Index : f \in Unique(v)} /\ vs # {} /\ spec.unique[f] = vs
      /\ f \in DOMAIN spec.unique /\ f \notin DOMAIN spec.values
  BY FieldsOfSpec
<1>5. Match(f, t) = MatchUnique(f, t)
  BY <1>4 DEF Match
<1>6. Tells(f) => sent \in vs
  BY <1>1, <1>4 DEF Tells
<1>7. \A v \in vs : v # sent =>
         /\ Shared(f) /\ t.json # "Null"
         /\ \/ TypeOf(v, f).json # T.json /\ none \notin {TypeOf(v, f).json, T.json}
            \/ ByElement(f) /\ TypeOf(v, f).elem # T.elem
  BY <1>4, OthersDiffer
<1>8. \A v \in vs : v # sent /\ ~ByElement(f) => TypeOf(v, f).json # none /\ ~TakenBy(TypeOf(v, f), t.json) /\ T.json # none
  BY <1>3, <1>7 DEF TakenBy
<1>9. CASE Cardinality(vs) = 1
  <2> DEFINE S == {v \in vs : TypeOf(v, f).json = none \/ TakenBy(TypeOf(v, f), t.json)}
  <2>1. MatchUnique(f, t) = First(S)
    BY <1>4, <1>9 DEF MatchUnique
  <2>2. ~ByElement(f)
    BY <1>9 DEF ByElement
  <2>3. \A v \in S : v = sent
    BY <1>8, <2>2
  <2>4. Tells(f) => sent \in S
    BY <1>3, <1>6
  <2>5. QED
    BY <1>1, <1>5, <2>1, <2>3, <2>4, OnlySentSpeaks
<1>10. CASE Cardinality(vs) # 1
  <2>1. \E v \in vs : v # sent
    <3>1. vs # {sent}
      BY <1>10, FS_Singleton
    <3>2. QED
      BY <1>4, <3>1
  <2>2. Shared(f) /\ t.json # "Null"
    BY <1>7, <2>1
  <2>3. CASE ByElement(f) /\ t.json # "Array"
    <3>1. MatchUnique(f, t) = 0
      BY <1>4, <1>10, <2>3 DEF MatchUnique
    <3>2. ~Tells(f)
      <4>1. SUFFICES ASSUME Tells(f) PROVE FALSE
        OBVIOUS
      <4>2. T.json = "Array"
        BY <1>6, <2>3, <4>1 DEF ByElement
      <4>3. QED
        BY <1>3, <2>2, <2>3, <4>2, NoneIsNoType DEF TakenBy
    <3>3. QED
      BY <1>5, <3>1, <3>2
  <2>4. CASE ByElement(f) /\ t.json = "Array"
    <3>1. t.elem # none
      <4>1. SUFFICES ASSUME t.elem = none PROVE FALSE
        OBVIOUS
      <4>2. EmptyArray
        BY <1>3, <2>2, <2>4, <4>1 DEF EmptyArray
      <4>3. spec.by = "fields"
        BY FieldsOfSpec
      <4>4. QED
        BY <4>2, <4>3 DEF Exempt
    <3> DEFINE S == {v \in vs : TypeOf(v, f).elem = t.elem}
    <3>2. MatchUnique(f, t) = First(S)
      BY <1>4, <1>10, <2>4, <3>1 DEF MatchUnique
    <3>3. \A v \in vs : TypeOf(v, f).json = "Array"
      BY <2>4 DEF ByElement
    <3>4. T.json = "Array" /\ t.elem = T.elem
      BY <1>3, <2>4, <3>1
    <3>5. \A v \in S : v = sent
      BY <1>7, <3>3, <3>4
    <3>6. Tells(f) => sent \in S
      BY <1>6, <3>4
    <3>7. QED
      BY <1>1, <1>5, <3>2, <3>5, <3>6, OnlySentSpeaks
  <2>5. CASE ~ByElement(f)
    <3> DEFINE S == {v \in vs : TypeOf(v, f).json # none /\ TakenBy(TypeOf(v, f), t.json)}
    <3>1. MatchUnique(f, t) = First(S)
      BY <1>4, <1>10, <2>5 DEF MatchUnique
    <3>2. \A v \in S : v = sent
      BY <1>8, <2>5
    <3>3. T.json # none
      BY <1>8, <2>1, <2>5
    <3>4. Tells(f) => sent \in S
      BY <1>3, <1>6, <3>3
    <3>5. QED
      BY <1>1, <1>5, <3>1, <3>2, <3>4, OnlySentSpeaks
  <2>6. QED
    BY <2>3, <2>4, <2>5
<1>11. QED
  BY <1>9, <1>10

LEMMA ListedFieldSpeaks ==
  ASSUME SumSound(sum), Sent, ~IsEnum, spec = FieldsSpec, ~FieldsRefused, ~Exempt,
         NEW f \in DOMAIN object, f \in ByValue
  PROVE  /\ Match(f, object[f]) \in {0, sent}
         /\ Tells(f) => Match(f, object[f]) = sent
<1> DEFINE vs == UniqueFields[f]
           t == object[f]
           T == TypeOf(sent, f)
<1>1. sent \in Index /\ Has(sent, f) /\ t \in TokensOf(T)
  BY ObjectIsTyped
<1>2. T.values # {} => T.json = "String"
  BY <1>1, ObjectIsTyped
<1>3. T.values # {} => t.json = "Null" \/ (t.json = "String" /\ t.text \in T.values)
  BY <1>1, <1>2, TokenOfType
<1>4. f \in DOMAIN UniqueFields /\ Contested(f) /\ Enums(f, vs) /\ Disjoint(f, vs)
  BY DEF ByValue
<1>5. /\ vs = {v \in Index : f \in Unique(v)} /\ spec.by = "fields"
      /\ spec.values[f] = ValuesFor(f) /\ f \in DOMAIN spec.values /\ f \notin DOMAIN spec.unique
  BY <1>4, FieldsOfSpec
<1>6. Match(f, t) = MatchValue(f, t)
  BY <1>5 DEF Match
<1>7. CASE f \notin Unique(sent)
  <2>1. ~Borrowed
    BY <1>5 DEF Exempt
  <2>2. MatchValue(f, t) = 0
    BY <1>7, <2>1 DEF Borrowed
  <2>3. QED
    BY <1>6, <1>7, <2>2 DEF Tells
<1>8. CASE f \in Unique(sent)
  <2>1. sent \in vs /\ T.values # {}
    BY <1>1, <1>4, <1>5, <1>8 DEF Enums
  <2>2. Cardinality(vs) # 1
    BY <1>4 DEF Contested
  <2>3. PICK v \in vs : v # sent
    <3>1. vs # {sent}
      BY <2>2, FS_Singleton
    <3>2. QED
      BY <2>1, <3>1
  <2>4. Shared(f)
    BY <1>1, <1>5, <2>3 DEF Shared, Has, Unique
  <2>5. CASE t.json = "Null"
    <3>1. MatchValue(f, t) = 0
      BY <2>5 DEF MatchValue
    <3>2. ~Tells(f)
      BY <2>4, <2>5 DEF Tells
    <3>3. QED
      BY <1>6, <3>1, <3>2
  <2>6. CASE t.json = "String" /\ t.text \in T.values
    <3>1. t.text \in ListedFor(f)
      BY <2>1, <2>6 DEF ListedFor
    <3>2. TellsBy(f, t.text) = {sent}
      <4>1. sent \in TellsBy(f, t.text)
        BY <2>1, <2>6 DEF TellsBy
      <4>2. \A w \in TellsBy(f, t.text) : w = sent
        BY <1>4, <2>1, <2>6 DEF TellsBy, Disjoint
      <4>3. QED
        BY <4>1, <4>2
    <3>3. DOMAIN spec.values[f] = ListedFor(f) /\ spec.values[f][t.text] = TheOne({sent})
      BY <1>5, <3>1, <3>2 DEF ValuesFor
    <3>4. MatchValue(f, t) = sent
      BY <2>6, <3>1, <3>3, TheOnly DEF MatchValue
    <3>5. QED
      BY <1>6, <3>4
  <2>7. QED
    BY <1>3, <2>1, <2>5, <2>6
<1>9. QED
  BY <1>7, <1>8

LEMMA MemberSpeaks ==
  ASSUME SumSound(sum), Sent, ~IsEnum, spec = FieldsSpec, ~FieldsRefused, ~Exempt, NEW f \in DOMAIN object
  PROVE  /\ Match(f, object[f]) \in {0, sent}
         /\ Tells(f) => Match(f, object[f]) = sent
<1>1. CASE f \in ByValue
  BY <1>1, ListedFieldSpeaks
<1>2. CASE f \in DOMAIN UniqueFields \ ByValue
  BY <1>2, OwnFieldSpeaks
<1>3. CASE f \notin ByValue \cup DOMAIN UniqueFields
  <2>1. Match(f, object[f]) = 0
    BY <1>3, FieldsOfSpec DEF Match
  <2>2. ~Tells(f)
    BY <1>3, FieldsOfSpec DEF Tells, Sent
  <2>3. QED
    BY <2>1, <2>2
<1>4. QED
  BY <1>1, <1>2, <1>3

\* An object without such a property is of the only variant that has none.
LEMMA SilentIsDefault ==
  ASSUME SumSound(sum), Sent, ~IsEnum, spec = FieldsSpec, ~FieldsRefused, ~Exempt, \A f \in DOMAIN object : ~Tells(f)
  PROVE  spec.default = sent /\ sent # 0
<1>1. Unique(sent) = {} /\ sent \in Index
  BY FieldsOfSpec DEF Exempt, Undecided, Sent
<1>2. sent \in NoUniqueFields
  BY <1>1 DEF NoUniqueFields
<1>3. IsFiniteSet(NoUniqueFields)
  <2>1. IsFiniteSet(Index)
    BY IndexIsFinite
  <2>2. QED
    BY <2>1, FS_Subset DEF NoUniqueFields
<1>4. Cardinality(NoUniqueFields) <= 1
  <2>1. Cardinality(NoUniqueFields) \in Nat
    BY <1>3, FS_CardinalityType
  <2>2. QED
    BY <2>1 DEF FieldsRefused
<1>5. NoUniqueFields = {sent}
  <2>1. /\ IsFiniteSet(NoUniqueFields \ {sent})
        /\ Cardinality(NoUniqueFields \ {sent}) = Cardinality(NoUniqueFields) - 1
    BY <1>2, <1>3, FS_RemoveElement
  <2>2. Cardinality(NoUniqueFields \ {sent}) = 0
    BY <1>3, <1>4, <2>1, FS_CardinalityType
  <2>3. NoUniqueFields \ {sent} = {}
    BY <2>1, <2>2, FS_EmptySet
  <2>4. QED
    BY <1>2, <2>3
<1>6. Default = TheOne({sent})
  BY <1>5 DEF Default
<1>7. QED
  BY <1>1, <1>6, TheOnly, FieldsOfSpec, IndexIsFinite

-----------------------------------------------------------------------------
\* Lowering.
LEMMA LoweringStep ==
  ASSUME SInv, OneOf \/ AnyOf \/ ObjectEnum
  PROVE  SInv'
<1>1. stage = "lower" /\ ~found /\ UNCHANGED <<sum, sent, token, members, object, found, type, failed>> /\ SumSound(sum)
  BY DEF SInv, OneOf, AnyOf, ObjectEnum, Lowered
<1>2. (stage' = "done" /\ refused') \/ (stage' = "receive" /\ SpecOk')
  <2>1. CASE OneOf
    <3>1. ~IsEnum
      BY <1>1, <2>1 DEF OneOf, SumSound, IsEnum
    <3>2. CASE Lowered(FALSE, ByTypeSpec) /\ CanUseTypeDiscriminator
      <4>1. stage' = "receive" /\ spec' = ByTypeSpec
        BY <3>2 DEF Lowered
      <4>2. QED
        BY <1>1, <3>2, <4>1, TypesStay DEF SpecOk, ByTypeSpec, NoSpec
    <3>3. CASE Lowered(FieldsRefused, FieldsSpec)
      <4>1. refused' = FieldsRefused
        BY <3>3 DEF Lowered
      <4>2. CASE FieldsRefused
        BY <3>3, <4>1, <4>2 DEF Lowered
      <4>3. CASE ~FieldsRefused
        <5>1. stage' = "receive" /\ spec' = FieldsSpec
          BY <3>3, <4>3 DEF Lowered
        <5>2. (spec = FieldsSpec /\ ~FieldsRefused /\ ~IsEnum)'
          BY <1>1, <3>1, <4>3, <5>1, UniqueStay, VariantsStay
        <5>3. QED
          BY <5>1, <5>2 DEF SpecOk
      <4>4. QED
        BY <4>2, <4>3
    <3>4. ASSUME NEW r, NEW m, Lowered(r, Mapped(m)) PROVE (stage' = "done" /\ refused') \/ (stage' = "receive" /\ SpecOk')
      <4>1. CASE r
        BY <3>4, <4>1 DEF Lowered
      <4>2. CASE ~r
        <5>1. stage' = "receive" /\ spec' = Mapped(m)
          BY <3>4, <4>2 DEF Lowered
        <5>2. spec'.by = "discriminator"
          BY <5>1 DEF Mapped, NoSpec
        <5>3. QED
          BY <1>1, <3>1, <5>1, <5>2, VariantsStay DEF SpecOk
      <4>3. QED
        BY <4>1, <4>2
    <3>5. QED
      BY <2>1, <3>2, <3>3, <3>4 DEF OneOf
  <2>2. CASE AnyOf
    <3>1. CASE Lowered(FALSE, ByTypeSpec) /\ CanUseTypeDiscriminator
      <4>1. stage' = "receive" /\ spec' = ByTypeSpec
        BY <3>1 DEF Lowered
      <4>2. QED
        BY <1>1, <3>1, <4>1, TypesStay DEF SpecOk, ByTypeSpec, NoSpec
    <3>2. CASE Lowered(~Explicit \/ ExplicitRefused, Mapped(sum.mapping))
      <4>1. CASE ~Explicit \/ ExplicitRefused
        BY <3>2, <4>1 DEF Lowered
      <4>2. CASE ~(~Explicit \/ ExplicitRefused)
        <5>1. stage' = "receive" /\ spec' = Mapped(sum.mapping)
          BY <3>2, <4>2 DEF Lowered
        <5>2. spec'.by = "discriminator"
          BY <5>1 DEF Mapped, NoSpec
        <5>3. QED
          BY <1>1, <2>2, <5>1, <5>2, VariantsStay DEF SpecOk, AnyOf
      <4>3. QED
        BY <4>1, <4>2
    <3>3. QED
      BY <2>2, <3>1, <3>2 DEF AnyOf
  <2>3. CASE ObjectEnum
    <3>1. IsEnum
      BY <2>3 DEF ObjectEnum
    <3>2. CASE Lowered(TRUE, NoSpec)
      BY <3>2 DEF Lowered
    <3>3. CASE Lowered(FALSE, ByTypeSpec)
      <4>1. stage' = "receive" /\ spec' = ByTypeSpec
        BY <3>3 DEF Lowered
      <4>2. QED
        BY <1>1, <3>1, <4>1, VariantsStay DEF SpecOk, ByTypeSpec, NoSpec
    <3>4. ASSUME NEW f \in findEnumDiscriminator, Lowered(SameName(f), ToldBy(f))
          PROVE (stage' = "done" /\ refused') \/ (stage' = "receive" /\ SpecOk')
      <4>1. CASE SameName(f)
        BY <3>4, <4>1 DEF Lowered
      <4>2. CASE ~SameName(f)
        <5>1. stage' = "receive" /\ spec' = ToldBy(f)
          BY <3>4, <4>2 DEF Lowered
        <5>2. f \in findEnumDiscriminator' /\ ToldBy(f)' = ToldBy(f) /\ IsEnum'
          BY <1>1, <3>1, EnumsStay, VariantsStay
        <5>3. \E g \in findEnumDiscriminator' : spec' = ToldBy(g)'
          BY <5>1, <5>2
        <5>4. QED
          BY <5>1, <5>2, <5>3 DEF SpecOk
      <4>3. QED
        BY <4>1, <4>2
    <3>5. QED
      BY <2>3, <3>2, <3>3, <3>4 DEF ObjectEnum
  <2>4. QED
    BY <2>1, <2>2, <2>3
<1>3. SumSound(sum)'
  BY <1>1
<1>4. QED
  BY <1>1, <1>2, <1>3 DEF SInv

Puts(v, o) ==
  IF spec.by # "discriminator" THEN object' = o
  ELSE \E x \in KeysOf(v) :
         object' = [f \in DOMAIN o \union {Kind} |-> IF f = Kind THEN KeyToken(v, x) ELSE o[f]]

LEMMA ReceiveStep ==
  ASSUME SInv, Receive
  PROVE  SInv'
<1>1. /\ stage = "receive" /\ stage' = "read" /\ UNCHANGED <<sum, spec, refused, found, type, failed>> /\ members' = object'
      /\ SumSound(sum) /\ ~found /\ SpecOk
  BY DEF SInv, Receive
<1>2. SpecOk'
  BY <1>1, SpecStays
<1>3. PICK v \in Index :
        /\ sent' = v
        /\ IF Variants[v].kind = "struct"
           THEN token' = Token("Object", none) /\ \E o \in ObjectsOf(v) : Puts(v, o)
           ELSE object' = NoMembers /\ \E k \in KindsOf(v) : token' \in Plain(k)
  BY DEF Receive, Puts, KindsOf
<1>4. Sent'
  <2>1. v = sent' /\ v \in Index'
    BY <1>1, <1>3, VariantsStay
  <2>2. \A o : Puts(v, o) => Keyed(o)'
    BY <1>1, <2>1, WrittenStay DEF Keyed, Puts
  <2>3. Variants' = Variants /\ ObjectsOf(v)' = ObjectsOf(v)
    BY <1>1, VariantsStay, WrittenStay
  <2>4. ASSUME Variants[v].kind = "struct" PROVE Was(v)'
    <3>1. PICK o \in ObjectsOf(v) : Puts(v, o)
      BY <1>3, <2>4
    <3>2. Keyed(o)' /\ o \in ObjectsOf(v)'
      BY <2>2, <2>3, <3>1
    <3>3. token' = Token("Object", none)
      BY <1>3, <2>4
    <3>4. QED
      BY <2>3, <2>4, <3>2, <3>3 DEF Was
  <2>5. ASSUME Variants[v].kind # "struct" PROVE Was(v)'
    <3>1. PICK k \in KindsOf(v) : token' \in Plain(k)
      BY <1>3, <2>5
    <3>2. KindsOf(v)' = KindsOf(v)
      BY <2>3 DEF KindsOf
    <3>3. object' = NoMembers
      BY <1>3, <2>5
    <3>4. \E l \in KindsOf(v)' : token' \in Plain(l)
      BY <3>1, <3>2
    <3>5. QED
      BY <2>3, <2>5, <3>3, <3>4 DEF Was
  <2>6. Was(v)'
    BY <2>4, <2>5
  <2>7. QED
    BY <2>1, <2>6 DEF Sent
<1>5. SumSound(sum)'
  BY <1>1
<1>6. QED
  BY <1>1, <1>2, <1>4, <1>5 DEF SInv

-----------------------------------------------------------------------------
\* Decode.
LEMMA FinishStep ==
  ASSUME SInv, stage = "read", NEW t, NEW err, Finish(t, err), Right(t, err)
  PROVE  SInv'
<1>1. UNCHANGED <<sum, spec, sent, token, object, found>> /\ stage' = "done" /\ type' = t /\ failed' = err
  BY DEF Finish
<1>2. Right(t, err)'
  BY <1>1, ReadingStays
<1>3. Right(type, failed)'
  BY <1>1, <1>2
<1>4. SumSound(sum)'
  BY <1>1 DEF SInv
<1>5. QED
  BY <1>1, <1>3, <1>4 DEF SInv

\* A member is taken off, and what it says is noted.
LEMMA MemberTaken ==
  ASSUME SInv, stage = "read", ~Exempt, Progress, NEW f \in DOMAIN members, NEW said,
         UNCHANGED <<sum, stage, spec, refused, sent, token, object, failed>>,
         members' = Without(f), found' = (found \/ said), found' => type' = sent,
         Decides(f) => said, spec.by = "discriminator" => (said => f = Kind), said \in BOOLEAN
  PROVE  SInv'
<1>1. SumSound(sum) /\ SpecOk /\ Sent
  BY DEF SInv
<1>2. SumSound(sum)' /\ SpecOk' /\ Sent'
  BY <1>1, SpecStays, SentStays
<1>3. Exempt' = Exempt /\ \A g : Decides(g)' = Decides(g)
  BY ReadingStays
<1>4. DOMAIN members' = DOMAIN members \ {f} /\ \A g \in DOMAIN members \ {f} : members'[g] = members[g]
  BY DEF Without
<1>5. DOMAIN members' \subseteq DOMAIN object' /\ \A g \in DOMAIN members' : members'[g] = object'[g]
  BY <1>4 DEF Progress
<1>6. \A g \in DOMAIN object \ DOMAIN members' : Decides(g) => found'
  BY <1>4 DEF Progress
<1>7. \A g \in DOMAIN object' \ DOMAIN members' : Decides(g)' => found'
  BY <1>3, <1>6
<1>8. spec.by = "discriminator" /\ Kind \in DOMAIN members' => ~found'
  BY <1>4 DEF Progress
<1>9. Progress'
  BY <1>5, <1>7, <1>8 DEF Progress
<1>10. QED
  BY <1>2, <1>9 DEF SInv

LEMMA ExemptStays ==
  ASSUME SInv, stage = "read", Exempt, UNCHANGED <<sum, stage, spec, refused, sent, token, object, failed>>
  PROVE  SInv'
<1>1. SumSound(sum)' /\ SpecOk' /\ Sent'
  BY SpecStays, SentStays DEF SInv
<1>2. Exempt'
  BY ReadingStays
<1>3. QED
  BY <1>1, <1>2 DEF SInv

\* Nothing is read yet.
LEMMA ReadingBegins ==
  ASSUME members = object, ~found
  PROVE  Progress
  BY DEF Progress

LEMMA TypeStep ==
  ASSUME SInv, DecodeByType
  PROVE  SInv'
<1>1. stage = "read" /\ spec.by = "type" /\ SumSound(sum) /\ SpecOk /\ Sent
  BY DEF SInv, DecodeByType
<1>2. Nulls => Exempt
  BY DEF Exempt
<1>3. \A t, e : Exempt => Right(t, e)
  BY DEF Right
<1>4. CASE Cases(token.json) = {}
  <2>1. Right(0, TRUE)
    BY <1>1, <1>3, <1>4, TypeFound
  <2>2. Finish(0, TRUE)
    BY <1>4 DEF DecodeByType
  <2>3. QED
    BY <1>1, <2>1, <2>2, FinishStep
<1>5. CASE Cases(token.json) # {}
  <2>1. Right(CaseOf(token), Nulls)
    <3>1. CASE Exempt
      BY <1>3, <3>1
    <3>2. CASE ~Exempt
      <4>1. Right(CaseOf(token), FALSE)
        BY <1>1, <3>2, TypeFound
      <4>2. Nulls = FALSE
        BY <1>2, <3>2 DEF Nulls
      <4>3. QED
        BY <4>1, <4>2
    <3>3. QED
      BY <3>1, <3>2
  <2>2. Finish(CaseOf(token), Nulls)
    BY <1>5 DEF DecodeByType
  <2>3. QED
    BY <1>1, <2>1, <2>2, FinishStep
<1>6. QED
  BY <1>4, <1>5

LEMMA KeyStep ==
  ASSUME SInv, ReadKey
  PROVE  SInv'
<1>1. /\ stage = "read" /\ spec.by = "discriminator" /\ SumSound(sum) /\ SpecOk /\ Sent
      /\ Exempt \/ Progress
  BY ReadingBegins DEF SInv, ReadKey
<1>2. ~IsEnum
  <2>1. spec.by # "type" /\ spec.by # "fields"
    BY <1>1
  <2>2. spec # ByTypeSpec /\ spec # FieldsSpec /\ \A f : spec # ToldBy(f)
    BY <2>1 DEF ByTypeSpec, FieldsSpec, ToldBy, NoSpec
  <2>3. QED
    BY <1>1, <2>2 DEF SpecOk
<1>3. PICK f \in DOMAIN members :
        IF f = Kind /\ ~found /\ (members[f].json # "String" \/ {v \in Index : members[f].text \in KeysOf(v)} = {})
        THEN Finish(0, TRUE)
        ELSE /\ members' = Without(f)
             /\ found' = (found \/ f = Kind)
             /\ type' = IF f = Kind /\ ~found THEN TheOne({v \in Index : members[f].text \in KeysOf(v)}) ELSE type
             /\ UNCHANGED <<sum, stage, spec, refused, sent, token, object, failed>>
  BY DEF ReadKey
<1>4. ~Exempt => /\ object[Kind].json = "String"
                 /\ {v \in Index : object[Kind].text \in KeysOf(v)} = {sent}
  BY <1>1, <1>2, KeyFound
<1>5. ~Exempt => members[f] = object[f] /\ (found => type = sent)
  BY <1>1 DEF Progress
<1>6. CASE f = Kind /\ ~found /\ (members[f].json # "String" \/ {v \in Index : members[f].text \in KeysOf(v)} = {})
  <2>1. Exempt
    BY <1>4, <1>5, <1>6
  <2>2. Right(0, TRUE) /\ Finish(0, TRUE)
    BY <1>3, <1>6, <2>1 DEF Right
  <2>3. QED
    BY <1>1, <2>2, FinishStep
<1>7. CASE ~(f = Kind /\ ~found /\ (members[f].json # "String" \/ {v \in Index : members[f].text \in KeysOf(v)} = {}))
  <2>1. /\ members' = Without(f) /\ found' = (found \/ f = Kind)
        /\ type' = IF f = Kind /\ ~found THEN TheOne({v \in Index : members[f].text \in KeysOf(v)}) ELSE type
        /\ UNCHANGED <<sum, stage, spec, refused, sent, token, object, failed>>
    BY <1>3, <1>7
  <2>2. ~Exempt => (found' => type' = sent)
    BY <1>4, <1>5, <2>1, TheOnly
  <2>3. CASE Exempt
    BY <1>1, <2>1, <2>3, ExemptStays
  <2>4. CASE ~Exempt
    <3>1. Decides(f) => f = Kind
      BY <1>1 DEF Decides
    <3>2. (f = Kind) \in BOOLEAN
      OBVIOUS
    <3>3. QED
      BY <1>1, <2>1, <2>2, <2>4, <3>1, <3>2, MemberTaken
  <2>5. QED
    BY <2>3, <2>4
<1>8. QED
  BY <1>6, <1>7

LEMMA MemberStep ==
  ASSUME SInv, ReadMember
  PROVE  SInv'
<1>1. /\ stage = "read" /\ spec.by = "fields" /\ SumSound(sum) /\ SpecOk /\ Sent
      /\ Exempt \/ Progress
  BY ReadingBegins DEF SInv, ReadMember
<1>2. PICK f \in DOMAIN members :
        IF Match(f, members[f]) # 0 /\ found /\ type # Match(f, members[f]) THEN Finish(0, TRUE)
        ELSE /\ members' = Without(f)
             /\ found' = (found \/ Match(f, members[f]) # 0)
             /\ type' = IF Match(f, members[f]) # 0 THEN Match(f, members[f]) ELSE type
             /\ UNCHANGED <<sum, stage, spec, refused, sent, token, object, failed>>
  BY DEF ReadMember
<1> DEFINE v == Match(f, members[f])
<1>3. ~Exempt => f \in DOMAIN object /\ members[f] = object[f] /\ (found => type = sent)
  BY <1>1 DEF Progress
<1>4. ~Exempt => v \in {0, sent} /\ (Decides(f) => v = sent) /\ sent # 0
  <2>1. SUFFICES ASSUME ~Exempt PROVE v \in {0, sent} /\ (Decides(f) => v = sent) /\ sent # 0
    OBVIOUS
  <2>2. sent # 0
    BY <1>1, IndexIsFinite DEF Sent
  <2>3. v = Match(f, object[f])
    BY <1>3, <2>1
  <2>4. CASE IsEnum
    <3>1. PICK g \in findEnumDiscriminator : spec = ToldBy(g)
      <4>1. spec # ByTypeSpec
        BY <1>1 DEF ByTypeSpec, NoSpec
      <4>2. QED
        BY <1>1, <2>4, <4>1 DEF SpecOk
    <3>2. /\ \A h : Decides(h) => h = g
          /\ \A h \in DOMAIN object : Match(h, object[h]) = IF h = g THEN sent ELSE 0
      BY <1>1, <2>4, <3>1, ListedIsTold
    <3>3. QED
      BY <1>3, <2>1, <2>2, <2>3, <3>2
  <2>5. CASE ~IsEnum
    <3>1. spec = FieldsSpec /\ ~FieldsRefused
      <4>1. spec # ByTypeSpec
        BY <1>1 DEF ByTypeSpec, NoSpec
      <4>2. QED
        BY <1>1, <2>5, <4>1 DEF SpecOk
    <3>2. Match(f, object[f]) \in {0, sent} /\ (Tells(f) => Match(f, object[f]) = sent)
      BY <1>1, <1>3, <2>1, <2>5, <3>1, MemberSpeaks
    <3>3. Decides(f) => Tells(f)
      BY <1>1, <2>5 DEF Decides
    <3>4. QED
      BY <2>2, <2>3, <3>2, <3>3
  <2>6. QED
    BY <2>4, <2>5
<1>5. CASE v # 0 /\ found /\ type # v
  <2>1. Exempt
    BY <1>3, <1>4, <1>5
  <2>2. Right(0, TRUE) /\ Finish(0, TRUE)
    BY <1>2, <1>5, <2>1 DEF Right
  <2>3. QED
    BY <1>1, <2>2, FinishStep
<1>6. CASE ~(v # 0 /\ found /\ type # v)
  <2>1. /\ members' = Without(f) /\ found' = (found \/ v # 0) /\ type' = IF v # 0 THEN v ELSE type
        /\ UNCHANGED <<sum, stage, spec, refused, sent, token, object, failed>>
    BY <1>2, <1>6
  <2>2. CASE Exempt
    BY <1>1, <2>1, <2>2, ExemptStays
  <2>3. CASE ~Exempt
    <3>1. found' => type' = sent
      BY <1>3, <1>4, <2>1, <2>3
    <3>2. Decides(f) => v # 0
      BY <1>4, <2>3
    <3>3. (v # 0) \in BOOLEAN
      OBVIOUS
    <3>4. QED
      BY <1>1, <2>1, <2>3, <3>1, <3>2, <3>3, MemberTaken
  <2>4. QED
    BY <2>2, <2>3
<1>7. QED
  BY <1>5, <1>6

LEMMA ObjectEnds ==
  ASSUME SInv, EndObject
  PROVE  SInv'
<1>1. /\ stage = "read" /\ spec.by # "type" /\ SumSound(sum) /\ SpecOk /\ Sent /\ members = NoMembers
      /\ Exempt \/ Progress
  BY ReadingBegins DEF SInv, EndObject
<1>2. \A t, e : Exempt => Right(t, e)
  BY DEF Right
<1>3. CASE Exempt
  <2>1. PICK t, e : Finish(t, e)
    BY DEF EndObject
  <2>2. QED
    BY <1>1, <1>2, <1>3, <2>1, FinishStep
<1>4. CASE ~Exempt
  <2>1. Progress /\ DOMAIN members = {} /\ Nulls = FALSE
    BY <1>1, <1>4 DEF NoMembers, Exempt, Nulls
  <2>2. CASE found
    <3>1. Right(type, FALSE)
      BY <2>1, <2>2 DEF Right, Progress
    <3>2. Finish(type, FALSE)
      BY <2>1, <2>2 DEF EndObject
    <3>3. QED
      BY <1>1, <3>1, <3>2, FinishStep
  <2>3. CASE ~found
    <3>1. \A f \in DOMAIN object : ~Decides(f)
      BY <2>1, <2>3 DEF Progress
    <3>2. spec = FieldsSpec /\ ~FieldsRefused /\ ~IsEnum
      <4>1. spec # ByTypeSpec
        BY <1>1 DEF ByTypeSpec, NoSpec
      <4>2. ~(spec.by = "discriminator" /\ ~IsEnum)
        BY <1>1, <1>4, <3>1, KeyFound DEF Decides
      <4>3. ~(IsEnum /\ \E f \in findEnumDiscriminator : spec = ToldBy(f))
        BY <1>1, <3>1, ListedIsTold
      <4>4. QED
        BY <1>1, <4>1, <4>2, <4>3 DEF SpecOk
    <3>3. \A f \in DOMAIN object : ~Tells(f)
      BY <3>1, <3>2, FieldsOfSpec DEF Decides
    <3>4. spec.default = sent /\ sent # 0
      BY <1>1, <1>4, <3>2, <3>3, SilentIsDefault
    <3>5. Finish(sent, FALSE)
      BY <2>3, <3>4 DEF EndObject
    <3>6. Right(sent, FALSE)
      BY DEF Right
    <3>7. QED
      BY <1>1, <3>5, <3>6, FinishStep
  <2>4. QED
    BY <2>2, <2>3
<1>5. QED
  BY <1>3, <1>4

-----------------------------------------------------------------------------
LEMMA SumStarts == SumInit => SInv
<1> SUFFICES ASSUME SumInit PROVE SInv
  OBVIOUS
<1>1. PICK family \in Sums : sum \in family
  BY DEF SumInit
<1>2. SumSound(sum)
  BY <1>1, SumsAssumption
<1>3. QED
  BY <1>2 DEF SumInit, SInv

LEMMA SumStays ==
  ASSUME SInv, UNCHANGED sumVars
  PROVE  SInv'
<1>1. UNCHANGED <<sum, stage, spec, refused, sent, token, members, object, found, type, failed>>
  BY DEF sumVars
<1>2. SumSound(sum)' /\ SpecOk' = SpecOk /\ Sent' = Sent /\ Exempt' = Exempt
  BY <1>1, SpecStays, SentStays, ReadingStays DEF SInv
<1>3. Progress' = Progress
  <2>1. \A f : Decides(f)' = Decides(f)
    BY <1>1, ReadingStays
  <2>2. QED
    BY <1>1, <2>1 DEF Progress
<1>4. Right(type, failed)' = Right(type, failed)
  <2>1. PICK t, e : t = type /\ e = failed
    OBVIOUS
  <2>2. Right(t, e)' = Right(t, e)
    BY <1>1, ReadingStays
  <2>3. t = type' /\ e = failed'
    BY <1>1, <2>1
  <2>4. QED
    BY <2>1, <2>2, <2>3
<1>5. QED
  BY <1>1, <1>2, <1>3, <1>4 DEF SInv

LEMMA SumSteps == SInv /\ [SumNext]_sumVars => SInv'
<1> SUFFICES ASSUME SInv, [SumNext]_sumVars PROVE SInv'
  OBVIOUS
<1>1. CASE UNCHANGED sumVars
  BY <1>1, SumStays
<1>2. CASE SumNext
  BY <1>2, LoweringStep, ReceiveStep, TypeStep, MemberStep, KeyStep, ObjectEnds DEF SumNext
<1>3. QED
  BY <1>1, <1>2

LEMMA SumInvariant == SumSpec => []SInv
<1>1. SInv /\ [SumNext]_sumVars => SInv'
  BY SumSteps
<1>2. QED
  BY SumStarts, <1>1, PTL DEF SumSpec

\* For every oneOf, anyOf and enum of objects: a value that was written as one variant is
\* read by the generated Decode (json/encoders_sum) as that variant, or, of an anyOf, as one
\* that the value fits as well, in whatever order its members come, unless one of the
\* exceptions holds that the property names.
THEOREM SumsReadAsWritten == SumSpec => []ReadAsWritten
<1>1. SInv => ReadAsWritten
  BY DEF SInv, Right, Exempt, ReadAsWritten
<1>2. QED
  BY SumInvariant, <1>1, PTL

=============================================================================
