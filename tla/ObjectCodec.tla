------------------------------ MODULE ObjectCodec ------------------------------
(* An object schema on its way through the code generator: lowering makes a    *)
(* struct or a map of it (schema_gen.go, case Object), and the templates       *)
(* encoders_struct and encoders_map write its Encode and Decode.  Decode takes *)
(* the members of a JSON object in any order, one turn of d.ObjBytes each, and *)
(* then looks at their number and at the bits of the required ones.            *)
(*                                                                             *)
(* A schema may describe a member in four ways (properties, patternProperties, *)
(* additionalProperties, or not at all), and a member may match several.       *)
(* A value is one of a few tokens; the type of a member takes some of them.    *)
EXTENDS Integers, FiniteSets, SequencesExt, TLC

CONSTANT Codecs   \* schemas, each with JSON objects: sequences of members

IsSequence(s) == s \in Seq(ToSet(s))
AtMostOne(S) == \A x, y \in S : x = y
\* A schema's properties are a mapping, and a default has its property's type.
ShapeSound(s) ==
  /\ IsSequence(s.properties) /\ IsSequence(s.patterns)
  /\ \A i, j \in DOMAIN s.properties : i # j => s.properties[i].name # s.properties[j].name
  /\ \A i \in DOMAIN s.properties :
       /\ s.properties[i].required \in BOOLEAN
       /\ s.properties[i].default \subseteq s.properties[i].values
       /\ AtMostOne(s.properties[i].default)
  /\ s.additional \in {"yes", "no", "unset"}
  /\ s.min \subseteq Int /\ s.max \subseteq Int
ASSUME CodecsAssumption ==
  \A c \in Codecs :
    /\ ShapeSound(c.shape)
    /\ \A o \in c.objects : IsSequence(o)

VARIABLES
  shape,     \* the schema
  incoming,  \* the members of the JSON object that is read, or written
  held,      \* the Go value: fields, AdditionalProps (or the map), Pattern<i>Props
  bitSet,    \* requiredBitSet
  propertiesCount,  \* the turns of d.ObjBytes
  reading,   \* "lower", "refused", "start", "members", "read", "error" or "encode"
  lacking,   \* the names in the error about required fields
  unwritten, \* what Encode has still to write
  rounds     \* <<what a peer sent, what was read of it, what was written then>>

codecVars == <<shape, incoming, held, bitSet, propertiesCount, reading, lacking, unwritten, rounds>>

empty == ""
Keys(s) == {s[i].key : i \in DOMAIN s}
NoEntries == [k \in {} |-> 0]

-----------------------------------------------------------------------------
(* Lowering.                                                                   *)
isMap(s) ==
  /\ s.properties = <<>>
  /\ IF s.additional = "yes" THEN s.patterns = <<>> ELSE Len(s.patterns) = 1

\* The Go names of a struct's fields; addField refuses two of one name.
FieldNames(s) ==
  [i \in DOMAIN s.properties |-> s.properties[i].go]
  \o (IF s.additional = "yes" THEN <<"AdditionalProps">> ELSE <<>>)
  \o [i \in DOMAIN s.patterns |-> "Pattern" \o ToString(i - 1) \o "Props"]
Conflict(s) == ~isMap(s) /\ ~IsInjective(FieldNames(s))

\* JSON.Fields: a property whose name is empty has no tag, and is none of them.
JSONFields == {i \in DOMAIN shape.properties : shape.properties[i].name # empty}
Field(i) == shape.properties[i]
Position(i) == Cardinality({j \in JSONFields : j < i})

LowerObject ==
  /\ reading = "lower"
  /\ reading' = IF Conflict(shape) THEN "refused" ELSE "start"
  /\ UNCHANGED <<shape, incoming, held, bitSet, propertiesCount, lacking, unwritten, rounds>>

-----------------------------------------------------------------------------
(* Decode.                                                                     *)

\* bitset.Build: bit i % 8 of byte i / 8 is the one of field i.
Bit(i) == Position(i) % 8
Byte(i) == Position(i) \div 8
Bytes == {Byte(i) : i \in JSONFields}
RequiredMask == [b \in Bytes |-> {Bit(i) : i \in {j \in JSONFields : Byte(j) = b /\ Field(j).required}}]

\* setDefaults, and the maps for what is not declared.
Start ==
  /\ reading = "start"
  /\ held' = [fields |-> [i \in JSONFields |-> Field(i).default],
              extra |-> NoEntries,
              matched |-> [i \in DOMAIN shape.patterns |-> NoEntries]]
  /\ bitSet' = [b \in Bytes |-> {}] /\ propertiesCount' = 0 /\ lacking' = {}
  /\ reading' = "members" /\ UNCHANGED <<shape, incoming, unwritten, rounds>>

Member == incoming[propertiesCount + 1]
Reading == reading = "members" /\ propertiesCount < Len(incoming)
Decoded(ok, h) ==
  /\ propertiesCount' = propertiesCount + 1
  /\ held' = IF ok THEN h ELSE held
  /\ reading' = IF ok THEN "members" ELSE "error"
  /\ UNCHANGED <<shape, incoming, lacking, unwritten, rounds>>
Put(entries) ==
  [k \in {Member.key} \cup DOMAIN entries |-> IF k = Member.key THEN Member.value ELSE entries[k]]

\* case "<name>"
ReadField ==
  /\ Reading
  /\ \E i \in JSONFields :
       /\ Field(i).name = Member.key
       /\ bitSet' = IF Field(i).required THEN [bitSet EXCEPT ![Byte(i)] = @ \cup {Bit(i)}] ELSE bitSet
       /\ Decoded(Member.value \in Field(i).values, [held EXCEPT !.fields[i] = {Member.value}])

\* default: every pattern is tried; one that matches keeps additionalProperties out.  The
\* code of a second one that matches finds the value read already, which is an error.
Undeclared == Reading /\ Member.key \notin {Field(i).name : i \in JSONFields} /\ UNCHANGED bitSet
Matching == {i \in DOMAIN shape.patterns : Member.key \in shape.patterns[i].keys}
ReadPatterns ==
  /\ Undeclared /\ Matching # {}
  /\ \E i \in Matching :
       Decoded(Matching = {i} /\ Member.value \in shape.patterns[i].values, [held EXCEPT !.matched[i] = Put(@)])

ReadAdditional ==
  /\ Undeclared /\ Matching = {} /\ shape.additional = "yes"
  /\ Decoded(Member.value \in shape.item, [held EXCEPT !.extra = Put(@)])

Unexpected == Undeclared /\ Matching = {} /\ shape.additional = "no" /\ Decoded(FALSE, held)
SkipMember == Undeclared /\ Matching = {} /\ shape.additional = "unset" /\ Decoded(TRUE, held)

\* ValidateProperties, then one failure for each bit of a mask that was not set.
CountWrong ==
  (\E m \in shape.max : propertiesCount > m) \/ (\E m \in shape.min : propertiesCount < m)
NamesAt(place) == {Field(i).name : i \in {j \in JSONFields : Position(j) = place}}
\* Mutant: the index of the byte is left out of the index of the field.
FailuresByBit ==
  UNION {UNION {NamesAt(bit) : bit \in RequiredMask[b] \ bitSet[b]} : b \in Bytes}

Failures ==
  UNION {UNION {NamesAt(8 * b + bit) : bit \in RequiredMask[b] \ bitSet[b]} : b \in Bytes}
EndOfObject ==
  /\ reading = "members" /\ propertiesCount = Len(incoming)
  /\ lacking' = IF CountWrong \/ isMap(shape) THEN {} ELSE Failures
  /\ reading' = IF CountWrong \/ lacking' # {} THEN "error" ELSE "read"
  /\ UNCHANGED <<shape, incoming, held, bitSet, propertiesCount, unwritten, rounds>>

-----------------------------------------------------------------------------
(* Encode: a constant is written whatever the field holds; the maps follow, in *)
(* an order Go does not promise.                                               *)
Piece(place, key, value) == [place |-> place, key |-> key, value |-> value]
FieldPieces(h) ==
  UNION {{Piece(i, Field(i).name, x) : x \in IF Field(i).const # {} THEN Field(i).const ELSE h.fields[i]} :
           i \in JSONFields}
ExtraPieces(h) == {Piece(Len(shape.properties) + 1, k, h.extra[k]) : k \in DOMAIN h.extra}
PatternPieces(h) ==
  UNION {{Piece(Len(shape.properties) + 1 + p, k, h.matched[p][k]) : k \in DOMAIN h.matched[p]} :
           p \in DOMAIN shape.patterns}
PiecesDeclared(h) == FieldPieces(h) \cup ExtraPieces(h)  \* mutant: the maps of patterns are left out
Pieces(h) == FieldPieces(h) \cup ExtraPieces(h) \cup PatternPieces(h)

Encode ==
  /\ reading = "read" /\ Len(rounds) = 1
  /\ incoming' = <<>> /\ unwritten' = Pieces(held) /\ reading' = "encode"
  /\ rounds' = Append(rounds, held)
  /\ UNCHANGED <<shape, held, bitSet, propertiesCount, lacking>>
WriteMember ==
  /\ reading = "encode"
  /\ \E m \in unwritten :
       /\ \A n \in unwritten : m.place <= n.place
       /\ incoming' = Append(incoming, [key |-> m.key, value |-> m.value])
       /\ unwritten' = unwritten \ {m}
  /\ UNCHANGED <<shape, held, bitSet, propertiesCount, reading, lacking, rounds>>
\* The value is sent on and read once more.
SendOn ==
  /\ reading = "encode" /\ unwritten = {}
  /\ rounds' = Append(rounds, incoming) /\ reading' = "start"
  /\ UNCHANGED <<shape, incoming, held, bitSet, propertiesCount, lacking, unwritten>>

-----------------------------------------------------------------------------
CodecInit ==
  /\ \E c \in Codecs : shape = c.shape /\ incoming \in c.objects
  /\ held = [fields |-> <<>>, extra |-> NoEntries, matched |-> <<>>]
  /\ bitSet = [b \in {} |-> {}] /\ propertiesCount = 0 /\ reading = "lower" /\ lacking = {}
  /\ unwritten = {} /\ rounds = <<incoming>>

CodecNext ==
  \/ LowerObject \/ Start
  \/ ReadField \/ ReadPatterns \/ ReadAdditional \/ Unexpected \/ SkipMember \/ EndOfObject
  \/ Encode \/ WriteMember \/ SendOn
CodecSpec == CodecInit /\ [][CodecNext]_codecVars

-----------------------------------------------------------------------------
(* What the schema says of an object.                                          *)
received == rounds[1]
LastSent(key) ==
  {received[i].value : i \in {j \in DOMAIN received : /\ received[j].key = key
                                                    /\ \A l \in DOMAIN received : l > j => received[l].key # key}}
NamedOnce(s) == Cardinality(Keys(s)) = Len(s)
Declared == {shape.properties[i] : i \in DOMAIN shape.properties}
PatternsOf(key) == {i \in DOMAIN shape.patterns : key \in shape.patterns[i].keys}
Described(key) == PatternsOf(key) # {} \/ \E p \in Declared : p.name = key

MissingOf(s) == {p.name : p \in {q \in Declared : q.required}} \ Keys(s)
MemberAllowed(m) ==
  /\ \A p \in Declared : p.name = m.key => m.value \in p.values /\ (p.const # {} => m.value \in p.const)
  /\ \A i \in PatternsOf(m.key) : m.value \in shape.patterns[i].values
  /\ Described(m.key) \/ shape.additional = "unset"
       \/ (shape.additional = "yes" /\ m.value \in shape.item)
Conforms(s) ==
  /\ MissingOf(s) = {} /\ \A i \in DOMAIN s : MemberAllowed(s[i])
  /\ \A m \in shape.min : Cardinality(Keys(s)) >= m
  /\ \A m \in shape.max : Cardinality(Keys(s)) <= m

\* What Decode is known to read otherwise: a property is not matched with the patterns,
\* nor compared with its constant; one with the empty name is not read at all; and a
\* member of two patterns is an error.
Overlooked ==
  \/ \E k \in Keys(received) : Cardinality(PatternsOf(k)) > 1
  \/ \E p \in Declared :
       \/ PatternsOf(p.name) # {} \/ p.name = empty
       \/ p.const # {} /\ \E i \in DOMAIN received : received[i].key = p.name /\ received[i].value \notin p.const

\* Decode takes the objects the schema allows and no other, however a member is described
\* and whatever order the members come in; the error names the required members that are
\* missing, all of them and only those, although they are kept as bits of several bytes;
\* and what it keeps of a member is the last value sent for it.  A name sent twice counts
\* twice for minProperties and maxProperties, so sizes are promised for unique names only.
ReadIffConforms ==
  reading \in {"read", "error"} /\ Len(rounds) = 1 /\ ~Overlooked =>
    /\ NamedOnce(received) => (reading = "read" <=> Conforms(received))
    /\ lacking \in {{}, MissingOf(received)}
    /\ reading = "read" => \A i \in JSONFields :
         held.fields[i] = IF Field(i).name \in Keys(received) THEN LastSent(Field(i).name) ELSE Field(i).default

\* Where an object that was read is written as one that differs: a constant is written
\* over what was read, and with a bound on the number of properties the members skipped,
\* sent twice or added by defaults make the count another one.
WrittenOtherwise ==
  \/ \E i \in JSONFields : Field(i).const \notin {{}, rounds[2].fields[i]}
  \/ shape.min \cup shape.max # {} /\ Len(rounds[3]) # Len(received)

\* A value that was read is written as one JSON object, every member under one name once,
\* and reading that gives the value back: a service that hands on what it received hands
\* on what it understood.
WrittenReadsBack ==
  reading \in {"read", "error"} /\ Len(rounds) = 3 /\ ~WrittenOtherwise =>
    reading = "read" /\ held = rounds[2] /\ NamedOnce(rounds[3])

===============================================================================
