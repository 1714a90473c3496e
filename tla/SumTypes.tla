------------------------------- MODULE SumTypes -------------------------------
\* oneOf, anyOf and enums of objects: how the variants of a sum type are told apart
\* (schema_gen_sum.go: oneOf, anyOf, canUseTypeDiscriminator, handleExplicitDiscriminator;
\* schema_gen.go: nonPrimitiveObjectEnum) and what the generated Decode makes of a JSON
\* value (template json/encoders_sum and its helpers in gen/templates.go and
\* ir/template_helpers.go).
\*
\* A value arrives member by member, in any order of keys.  A token is what a decoder
\* sees of a JSON value: its type, a text where the text matters (enum values, whole or
\* broken numbers) and the type of an array's first element.
EXTENDS Naturals, FiniteSets, SequencesExt, TLC

CONSTANT Sums
\* Families of sums.  A sum: its variants, a sequence, and whether it is a oneOf; a null
\* is in front if one of the schemas is nullable.  discriminator says whether the schema
\* has one, on property Kind, and mapping is its explicit mapping of keys to variants.  An
\* enum of objects has no variants of its own, but the values it lists.
Kind == "kind"
none == ""
TheOne(S) == CHOOSE x \in S : TRUE
GoName(v) == "V" \o ToString(v)
\* A nested sum is one of plain types, only strings are listed as values, a mapping leads to
\* variants, and each of these has a Go type of its own.
SumSound(s) ==
  /\ s.variants \in Seq(Range(s.variants)) /\ s.enum \in Seq(Range(s.enum))
  /\ s.oneOf \in BOOLEAN /\ (s.variants = <<>> \/ s.enum = <<>>)
  /\ s.oneOf => s.enum = <<>>
  /\ Range(s.mapping) \subseteq DOMAIN s.variants
  /\ \A v \in DOMAIN s.variants :
       /\ {"struct", "sum"} \cap ToSet(s.variants[v].of) = {}
       /\ \A f \in DOMAIN s.variants[v].fields :
            s.variants[v].fields[f].type.values # {} => s.variants[v].fields[f].type.json = "String"
       /\ \A w \in DOMAIN s.variants : GoName(v) = GoName(w) => v = w
ASSUME SumsAssumption == \A family \in Sums : \A s \in family : SumSound(s)

VARIABLES
  sum,      \* the schema
  stage,    \* "lower", "receive", "read" and "done"
  spec,     \* ir.SumSpec
  refused,  \* lowering gave up
  sent,     \* the variant a peer wrote
  token,    \* the JSON value: its token,
  members,  \* and for an object the members not yet read
  object,   \* and all of them
  found, type, failed  \* the variables of Decode, and whether it returned an error
sumVars == <<sum, stage, spec, refused, sent, token, members, object, found, type, failed>>

NoMembers == [f \in {} |-> 0]
Token(json, text) == [json |-> json, text |-> text, elem |-> none]
NoSpec == [by |-> none, unique |-> NoMembers, values |-> NoMembers, default |-> 0,
           mapping |-> NoMembers]

\* The struct that is made of a listed value: every member is required, and has the type
\* of its value; the items of an array are taken for nulls.
IsEnum == sum.enum # <<>>
inferTypeFromValue(t) ==
  [id |-> IF t.json = "Number" THEN t.text ELSE t.json, json |-> IF t.json = "Object" THEN none ELSE t.json,
   elem |-> IF t.json = "Array" THEN "Null" ELSE none, values |-> {}, null |-> FALSE]
inferSchemaFromObject(o) ==
  [kind |-> "struct", of |-> <<>>,
   fields |-> [f \in DOMAIN o |-> [type |-> inferTypeFromValue(o[f]), required |-> TRUE]]]

Variants == IF IsEnum THEN [i \in DOMAIN sum.enum |-> inferSchemaFromObject(sum.enum[i].members)]
            ELSE sum.variants
Index == DOMAIN Variants
Fields(v) == IF Variants[v].kind = "struct" THEN Variants[v].fields ELSE NoMembers
Names == UNION {DOMAIN Fields(v) : v \in Index}
Has(v, f) == f \in DOMAIN Fields(v)
TypeOf(v, f) == Fields(v)[f].type

-----------------------------------------------------------------------------
\* jsonType and the getType of canUseTypeDiscriminator
JSONType(kind) ==
  CASE kind \in {"integer", "number"} -> "Number"
    [] kind = "string" -> "String"
    [] kind = "boolean" -> "Bool"
    [] kind = "null" -> "Null"
    [] kind = "array" -> "Array"
    [] kind = "struct" -> "Object"
    [] OTHER -> none
GetType(kind) == IF kind = "integer" /\ ~sum.oneOf THEN "Integer" ELSE JSONType(kind)

\* canUseTypeDiscriminator, variant by variant: the types of a nested sum are recorded,
\* and only a plain variant is compared with what was recorded before.
TypesUpTo(k) ==
  UNION {IF Variants[v].kind = "sum" THEN {GetType(n) : n \in ToSet(Variants[v].of)}
         ELSE {GetType(Variants[v].kind)} : v \in 1..k}
CanUseTypeDiscriminator ==
  /\ \A v \in Index : Variants[v].kind # "sum" =>
       GetType(Variants[v].kind) \notin {none} \union TypesUpTo(v - 1)
  /\ ~({"Integer", "Number"} \subseteq TypesUpTo(Len(Variants))
       /\ \E v \in Index : Variants[v].kind = "sum")

\* a property is known by its name and its Go type
Signature(v, f) == <<f, TypeOf(v, f).id>>
Signatures(v) == {Signature(v, f) : f \in DOMAIN Fields(v)}
Unique(v) == {f \in DOMAIN Fields(v) : \A w \in Index \ {v} : Signature(v, f) \notin Signatures(w)}
NoUniqueFields == {v \in Index : Unique(v) = {}}
UniqueFields == [f \in UNION {Unique(v) : v \in Index} |-> {v \in Index : f \in Unique(v)}]

\* canUseValueDiscrimination
Enums(f, vs) == \A v \in vs : TypeOf(v, f).values # {}
DisjointUnchecked(f, vs) == TRUE  \* mutant
Disjoint(f, vs) == \A v, w \in vs : v # w => TypeOf(v, f).values \cap TypeOf(w, f).values = {}
Contested(f) == Cardinality(UniqueFields[f]) > 1
              /\ Cardinality({TypeOf(v, f).json : v \in UniqueFields[f]} \ {none}) <= 1
ByValue == {f \in DOMAIN UniqueFields :
              Contested(f) /\ Enums(f, UniqueFields[f]) /\ Disjoint(f, UniqueFields[f])}

\* needsArrayElementDiscrimination; a variant with a property of its own must exist
ElementTypes(f) == {TypeOf(v, f).elem : v \in UniqueFields[f]} \ {none}
ByElement(f) == /\ Cardinality(UniqueFields[f]) > 1 /\ Cardinality(ElementTypes(f)) > 1
                /\ \A v \in UniqueFields[f] : TypeOf(v, f).json = "Array"
OwnName == \E v \in Index : \E f \in DOMAIN Fields(v) : \A w \in Index \ {v} : ~Has(w, f)
Undiscriminable ==
  {f \in DOMAIN UniqueFields \ ByValue : Contested(f) /\ ~(ByElement(f) /\ OwnName)}

FieldsSpec ==
  [NoSpec EXCEPT !.by = "fields",
     !.unique = [f \in DOMAIN UniqueFields \ ByValue |-> UniqueFields[f]],
     !.values = [f \in ByValue |->
        [x \in UNION {TypeOf(v, f).values : v \in UniqueFields[f]} |->
           TheOne({v \in UniqueFields[f] : x \in TypeOf(v, f).values})]],
     !.default = IF NoUniqueFields = {} THEN 0 ELSE TheOne(NoUniqueFields)]

\* oneOf with a discriminator: a mapping that is not given maps the value that the
\* property is fixed to, or else the name of the schema.
ImplicitKey(v) ==
  IF Has(v, Kind) /\ Cardinality(TypeOf(v, Kind).values) = 1
  THEN TheOne(TypeOf(v, Kind).values) ELSE GoName(v)
Implicit == [x \in {ImplicitKey(v) : v \in Index} |-> TheOne({v \in Index : ImplicitKey(v) = x})]
Mapped(mapping) == [NoSpec EXCEPT !.by = "discriminator", !.mapping = mapping]
\* no Kind has a JSON type that a decoder could look for
ValueBased(vs) == LET of == {v \in vs : Has(v, Kind)} IN
                  Cardinality(of) > 1 /\ \A v \in of : TypeOf(v, Kind).json = none
AllStructs == \A v \in Index : Variants[v].kind = "struct"

ExplicitRefused == \/ ~AllStructs
                   \/ ValueBased(IF sum.oneOf THEN Index ELSE Range(sum.mapping))
ImplicitRefused == Cardinality(DOMAIN Implicit) < Cardinality(Index)
FieldsRefused == ~AllStructs \/ Cardinality(NoUniqueFields) > 1
                 \/ (Undiscriminable # {} /\ ByValue = {})

SumInit ==
  /\ (\E family \in Sums : sum \in family) /\ stage = "lower" /\ spec = NoSpec /\ refused = FALSE /\ sent = 0
  /\ token = Token(none, none) /\ members = NoMembers /\ object = NoMembers
  /\ found = FALSE /\ type = 0 /\ failed = FALSE

Lowered(refuse, made) ==
  /\ refused' = refuse
  /\ spec' = IF refuse THEN spec ELSE made
  /\ stage' = IF refuse THEN "done" ELSE "receive"
  /\ UNCHANGED <<sum, sent, token, members, object, found, type, failed>>
Explicit == sum.discriminator /\ DOMAIN sum.mapping # {}
ByTypeSpec == [NoSpec EXCEPT !.by = "type"]

OneOf ==
  /\ stage = "lower" /\ sum.oneOf
  /\ IF Explicit THEN Lowered(ExplicitRefused, Mapped(sum.mapping))
     ELSE IF sum.discriminator THEN Lowered(ImplicitRefused, Mapped(Implicit))
     ELSE IF CanUseTypeDiscriminator THEN Lowered(FALSE, ByTypeSpec)
     ELSE Lowered(FieldsRefused, FieldsSpec)
\* an anyOf that JSON types tell apart needs no discriminator
AnyOf ==
  /\ stage = "lower" /\ ~sum.oneOf /\ ~IsEnum
  /\ IF CanUseTypeDiscriminator THEN Lowered(FALSE, ByTypeSpec)
     ELSE Lowered(~Explicit \/ ExplicitRefused, Mapped(sum.mapping))

\* An enum of objects: a string that every value has, and none shares with another, names
\* and tells the variants.  The properties are a Go map: any of several may be found.
ObjectAt(i) == sum.enum[i].members
StringIn(i, f) == f \in DOMAIN ObjectAt(i) /\ ObjectAt(i)[f].json = "String"
findEnumDiscriminator ==
  {f \in DOMAIN ObjectAt(1) : /\ \A i \in Index : StringIn(i, f)
                             /\ \A i, j \in Index : i # j => ObjectAt(i)[f].text # ObjectAt(j)[f].text}
Capitalize(x) == IF x = "cat" THEN "Cat" ELSE x
SameName(f) == \E i, j \in Index : i # j /\ Capitalize(ObjectAt(i)[f].text) = Capitalize(ObjectAt(j)[f].text)
ToldBy(f) ==
  [NoSpec EXCEPT !.by = "fields",
     !.values = [g \in {f} |-> [x \in {ObjectAt(i)[f].text : i \in Index} |->
                                 TheOne({i \in Index : ObjectAt(i)[f].text = x})]]]
ObjectEnum ==
  /\ stage = "lower" /\ IsEnum
  /\ \/ /\ \E i \in Index : ~sum.enum[i].object
        /\ Lowered(TRUE, NoSpec)
     \/ /\ \A i \in Index : sum.enum[i].object
        /\ IF findEnumDiscriminator = {} THEN Lowered(FALSE, ByTypeSpec)
           ELSE \E f \in findEnumDiscriminator : Lowered(SameName(f), ToldBy(f))

-----------------------------------------------------------------------------
\* What a peer may write for a variant.
Plain(kind) ==
  IF kind = "number" THEN {Token("Number", "whole"), Token("Number", "fraction")}
  ELSE IF kind = "integer" THEN {Token("Number", "whole")}
  ELSE {Token(JSONType(kind), none)}
PlainTexts == {"x"} \union UNION {UNION {TypeOf(v, f).values : f \in DOMAIN Fields(v)} : v \in Index}
ListedTokens(t) == {Token(t.json, x) : x \in t.values}
UnlistedTokens(t) ==
  CASE t.json = none -> {Token("String", x) : x \in PlainTexts} \union {Token("Number", "whole")}
    [] t.json = "String" -> {Token("String", x) : x \in PlainTexts}
    [] t.json = "Array" -> {Token("Array", none), [Token("Array", none) EXCEPT !.elem = t.elem]}
    [] OTHER -> {Token(t.json, "x")}
TokensOf(t) ==
  (IF t.values # {} THEN ListedTokens(t) ELSE UnlistedTokens(t))
  \union (IF t.null THEN {Token("Null", none)} ELSE {})
ObjectsOf(v) ==
  LET some(S) == [S -> UNION {TokensOf(TypeOf(v, f)) : f \in S}]
      required == {f \in DOMAIN Fields(v) : Fields(v)[f].required} IN
  IF IsEnum THEN {ObjectAt(v)}
  ELSE {o \in UNION {some(S) : S \in SUBSET DOMAIN Fields(v)} :
          required \subseteq DOMAIN o /\ \A f \in DOMAIN o : o[f] \in TokensOf(TypeOf(v, f))}

\* PickMappingEntriesFor, and encodeFields: the key goes first, as a number if the
\* property is an integer; a variant without a key is written under its Go name.
MappedTo(v) == {x \in DOMAIN spec.mapping : spec.mapping[x] = v}
KeysOf(v) == IF MappedTo(v) = {} THEN {GoName(v)} ELSE MappedTo(v)
IntegerKey(v) == Explicit /\ Has(v, Kind) /\ TypeOf(v, Kind).id = "integer"
KeyToken(v, x) == Token(IF IntegerKey(v) THEN "Number" ELSE "String", x)

Receive ==
  /\ stage = "receive"
  /\ \E v \in Index :
       /\ sent' = v
       /\ IF Variants[v].kind = "struct"
          THEN /\ token' = Token("Object", none)
               /\ \E o \in ObjectsOf(v) :
                    IF spec.by # "discriminator" THEN object' = o
                    ELSE \E x \in KeysOf(v) :
                           object' = [f \in DOMAIN o \union {Kind} |->
                                        IF f = Kind THEN KeyToken(v, x) ELSE o[f]]
          ELSE /\ object' = NoMembers
               /\ \E k \in IF Variants[v].kind = "sum" THEN ToSet(Variants[v].of)
                           ELSE {Variants[v].kind} : token' \in Plain(k)
  /\ members' = object' /\ stage' = "read"
  /\ UNCHANGED <<sum, spec, refused, found, type, failed>>

-----------------------------------------------------------------------------
\* ir.Type.TypeDiscriminator: the case of the generated switch for each variant
CaseTypes(v) == IF Variants[v].kind = "sum" THEN {JSONType(n) : n \in ToSet(Variants[v].of)}
                ELSE {JSONType(Variants[v].kind)}
Cases(json) == {v \in Index : json \in CaseTypes(v)}
\* integer and number share a case, which looks at the number
IntegersOf(json) == {v \in Cases(json) : Variants[v].kind = "integer"}
CaseOf(t) ==
  IF t.json = "Number" /\ IntegersOf(t.json) # {} /\ (t.text = "whole" \/ Cases(t.json) = IntegersOf(t.json))
  THEN TheOne(IntegersOf(t.json))
  ELSE TheOne(Cases(t.json) \ (IF Cases(t.json) = IntegersOf(t.json) THEN {} ELSE IntegersOf(t.json)))

\* The variant's own Decode takes what was written for it, but for the items of an array
\* that an enum lists.
Nulls == IsEnum /\ \E f \in DOMAIN object : object[f].json = "Array" /\ object[f].elem \notin {none, "Null"}

Finish(t, err) ==
  /\ type' = t /\ failed' = err /\ stage' = "done"
  /\ UNCHANGED <<sum, spec, refused, sent, token, members, object, found>>

DecodeByType ==
  /\ stage = "read" /\ spec.by = "type"
  /\ IF Cases(token.json) = {} THEN Finish(0, TRUE) ELSE Finish(CaseOf(token), Nulls)

\* dedupeVariantsByType, dedupeVariantsByArrayElementType: of variants that look alike
\* the first one is kept.
First(vs) == IF vs = {} THEN 0 ELSE CHOOSE v \in vs : \A w \in vs : v <= w
TakenBy(t, json) == t.json = json \/ (t.null /\ json = "Null")
\* The variant that a member speaks for, 0 for none.
MatchUnique(f, t) ==
  LET vs == spec.unique[f] IN
  IF Cardinality(vs) = 1 THEN First({v \in vs : TypeOf(v, f).json = none \/ TakenBy(TypeOf(v, f), t.json)})
  ELSE IF ByElement(f) THEN
    IF t.json # "Array" THEN 0
    ELSE IF t.elem = none THEN (IF found THEN 0 ELSE First(vs))
    ELSE First({v \in vs : TypeOf(v, f).elem = t.elem})
  ELSE First({v \in vs : TypeOf(v, f).json # none /\ TakenBy(TypeOf(v, f), t.json)})
MatchValue(f, t) ==
  IF t.json = "String" /\ t.text \in DOMAIN spec.values[f] THEN spec.values[f][t.text] ELSE 0
Match(f, t) ==
  CASE f \in DOMAIN spec.unique -> MatchUnique(f, t)
    [] f \in DOMAIN spec.values -> MatchValue(f, t)
    [] OTHER -> 0

Without(f) == [g \in DOMAIN members \ {f} |-> members[g]]
ReadMember ==
  /\ stage = "read" /\ spec.by = "fields"
  /\ \E f \in DOMAIN members :
       LET v == Match(f, members[f]) IN
       IF v # 0 /\ found /\ type # v THEN Finish(0, TRUE)
       ELSE /\ members' = Without(f)
            /\ found' = (found \/ v # 0)
            /\ type' = IF v # 0 THEN v ELSE type
            /\ UNCHANGED <<sum, stage, spec, refused, sent, token, object, failed>>

\* json/encoders_sum with a discriminator: the key is read as a string
ReadKey ==
  /\ stage = "read" /\ spec.by = "discriminator"
  /\ \E f \in DOMAIN members :
       LET t == members[f]
           hits == {v \in Index : t.text \in KeysOf(v)} IN
       IF f = Kind /\ ~found /\ (t.json # "String" \/ hits = {}) THEN Finish(0, TRUE)
       ELSE /\ members' = Without(f)
            /\ found' = (found \/ f = Kind)
            /\ type' = IF f = Kind /\ ~found THEN TheOne(hits) ELSE type
            /\ UNCHANGED <<sum, stage, spec, refused, sent, token, object, failed>>

EndObject ==
  /\ stage = "read" /\ spec.by # "type" /\ members = NoMembers
  /\ IF found THEN Finish(type, Nulls)
     ELSE Finish(spec.default, spec.default = 0)

SumNext == OneOf \/ AnyOf \/ ObjectEnum \/ Receive \/ DecodeByType \/ ReadMember \/ ReadKey \/ EndObject
SumSpec == SumInit /\ [][SumNext]_sumVars

-----------------------------------------------------------------------------
\* A value that was written as one variant is read as that variant, in whatever order
\* its members come; an anyOf may choose another variant that the value fits as well.
\* It holds unless
\*  - two variants have a property of one JSON type and different Go types: only some
\*    of these are refused, and of those only if no other property is told by its value;
\*  - the object has none of the properties that are its variant's own (they were
\*    optional, or null): it is an error, or read as the variant that has none;
\*  - an array that tells by its elements is none: it speaks for the first variant;
\*  - a property that others tell by its values has a type that two variants share, and holds
\*    one of these values;
\*  - the discriminator is an integer: it is written as a number and read as a string;
\*    or there is no mapping, and a variant that is no object is accepted; or a variant has
\*    no key, and its Go name is a key of another (the generated switch does not compile);
\*  - a nested sum repeats the type of a variant before it (not looked for, and the
\*    generated switch does not compile); so does null in two properties;
\*  - no string tells the values of an enum apart: then each has a case for objects;
\*    or one of the values has an array that is not none.
Alike(v, w, f) ==
  LET t == TypeOf(v, f)
      u == TypeOf(w, f) IN
  /\ t.id # u.id
  /\ \/ t.json = u.json \/ none \in {t.json, u.json}
  /\ ~(f \in DOMAIN UniqueFields /\ ByElement(f) /\ none \notin {t.elem, u.elem} /\ t.elem # u.elem)
Blurred == \E f \in Names \ ByValue : \E v, w \in Index : Has(v, f) /\ Has(w, f) /\ Alike(v, w, f)
Shared(f) == \E v, w \in Index : v # w /\ Has(v, f) /\ Has(w, f)
Tells(f) == f \in Unique(sent) /\ (Shared(f) => object[f].json # "Null")
Undecided == Unique(sent) # {} /\ \A f \in DOMAIN object : ~Tells(f)
EmptyArray == \E f \in DOMAIN object : Shared(f) /\ object[f] = Token("Array", none)
Borrowed == \E f \in DOMAIN object \cap ByValue : f \notin Unique(sent) /\ MatchValue(f, object[f]) # 0
KeyTaken == \E v \in Index : MappedTo(v) = {} /\ GoName(v) \in DOMAIN spec.mapping
NullTwice == \E f \in DOMAIN object : Shared(f) /\ object[f].json = "Null"
Repeated == \E v, w \in Index : v # w /\ CaseTypes(v) \cap CaseTypes(w) # {}
                                /\ Variants[v].kind = "sum"
Fits(v) == \E k \in IF Variants[v].kind = "sum" THEN ToSet(Variants[v].of)
                    ELSE {Variants[v].kind} : token \in Plain(k)
ReadAsWritten ==
  stage = "done" /\ ~refused =>
    \/ type = sent /\ ~failed
    \/ ~sum.oneOf /\ ~failed /\ token.json # "Object" /\ Fits(type)
    \/ spec.by = "fields" /\ ~IsEnum /\ (Blurred \/ Undecided \/ EmptyArray \/ NullTwice \/ Borrowed)
    \/ spec.by = "discriminator" /\ (IntegerKey(sent) \/ token.json # "Object" \/ KeyTaken)
    \/ spec.by = "type" /\ (Repeated \/ Len(sum.enum) > 1)
    \/ Nulls
=============================================================================
