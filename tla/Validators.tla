------------------------------ MODULE Validators ------------------------------
(* The constraints of a schema on their way to the code that checks a value:   *)
(* lowering copies them into the type's validators (Validators.SetString,      *)
(* SetInt, ...), NeedValidation decides which types get a Validate method, the *)
(* template writes it, and runtime/validate compares.  A constraint that gets  *)
(* lost on this way is one the caller believes in.                             *)
(*                                                                             *)
(* Types are cells that name each other, so they may be recursive; a value is  *)
(* a finite tree.  Numbers count halves: 3 is 1.5.                             *)
EXTENDS Integers, FiniteSets, Sequences

CONSTANTS
  Subjects,   \* heaps of types, with values of their first type
  IntBits     \* width of int64 and uint64: 64 in the code

ASSUME IntBitsAssumption == IntBits \in Nat \ {0}

VARIABLES
  types,      \* the heap: a sequence of types
  input,      \* the value
  outcome     \* "", "refused", "warned", "valid", "invalid" or "panic"

validVars == <<types, input, outcome>>

\* A schema of a primitive; an absent keyword is {}, a present one a singleton.
\* pattern and ogen hold the numbers or lengths they let through.
NoConstraint == [type |-> "", format |-> "plain", min |-> {}, max |-> {}, exMin |-> FALSE, exMax |-> FALSE, multipleOf |-> {}, pattern |-> {},
                 minLength |-> {}, maxLength |-> {}, enum |-> {}, ogen |-> {}]
Given(o) == o # {}
The(o) == CHOOSE x \in o : TRUE

-----------------------------------------------------------------------------
(* Lowering.                                                                   *)

\* The Go type of a schema's type and format; an unknown format is none.
TypeFormatMapping ==
  [integer |-> [plain |-> "int", uint64 |-> "uint", unix |-> "time"],
   number  |-> [plain |-> "float", double |-> "float", int32 |-> "int", decimal |-> "decimal"],
   string  |-> [plain |-> "string", byte |-> "bytes", date |-> "time", int64 |-> "int", float64 |-> "float"],
   boolean |-> [plain |-> "bool"]]
parseSimple(s) ==
  LET formats == TypeFormatMapping[s.type]
  IN IF s.format \in DOMAIN formats THEN formats[s.format] ELSE formats["plain"]

IsInteger(p) == p \in {"int", "uint"}
IsNumeric(p) == p \in {"int", "uint", "float", "decimal"}
Whole(o) == \A n \in o : n % 2 = 0
InInt64(o) == \A n \in o : n \in -(2^IntBits)..(2^IntBits - 1)

\* Which of its validators a type has set.
Compared(s) == Given(s.min) \/ Given(s.max) \/ Given(s.multipleOf)
StringSet(s) == /\ s.type = "string"
                /\ Given(s.minLength) \/ Given(s.maxLength) \/ Given(s.pattern) \/ Given(s.min) \/ Given(s.max)
IntSet(s) == s.type = "integer" /\ (Compared(s) \/ Given(s.pattern))
DecimalSet(s) == s.type = "number" /\ parseSimple(s) = "decimal" /\ Compared(s)
FloatSet(s) == s.type = "number" /\ parseSimple(s) # "decimal" /\ (Compared(s) \/ Given(s.pattern))

\* Numbers the setters cannot parse end the generation.
Parses(s) ==
  s.type = "integer" =>
    Whole(s.min \cup s.max \cup s.multipleOf) /\ InInt64(s.min \cup s.max) /\ \A n \in s.multipleOf : n >= 0

\* enum: what format goes with an enumeration.
EnumAccepted(s) ==
  Given(s.enum) => IF s.type = "string" THEN parseSimple(s) # "time"
                   ELSE s.format = "plain" \/ IsNumeric(parseSimple(s))

\* "... validator cannot be applied to generated type and will be ignored".
Warned(s) ==
  \/ StringSet(s) /\ parseSimple(s) \notin {"string", "bytes"}
  \/ IntSet(s) /\ ~IsInteger(parseSimple(s))
  \/ FloatSet(s) /\ parseSimple(s) # "float"

-----------------------------------------------------------------------------
(* runtime/validate.                                                           *)

\* Int.Validate: the magnitude is what multipleOf and pattern look at.
Wrap(n) == ((n + 2^(IntBits - 1)) % 2^IntBits) - 2^(IntBits - 1)
IntValidate(s, n) ==
  LET v == Wrap(n \div 2)
      magnitude == IF v < 0 THEN Wrap(-v) ELSE v
      min == The(s.min) \div 2
      max == The(s.max) \div 2
  IN IF \/ Given(s.min) /\ (v < min \/ (s.exMin /\ v = min))
        \/ Given(s.max) /\ (v > max \/ (s.exMax /\ v = max)) THEN "invalid"
     ELSE IF s.multipleOf = {0} THEN "panic"
     ELSE IF \/ Given(s.multipleOf) /\ (magnitude % 2^IntBits) % (The(s.multipleOf) \div 2) # 0
             \/ Given(s.pattern) /\ 2 * magnitude \notin The(s.pattern) THEN "invalid"
     ELSE "valid"

\* Float.validate; Decimal.validate has no pattern.
RatValidate(s, n, pattern) ==
  IF \/ Given(s.min) /\ (n < The(s.min) \/ (s.exMin /\ n = The(s.min)))
     \/ Given(s.max) /\ (n > The(s.max) \/ (s.exMax /\ n = The(s.max))) THEN "invalid"
  ELSE IF s.multipleOf = {0} THEN "panic"
  ELSE IF \/ Given(s.multipleOf) /\ (IF n < 0 THEN -n ELSE n) % The(s.multipleOf) # 0
          \/ Given(pattern) /\ n \notin The(pattern) THEN "invalid"
  ELSE "valid"

ValidateLength(n, min, max) ==
  IF (Given(max) /\ n > The(max)) \/ (Given(min) /\ n < The(min)) THEN "invalid" ELSE "valid"

\* String.Validate; a string that is no number fails its numeric bounds.
StringValidate(s, v) ==
  IF /\ ValidateLength(v.len, s.minLength, s.maxLength) = "valid"
     /\ Given(s.pattern) => v.len \in The(s.pattern)
     /\ Given(s.min) \/ Given(s.max) => Given(v.n)
     /\ Given(s.min) => The(v.n) >= The(s.min)
     /\ Given(s.max) => The(v.n) <= The(s.max)
  THEN "valid" ELSE "invalid"

-----------------------------------------------------------------------------
(* NeedValidation and the template "validate".                                 *)
KindOf(t) == IF t.kind = "primitive" /\ Given(t.schema.enum) THEN "enum" ELSE t.kind
ArraySet(t) == Given(t.minItems) \/ Given(t.maxItems) \/ t.unique
\* A map's limits are its min- and maxProperties, which only its decoder counts.
ObjectSet(t) == Given(t.minItems) \/ Given(t.maxItems)

\* Mutant: what an Opt or Nil type wraps is not asked.
RECURSIVE needValidationUnwrapped(_, _)
needValidationUnwrapped(id, path) ==
  LET t == types[id]
      s == t.schema
      inner == \E k \in DOMAIN t.of : needValidationUnwrapped(t.of[k], path \cup {id})
  IN /\ id \notin path
     /\ CASE KindOf(t) = "primitive" ->
               IF parseSimple(s) = "float" THEN TRUE
               ELSE IF IsNumeric(parseSimple(s)) THEN IntSet(s) \/ DecimalSet(s)
               ELSE (StringSet(s) /\ parseSimple(s) \in {"string", "bytes"}) \/ Given(s.ogen)
          [] KindOf(t) = "enum" -> TRUE
          [] KindOf(t) \in {"sum", "alias"} -> inner
          [] KindOf(t) = "pointer" -> t.nil = "invalid" \/ inner
          [] KindOf(t) = "array" -> t.nil = "invalid" \/ ArraySet(t) \/ Given(t.ogen) \/ inner
          [] KindOf(t) = "struct" -> Given(t.ogen) \/ inner
          [] KindOf(t) = "map" -> ObjectSet(t) \/ Given(t.ogen) \/ inner
          [] OTHER -> FALSE

\* needValidation: path holds the types it is looking at, of which none is asked twice.
RECURSIVE needValidation(_, _)
needValidation(id, path) ==
  LET t == types[id]
      s == t.schema
      inner == \E k \in DOMAIN t.of : needValidation(t.of[k], path \cup {id})
  IN /\ id \notin path
     /\ CASE KindOf(t) = "primitive" ->
               IF parseSimple(s) = "float" THEN TRUE
               ELSE IF IsNumeric(parseSimple(s)) THEN IntSet(s) \/ DecimalSet(s)
               ELSE (StringSet(s) /\ parseSimple(s) \in {"string", "bytes"}) \/ Given(s.ogen)
          [] KindOf(t) = "enum" -> TRUE
          [] KindOf(t) \in {"sum", "alias", "generic"} -> inner
          [] KindOf(t) = "pointer" -> t.nil = "invalid" \/ inner
          [] KindOf(t) = "array" -> t.nil = "invalid" \/ ArraySet(t) \/ Given(t.ogen) \/ inner
          [] KindOf(t) = "struct" -> Given(t.ogen) \/ inner
          [] KindOf(t) = "map" -> ObjectSet(t) \/ Given(t.ogen) \/ inner
          [] OTHER -> FALSE
NeedValidation(id) == needValidation(id, {})

\* Several checks: the first panic, or else invalid if one is.
Worst(os) == IF "panic" \in os THEN "panic" ELSE IF "invalid" \in os THEN "invalid" ELSE "valid"
Ogen(t, v) == IF Given(t.ogen) /\ Cardinality(DOMAIN v.of) \notin The(t.ogen) THEN "invalid" ELSE "valid"

PrimitiveValidate(s, v) ==
  Worst({IF StringSet(s) THEN StringValidate(s, v) ELSE "valid",
         IF IntSet(s) THEN IntValidate(s, The(v.n)) ELSE "valid",
         IF parseSimple(s) = "float" /\ FloatSet(s) THEN RatValidate(s, The(v.n), s.pattern) ELSE "valid",
         IF DecimalSet(s) THEN RatValidate(s, The(v.n), {}) ELSE "valid",
         IF Given(s.ogen) /\ ~(v.n \subseteq The(s.ogen)) THEN "invalid" ELSE "valid"})

\* Validate is the Validate method of a type, or the code in place for one that has none;
\* ValidateUse is the template "validate": what checks a field, an element or a variant.
RECURSIVE Validate(_, _)
ValidateUse(id, v) ==
  IF ~NeedValidation(id) THEN "valid"
  ELSE IF types[id].kind = "map" THEN Worst({Validate(id, v), Ogen(types[id], v)})
  ELSE Validate(id, v)
Validate(id, v) ==
  LET t == types[id]
      items == {ValidateUse(t.of[1], v.of[k]) : k \in DOMAIN v.of}
      wrongItems == \/ ValidateLength(Len(v.of), t.minItems, t.maxItems) = "invalid"
                    \/ t.unique /\ \E j, k \in DOMAIN v.of : j # k /\ v.of[j] = v.of[k]
      noNil == IF t.nil = "invalid" THEN "invalid" ELSE "valid"
  IN CASE KindOf(t) = "primitive" -> PrimitiveValidate(t.schema, v)
       [] KindOf(t) = "enum" -> IF v.n \subseteq The(t.schema.enum) THEN "valid" ELSE "invalid"
       [] KindOf(t) = "alias" -> ValidateUse(t.of[1], v)
       [] KindOf(t) = "generic" -> IF v.is = "value" THEN Worst(items) ELSE "valid"
       [] KindOf(t) = "pointer" -> IF v.is = "nil" THEN noNil ELSE Worst(items)
       [] KindOf(t) = "array" ->
            IF v.is = "nil" /\ (t.nil = "invalid" \/ ArraySet(t)) THEN noNil
            ELSE IF ArraySet(t) /\ wrongItems THEN "invalid"
            ELSE Worst(items \cup {Ogen(t, v)})
       [] KindOf(t) = "struct" -> Worst({ValidateUse(t.of[k], v.of[k]) : k \in DOMAIN t.of} \cup {Ogen(t, v)})
       [] KindOf(t) = "map" -> Worst(items)
       [] KindOf(t) = "sum" -> ValidateUse(t.of[The(v.n)], v.of[1])

-----------------------------------------------------------------------------
Primitives == {types[id].schema : id \in {i \in DOMAIN types : types[i].kind = "primitive"}}

ValidInit == (\E s \in Subjects : types = s.types /\ input \in s.inputs) /\ outcome = ""

\* Lowering of all types, with its refusals and warnings.
LowerTypes ==
  /\ outcome = ""
  /\ outcome' = IF \E s \in Primitives : ~Parses(s) \/ ~EnumAccepted(s) THEN "refused"
                ELSE IF \E s \in Primitives : Warned(s) THEN "warned" ELSE "lowered"
  /\ UNCHANGED <<types, input>>

\* Encode and decode of a message call Validate when its type needs it.
Check ==
  /\ outcome = "lowered"
  /\ outcome' = IF NeedValidation(1) THEN Validate(1, input) ELSE "valid"
  /\ UNCHANGED <<types, input>>

ValidNext == LowerTypes \/ Check

-----------------------------------------------------------------------------
(* What the schema says of the value.                                          *)
\* The length a string has as JSON: bytes are written in base64.
WrittenLength(s, v) == IF parseSimple(s) = "bytes" THEN 4 * ((v.len + 2) \div 3) ELSE v.len
SchemaAllows(s, v) ==
  /\ Given(s.enum) => v.n \subseteq The(s.enum)
  /\ \A n \in v.n :
       /\ \A m \in s.min : n > m \/ (n = m /\ ~s.exMin)
       /\ \A m \in s.max : n < m \/ (n = m /\ ~s.exMax)
       /\ \A m \in s.multipleOf : \E k \in -64..64 : n = k * m
       /\ \A o \in s.ogen : n \in o
  /\ \A p \in s.pattern : (IF s.type = "string" THEN WrittenLength(s, v) ELSE The(v.n)) \in p
  /\ s.type = "string" => /\ \A m \in s.minLength : WrittenLength(s, v) >= m
                          /\ \A m \in s.maxLength : WrittenLength(s, v) <= m
                          /\ Given(s.min) \/ Given(s.max) => Given(v.n)

RECURSIVE Allows(_, _)
Allows(id, v) ==
  LET t == types[id]
  IN /\ t.kind = "primitive" => SchemaAllows(t.schema, v)
     /\ v.is = "nil" => t.nil # "invalid"
     /\ \A o \in t.ogen : v.is = "nil" \/ Cardinality(DOMAIN v.of) \in o
     /\ t.kind = "array" /\ v.is # "nil" =>
          /\ \A m \in t.minItems : Len(v.of) >= m
          /\ \A m \in t.maxItems : Len(v.of) <= m
          /\ t.unique => Cardinality({v.of[k] : k \in DOMAIN v.of}) = Len(v.of)
     /\ t.kind = "alias" => Allows(t.of[1], v)
     /\ t.kind \in {"array", "map", "generic", "pointer"} => \A k \in DOMAIN v.of : Allows(t.of[1], v.of[k])
     /\ t.kind = "struct" => \A k \in DOMAIN t.of : Allows(t.of[k], v.of[k])
     /\ t.kind = "sum" => Allows(t.of[The(v.n)], v.of[1])

RECURSIVE NumbersIn(_)
NumbersIn(v) == v.n \cup UNION {NumbersIn(v.of[k]) : k \in DOMAIN v.of}

\* What the code is known to read otherwise, and why.
Otherwise(s) ==
  \/ s.multipleOf = {0}                                       \* it divides by zero
  \/ parseSimple(s) = "decimal" /\ Given(s.pattern)           \* SetDecimal takes none
  \/ parseSimple(s) \in {"int", "uint", "decimal"} /\ Given(s.ogen) /\ ~(IntSet(s) \/ DecimalSet(s))
                                                              \* needValidation returns before it
  \/ parseSimple(s) = "bytes" /\ StringSet(s)                 \* the decoded bytes are measured
  \/ Given(s.enum) /\ (Compared(s) \/ StringSet(s) \/ Given(s.ogen) \/ Given(s.pattern))
                                                              \* an enum compares its values only
  \/ s.type = "integer" /\ \E n \in NumbersIn(input) :
       \/ n < 0 /\ Given(s.pattern)                           \* the sign is dropped before
       \/ n >= 2^IntBits /\ IntSet(s)                         \* a uint64 compared as an int64

OtherwiseIn(t) ==
  \/ t.kind = "map" /\ t = types[1] /\ Given(t.ogen)           \* its own method does not call it
  \/ t.kind = "array" /\ Given(t.ogen) /\ ~ArraySet(t) /\ input.is = "nil"
                                                              \* it is called with nil

\* A value is let through exactly if the schema allows it, wherever the constraint sits
\* (Set*, needValidation, the template, runtime/validate): none is lost between a schema
\* and the code that should check it, however the type is wrapped, unless the generator
\* warned, or it is one of the cases above.
ValidatedAsDeclared ==
  outcome \in {"valid", "invalid", "panic"} /\ (\A s \in Primitives : ~Otherwise(s)) /\ (\A id \in DOMAIN types : ~OtherwiseIn(types[id])) =>
    (outcome = "valid" <=> Allows(1, input))

===============================================================================
