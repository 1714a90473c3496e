------------------------------- MODULE MCValues -------------------------------
\* What becomes of the values a schema describes.  A behaviour is one of six: a sum is
\* lowered and read (MCSums), an allOf is merged (MCSums), a pattern is converted, a value
\* is validated, an object is read and written, or a default is set; the others stand still.
EXTENDS MCSums, RegexConversion, Validators, ObjectCodec, Defaults

\* Patterns of up to four characters out of two alphabets, and longer ones that begin with
\* an escape or a class.
Texts(S, n) == UNION {[1..k -> S] : k \in 0..n}
AllPatterns ==
  Texts({"\\", "x", "u", "c", "1", "0", "4", "{", "}", "[", "]"}, 4)
  \cup Texts({"\\", "d", "s", "S", "b", "p", "L", "(", ")", "?", ":", ".", "]"}, 4)
  \cup {<<"\\">> \o s : s \in Texts({"x", "u", "4", "1", "{", "}", "a"}, 5)}
  \cup {<<"[">> \o s : s \in Texts({"\\", "s", "-", "]", "b", "^", "a"}, 5)}

-----------------------------------------------------------------------------
\* Numbers around the bounds of a 4-bit integer, each constraint alone and with others;
\* strings by length and by the number they hold; and one constrained integer inside each
\* kind of type, recursive ones included.
Scalar(t, f) == [NoConstraint EXCEPT !.type = t, !.format = f]
GoType(kind, of) ==
  [kind |-> kind, of |-> of, nil |-> "", minItems |-> {}, maxItems |-> {}, unique |-> FALSE,
   ogen |-> {}, schema |-> Scalar("boolean", "plain")]
Primitive(s) == [GoType("primitive", <<>>) EXCEPT !.schema = s]
Val(is, n, len, of) == [is |-> is, n |-> n, len |-> len, of |-> of]
ANumber(n) == Val("number", {n}, 0, <<>>)
Absent(is) == Val(is, {}, 0, <<>>)
Many(vs) == Val("value", {}, 0, vs)
Only1(v) == Many(<<v>>)
Maybe(S) == {{}} \cup {{x} : x \in S}

NumberSchemas ==
  {[Scalar(t[1], t[2]) EXCEPT !.min = lo, !.max = hi, !.exMin = x, !.multipleOf = m, !.pattern = p] :
     t \in {<<"integer", "plain">>, <<"integer", "uint64">>, <<"integer", "unix">>,
            <<"number", "plain">>, <<"number", "int32">>, <<"number", "decimal">>},
     lo \in Maybe({-4, 2, 3}), hi \in Maybe({4}), x \in BOOLEAN, m \in Maybe({0, 4, 6}),
     p \in Maybe({{-2, 2, 4, 8}})}
StringSchemas ==
  {[Scalar("string", f) EXCEPT !.minLength = lo, !.maxLength = hi, !.pattern = p, !.max = m, !.ogen = g] :
     f \in {"plain", "byte", "date", "int64"}, lo \in Maybe({1}), hi \in Maybe({1, 2}),
     p \in Maybe({{0, 2}}), m \in Maybe({2}), g \in Maybe({{2}})}
Halves == {ANumber(n) : n \in -16..15}
InputsOf(s) ==
  CASE s.type = "string" -> {Val("string", n, len, <<>>) : n \in {{}, {2}, {4}}, len \in 0..3}
    [] parseSimple(s) = "uint" -> {ANumber(2 * n) : n \in 0..15}
    [] s.type = "integer" \/ s.format = "int32" -> {v \in Halves : \A n \in v.n : n % 2 = 0}
    [] OTHER -> Halves

Tried(ts, vs) == [types |-> ts, inputs |-> vs]
Scalars == {Tried(<<Primitive(s)>>, InputsOf(s)) : s \in NumberSchemas \cup StringSchemas}
Bounded == [Scalar("integer", "plain") EXCEPT !.max = {2}]
Free == Scalar("integer", "plain")
Enumerated == [Scalar("integer", "plain") EXCEPT !.enum = {{2}}]
Cells == {Primitive(Bounded), Primitive(Free), Primitive(Enumerated)}
TwoNumbers == {ANumber(2), ANumber(4)}
Ones == {Only1(v) : v \in TwoNumbers}
Wrapped(kind, nil) == [GoType(kind, <<2>>) EXCEPT !.nil = nil]
Nils == {"invalid", "optional", "null"}
ArrayTypes == {[Wrapped("array", n) EXCEPT !.minItems = lo, !.unique = u, !.ogen = g] :
             n \in Nils, lo \in Maybe({1}), u \in BOOLEAN, g \in Maybe({{1}})}
MapTypes == {[GoType("map", <<2>>) EXCEPT !.ogen = g, !.maxItems = hi] : g \in Maybe({{1}}), hi \in Maybe({2})}
Collections == {Many(vs) : vs \in UNION {[1..k -> TwoNumbers] : k \in 0..2}}
Composites ==
  {Tried(<<t, c>>, {Absent("nil")} \cup Collections) : t \in ArrayTypes, c \in Cells}
  \cup {Tried(<<t, c>>, Collections) : t \in MapTypes, c \in Cells}
  \cup {Tried(<<GoType("alias", <<2>>), [t EXCEPT !.of = <<3>>], c>>, Collections) : t \in MapTypes, c \in Cells}
  \cup {Tried(<<Wrapped("pointer", n), c>>, {Absent("nil")} \cup Ones) : n \in Nils, c \in Cells}
  \cup {Tried(<<GoType("generic", <<2>>), c>>, {Absent("unset"), Absent("null")} \cup Ones) : c \in Cells}
  \cup {Tried(<<[GoType("struct", <<2, 3>>) EXCEPT !.ogen = g], c, GoType("generic", <<4>>), d>>,
              {Many(<<v, w>>) : v \in TwoNumbers, w \in {Absent("unset")} \cup Ones}) :
           g \in Maybe({{1}}), c, d \in Cells}
  \cup {Tried(<<GoType("alias", <<2>>), GoType("sum", <<3, 4>>), c, d>>,
              {Val("variant", {k}, 0, <<v>>) : k \in 1..2, v \in TwoNumbers}) : c, d \in Cells}

\* Types that name themselves, directly and through another one.
Link == Wrapped("pointer", "optional")
Chain == {Many(<<v, Absent("nil")>>) : v \in TwoNumbers}
Chains == Chain \cup {Many(<<v, Only1(w)>>) : v \in TwoNumbers, w \in Chain}
Recursive ==
  {Tried(<<GoType("struct", <<2, 3>>), Primitive(n), [Link EXCEPT !.of = <<1>>]>>, Chains) :
     n \in {Bounded, Free, Enumerated}}
  \cup {Tried(<<GoType("struct", <<2, 3>>), Primitive(Free), [Link EXCEPT !.of = <<4>>],
                GoType("struct", <<5, 6>>), Primitive(n), [Link EXCEPT !.of = <<1>>]>>, Chains) :
           n \in {Bounded, Free, Enumerated}}
AllSubjects == Scalars \cup Composites \cup Recursive

-----------------------------------------------------------------------------
\* Objects of up to two properties and two patterns that overlap, with every treatment of
\* further members, read from up to two members; and one of nine properties, two bytes of
\* required bits.
Property(name, needed, values) ==
  [name |-> name, go |-> name, required |-> needed, values |-> values, default |-> {}, const |-> {}]
Shape(ps, pats, additional) ==
  [properties |-> ps, patterns |-> pats, additional |-> additional, item |-> {1}, min |-> {}, max |-> {}]
Matched(ks, vs) == [keys |-> ks, values |-> vs]
As == {Property("a", r, {1}) : r \in BOOLEAN}
      \cup {[Property("a", FALSE, {1, 2}) EXCEPT !.default = {1}],
            [Property("a", FALSE, {1, 2}) EXCEPT !.const = {2}]}
Bs == {Property("b", r, {2}) : r \in BOOLEAN}
      \cup {Property("", TRUE, {2}), [Property("b", FALSE, {2}) EXCEPT !.go = "a"]}
PropertyLists ==
  {<<>>} \cup {<<p>> : p \in As} \cup {<<p, q>> : p \in As, q \in Bs}
  \cup {<<[Property("b", FALSE, {2}) EXCEPT !.go = g]>> : g \in {"AdditionalProps", "Pattern0Props"}}
PatternLists ==
  {<<>>, <<Matched({"x", "y"}, {1})>>, <<Matched({"x", "y", "a"}, {1}), Matched({"y", "a"}, {1, 2})>>}
Shapes == {[Shape(ps, pats, d) EXCEPT !.min = b[1], !.max = b[2]] :
             ps \in PropertyLists, pats \in PatternLists, d \in {"unset", "yes", "no"},
             b \in {<<{}, {}>>, <<{2}, {}>>, <<{}, {1}>>}}
Sent == {[key |-> k, value |-> v] : k \in {"a", "b", "x", "y", ""}, v \in 1..2}
Messages == UNION {[1..n -> Sent] : n \in 0..2}
NineNames == <<"a", "b", "c", "d", "e", "f", "g", "h", "i">>
Nine == {Shape([i \in 1..9 |-> Property(NineNames[i], i \in need, {1})], <<>>, "unset") :
           need \in {{9}, {1, 8, 9}, {8}}}
NineMessages == {SetToSeq({[key |-> NineNames[i], value |-> 1] : i \in S}) : S \in SUBSET {1, 2, 7, 8, 9}}
AllCodecs == {[shape |-> s, objects |-> Messages] : s \in Shapes}
             \cup {[shape |-> s, objects |-> NineMessages] : s \in Nine}

-----------------------------------------------------------------------------
\* A property of each kind with a default of each kind: alone, in lists, and in lists of
\* structs and maps whose members may have defaults of their own.
Cell(t) ==
  [type |-> t, format |-> "plain", nullable |-> FALSE, ref |-> FALSE, item |-> 0, tuple |-> FALSE,
   properties |-> NoMembers, required |-> {}, additional |-> FALSE, default |-> {}]
List(vs) == [J("array", "") EXCEPT !.of = vs]
ObjectOf(m) == [J("object", "") EXCEPT !.members = m]
Date == J("string", "date")
Word == J("string", "word")
One == J("integer", "1")
Declare(tree, needed, ignored, sends) ==
  [cells |-> tree, required |-> needed, ignore |-> ignored, messages |-> sends]
Simple == {[Cell(t) EXCEPT !.nullable = n, !.default = d] :
             t \in {"string", "integer", "oneOf", "any", "object"}, n \in BOOLEAN, d \in Maybe({Word, One, Null, ObjectOf(NoMembers)})}
          \cup {[Cell("string") EXCEPT !.format = "date", !.default = {d}] : d \in {Date, Word}}
AnyList(items, d) ==
  {[Cell("array") EXCEPT !.item = i, !.nullable = n, !.ref = r, !.default = d] : i \in items, n \in BOOLEAN, r \in BOOLEAN}
ItemCells == {Cell("string"), [Cell("integer") EXCEPT !.nullable = TRUE], Cell("oneOf"), Cell("any"),
              [Cell("integer") EXCEPT !.default = {Word}]}
ItemLists == {<<>>, <<One>>, <<Word, One>>, <<Null>>, <<List(<<One>>)>>}
Lists1 == {<<l, i>> : l \in UNION {AnyList({0, 2}, {List(vs)}) : vs \in ItemLists} \cup AnyList({2}, {}) \cup AnyList({2}, {Null}),
                      i \in ItemCells}
          \cup {<<[l EXCEPT !.tuple = TRUE], i>> : l \in AnyList({2}, {List(<<>>)}), i \in ItemCells}
Lists2 == {<<l, m, i>> : l \in UNION {AnyList({2}, {List(<<v>>)}) : v \in {List(<<>>), List(<<One>>), One}},
                         m \in AnyList({3}, {}), i \in ItemCells}
InnerNumbers == {[Cell("integer") EXCEPT !.default = d] : d \in Maybe({One, Word})}
InnerLists == {l \in AnyList({5}, {}) : ~l.ref}
InnerObjects == {[Cell("object") EXCEPT !.properties = p, !.required = r, !.additional = a, !.item = IF a THEN 3 ELSE 0] :
                   p \in {NoMembers, "a" :> 3, ("a" :> 3) @@ ("b" :> 4)}, r \in {{}, {"a"}}, a \in BOOLEAN}
                \cup {[Cell("object") EXCEPT !.additional = TRUE]}
ListedObjects == {ObjectOf(m) : m \in {NoMembers, "a" :> One, "a" :> Word, "b" :> List(<<>>),
                                     ("a" :> One) @@ ("b" :> List(<<One>>)), ("a" :> One) @@ ("c" :> One), "c" :> Word}}
Structs == {<<[Cell("array") EXCEPT !.item = 2, !.default = {List(<<v>>)}], o, n, l, i>> :
              v \in ListedObjects \cup {One}, o \in InnerObjects, n \in InnerNumbers \cup {Cell("any")},
              l \in InnerLists, i \in {Cell("integer")}}
Ignored == {{}, {"object defaults", "complex defaults", "array defaults with free-form items", "tuple array defaults"}}
SentFor(tree) ==
  (IF tree[1].nullable THEN {Null} ELSE {})
  \cup (CASE tree[1].type = "string" -> {Date} [] tree[1].type = "array" -> {List(<<>>)} [] OTHER -> {One})
AllDeclarations == {Declare(t, r, g, SentFor(t)) : t \in {<<c>> : c \in Simple} \cup Lists1 \cup Lists2 \cup Structs,
                                                r \in BOOLEAN, g \in Ignored}

-----------------------------------------------------------------------------
NoSum == SumOf(<<Of("string")>>, TRUE)
SumIdle ==
  /\ sum = NoSum /\ stage = "done" /\ spec = NoSpec /\ refused = TRUE /\ sent = 0
  /\ token = Token("", "") /\ members = NoMembers /\ object = NoMembers
  /\ found = FALSE /\ type = 0 /\ failed = FALSE
AllOfIdle == composition = Composed(<<>>, <<>>) /\ heap = <<>> /\ uses = <<>> /\ meaning = <<>>
RegexIdle ==
  /\ pattern = <<>> /\ at = 1 /\ rewritten = [passed |-> 0, out |-> <<>>]
  /\ depth = 0 /\ bracket = FALSE /\ verdict = "refused"
ValidIdle == types = <<>> /\ input = Absent("nil") /\ outcome = "refused"
CodecIdle ==
  /\ shape = Shape(<<>>, <<>>, "unset") /\ incoming = <<>> /\ held = <<>> /\ bitSet = <<>>
  /\ propertiesCount = 0 /\ reading = "refused" /\ lacking = {} /\ unwritten = {} /\ rounds = <<>>
DefaultIdle ==
  /\ declared = Declare(<<>>, TRUE, {}, {}) /\ cells = <<>> /\ next = 1 /\ step = "idle"
  /\ member = Unset /\ value = Unset

Init ==
  \/ SumInit /\ AllOfIdle /\ RegexIdle /\ ValidIdle /\ CodecIdle /\ DefaultIdle
  \/ SumIdle /\ AllOfInit /\ RegexIdle /\ ValidIdle /\ CodecIdle /\ DefaultIdle
  \/ SumIdle /\ AllOfIdle /\ RegexInit /\ ValidIdle /\ CodecIdle /\ DefaultIdle
  \/ SumIdle /\ AllOfIdle /\ RegexIdle /\ ValidInit /\ CodecIdle /\ DefaultIdle
  \/ SumIdle /\ AllOfIdle /\ RegexIdle /\ ValidIdle /\ CodecInit /\ DefaultIdle
  \/ SumIdle /\ AllOfIdle /\ RegexIdle /\ ValidIdle /\ CodecIdle /\ DefaultInit
Next ==
  \/ SumNext /\ UNCHANGED <<allOfVars, regexVars, validVars, codecVars, defaultVars>>
  \/ AllOfNext /\ UNCHANGED <<sumVars, regexVars, validVars, codecVars, defaultVars>>
  \/ RegexNext /\ UNCHANGED <<sumVars, allOfVars, validVars, codecVars, defaultVars>>
  \/ ValidNext /\ UNCHANGED <<sumVars, allOfVars, regexVars, codecVars, defaultVars>>
  \/ CodecNext /\ UNCHANGED <<sumVars, allOfVars, regexVars, validVars, defaultVars>>
  \/ DefaultNext /\ UNCHANGED <<sumVars, allOfVars, regexVars, validVars, codecVars>>
vars == <<sumVars, allOfVars, regexVars, validVars, codecVars, defaultVars>>
Spec == Init /\ [][Next]_vars
===============================================================================
