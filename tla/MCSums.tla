-------------------------------- MODULE MCSums --------------------------------
\* Sums of two to four objects with up to two properties, of plain and nested kinds,
\* and with a discriminator; and, next to them, allOf over numbers, objects and arrays.
\* MCValues checks them.
EXTENDS SumTypes, AllOfMerge

FieldType(id, json) == [id |-> id, json |-> json, elem |-> "", values |-> {}, null |-> FALSE]
String == FieldType("string", "String")
Integer == FieldType("integer", "Number")
Number == FieldType("number", "Number")
AnyType == FieldType("any", "")
Enum(id, xs) == [FieldType(id, "String") EXCEPT !.values = xs]
ArrayOf(id, json) == [FieldType(id, "Array") EXCEPT !.elem = json]
Nullable(t) == [t EXCEPT !.null = TRUE]
Cat == Enum("Cat", {"cat"})
Dog == Enum("Dog", {"dog"})
Pet == Enum("Pet", {"cat", "dog"})
Strings == ArrayOf("strings", "String")
Integers == ArrayOf("integers", "Number")

Prop(t, needed) == [type |-> t, required |-> needed]
Struct(fields) == [kind |-> "struct", fields |-> fields, of |-> <<>>]
Of(kind) == [kind |-> kind, fields |-> NoMembers, of |-> <<>>]
Nested(kinds) == [kind |-> "sum", fields |-> NoMembers, of |-> kinds]
SumOf(variants, oneOf) ==
  [variants |-> variants, oneOf |-> oneOf, discriminator |-> FALSE, mapping |-> NoMembers, enum |-> <<>>]
Discriminated(variants, oneOf, mapping) ==
  [SumOf(variants, oneOf) EXCEPT !.discriminator = TRUE, !.mapping = mapping]

With(f, types, needs) == {NoMembers} \union {f :> Prop(t, r) : t \in types, r \in needs}
Objs(as, bs) == {Struct(a @@ b) : a \in as, b \in bs}

PairTypes == {String, Integer, Number, AnyType, Cat, Dog, Pet, Strings, Integers, Nullable(String),
              Nullable(Integer)}
Pairs == {SumOf(<<v, w>>, TRUE) :
            v, w \in Objs(With("a", PairTypes, BOOLEAN), With("b", {String}, BOOLEAN))}
Triples == {SumOf(<<u, v, w>>, TRUE) :
              u, v, w \in Objs(With("a", {String, Integer, Cat, Dog, Strings, Integers}, {TRUE}),
                               With("b", {String, Integer}, {TRUE}))}
\* each variant has a property of its own besides
Own == {SumOf(<<Struct(("a" :> Prop(t, r)) @@ ("x" :> Prop(String, FALSE))),
                Struct(("a" :> Prop(u, TRUE)) @@ ("y" :> Prop(String, FALSE)))>>, TRUE) :
          t, u \in PairTypes, r \in BOOLEAN}

Kinds == {Of(k) : k \in {"integer", "number", "string", "null", "any", "array"}}
         \union {Nested(<<"string", "integer">>), Nested(<<"number", "null">>), Struct(NoMembers)}
Typed == {SumOf(<<v, w>>, o) : v, w \in Kinds, o \in BOOLEAN}
         \union {SumOf(<<u, v, w>>, o) : u, v, w \in Kinds, o \in BOOLEAN}

Keyed == Objs({NoMembers} \union {Kind :> Prop(t, TRUE) : t \in {String, Integer, AnyType, Cat, Dog, Pet}},
              With("a", {String}, {TRUE}))
Mappings == {NoMembers, "cat" :> 1, "V2" :> 1, ("cat" :> 1) @@ ("dog" :> 2),
             ("cat" :> 1) @@ ("dog" :> 1), ("cat" :> 1) @@ ("dog" :> 2) @@ ("V1" :> 2)}
Discriminators == {Discriminated(<<v, w>>, o, m) :
                     v \in Keyed, w \in Keyed \union {Of("string")}, o \in BOOLEAN, m \in Mappings}

\* Enums of up to three objects with two members, one of them a null
Listed(o) == [object |-> TRUE, members |-> o]
EnumOf(values) == [SumOf(<<>>, FALSE) EXCEPT !.enum = values]
Texted(x) == Token("String", x)
FewTokens == {Texted("cat"), Texted("Cat"), Texted("dog"), Token("Number", "whole"), Token("Null", ""),
              Token("Object", ""), Token("Array", ""), [Token("Array", "") EXCEPT !.elem = "String"]}
Literals(as, bs) ==
  {Listed(a @@ b) : a \in {NoMembers} \union {"a" :> t : t \in as}, b \in {NoMembers} \union {"b" :> t : t \in bs}}
Strings3 == {Texted("cat"), Texted("dog"), Texted("bird")}
Enums1 == {<<v>> : v \in Literals(FewTokens, FewTokens)}
Enums2 == {<<v, w>> : v, w \in Literals(FewTokens, Strings3)}
Enums3 == {<<u, v, w>> : u, v, w \in Literals(Strings3, {Texted("cat"), Texted("dog")})}
Mixed == {<<Listed("a" :> Texted("cat")), [object |-> FALSE, members |-> NoMembers]>>}
ObjectEnums == {EnumOf(vs) : vs \in Enums1 \union Enums2 \union Enums3 \union Mixed}

\* four, two of which share the type of a property that tells the others by its values
Quads == {SumOf(<<Struct("a" :> Prop(Cat, TRUE)), Struct("a" :> Prop(Dog, TRUE)),
                  Struct(("a" :> Prop(t, TRUE)) @@ ("x" :> Prop(String, r))),
                  Struct(("a" :> Prop(t, FALSE)) @@ ("y" :> Prop(String, TRUE)))>>, TRUE) :
            t \in {String, Integer, Pet}, r \in BOOLEAN}
AllSums == {Pairs, Triples, Own, Quads, Typed, Discriminators, ObjectEnums}

-----------------------------------------------------------------------------
Num == [EmptySchema EXCEPT !.type = "number"]
Obj == [EmptySchema EXCEPT !.type = "object"]
All(ids) == [EmptySchema EXCEPT !.allOf = ids]
Composed(cells, order) == [schemas |-> cells, uses |-> order]

Bounds == {[EmptySchema EXCEPT !.type = t, !.maximum = hi, !.minimum = lo, !.exclusiveMaximum = xh,
              !.exclusiveMinimum = xl, !.nullable = n] :
             t \in {"", "number"}, hi \in {{}, {1}, {2}}, lo \in {{}, {1}},
             xh \in BOOLEAN, xl \in BOOLEAN, n \in BOOLEAN}
Values == {[Num EXCEPT !.enum = e, !.multipleOf = m, !.maximum = hi, !.exclusive = x] :
             e \in {{}, {0, 1}, {1, 2}, {2}}, m \in {0, 2}, hi \in {{}, {1}}, x \in {{}, {"oneOf"}}}
NumberPairs == {Composed(<<a, b, All(<<1, 2>>)>>, <<3, 1, 2>>) : a, b \in Bounds}
ValuePairs == {Composed(<<a, b, All(<<1, 2>>)>>, <<3, 1>>) : a, b \in Values}

Part == {[Obj EXCEPT !.properties = p, !.required = r, !.additional = d, !.item = IF d = "yes" THEN 1 ELSE 0] :
           p \in {NoProperties, "a" :> 1, "a" :> 2, "b" :> 1}, r \in {{}, {"a"}, {"b"}},
           d \in {"unset", "yes", "no"}}
Leaf == <<[Num EXCEPT !.maximum = {1}], [Num EXCEPT !.minimum = {1}]>>
ObjectPairs == {Composed(Leaf \o <<a, b, All(<<3, 4>>)>>, <<5>>) : a, b \in Part}
Triples3 == {Composed(Leaf \o <<a, b, [c EXCEPT !.allOf = <<3, 4>>]>>, <<5>>) :
              a, b, c \in {x \in Part : x.additional = "unset"} \union {EmptySchema}}
Lists == {[EmptySchema EXCEPT !.type = "array", !.item = i, !.items = t] :
            i \in {0, 1, 2}, t \in {<<>>, <<1>>, <<2, 1>>}}
ListPairs == {Composed(Leaf \o <<a, b, All(<<3, 4>>)>>, <<5>>) : a, b \in Lists}
Nesting == {Composed(Leaf \o <<x, [s EXCEPT !.allOf = inner], All(<<4>>), [t EXCEPT !.allOf = outer]>>, <<6, 4>>) :
              x \in {[Num EXCEPT !.multipleOf = 2], [Num EXCEPT !.maximum = {1}]}, s, t \in {EmptySchema, Num, [Num EXCEPT !.minimum = {1}]},
              inner \in {<<1>>, <<1, 2>>}, outer \in {<<4>>, <<5>>, <<3, 4>>, <<5, 3>>, <<4, 2>>}}
AllCompositions == {NumberPairs, ValuePairs, ObjectPairs, Triples3, ListPairs, Nesting}
=============================================================================
