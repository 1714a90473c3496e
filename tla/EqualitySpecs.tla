----------------------------- MODULE EqualitySpecs -----------------------------
\* Arrays with uniqueItems: which types get Equal and Hash methods and a validateUnique
\* function (gen_equality_detect.go, gen_validators_unique.go), what these methods
\* compare (gen_equality.go) and which functions the validators call
\* (_template/validators.tmpl), for the types that SchemaTypes lowers a document to.
EXTENDS SchemaTypes

VARIABLES
  specs,      \* Generator.equalitySpecs: the types with Equal and Hash
  visited,    \* the names collectNestedTypes has been through
  scanned     \* the named types collectFromType was called for
equalityVars == <<specs, visited, scanned>>

EInit == LoweringInit /\ specs = {} /\ visited = {} /\ scanned = {}

\* A struct is taken for a wrapper by the first letters of its name, and is searched for
\* a field Value, which the model's structs do not have.
WrapperName(h, t) ==
  h[t].kind = "struct" /\ Len(h[t].name) > 1 /\ Head(h[t].name) \in {"Opt", "Nil"}

NestedShallow(h, t, found) ==  \* mutant: fields are not searched
  IF h[t].kind # "struct" THEN found
  ELSE [specs |-> found.specs \union {t}, visited |-> found.visited \union {h[t].name}]
\* collectNestedTypes
RECURSIVE Nested(_, _, _)
Nested(h, t, found) ==
  LET c == h[t] IN
  CASE c.name # <<>> /\ c.name \in found.visited -> found
    [] c.kind \in {"generic", "array", "alias"} -> Nested(h, c.to, found)
    [] c.kind = "struct" /\ ~WrapperName(h, t) ->
         FoldLeft(LAMBDA f, u : Nested(h, u, f),
                  [specs |-> found.specs \union {t}, visited |-> found.visited \union {c.name}],
                  c.fields)
    [] OTHER -> found

\* needsEqualityMethod
RECURSIVE NeedsEquality(_, _)
NeedsEquality(h, t) ==
  \/ h[t].kind \in {"struct", "array", "map"}
  \/ h[t].kind = "alias" /\ NeedsEquality(h, h[t].to)

\* collectFromType: struct fields, in line, and the unique arrays among them
RECURSIVE FromType(_, _, _)
FromType(h, t, found) ==
  LET item == h[t].to IN
  CASE h[t].kind = "array" /\ h[t].unique /\ NeedsEquality(h, item) ->
         Nested(h, item, [found EXCEPT !.specs = @ \union
                            (IF h[item].name = <<>> THEN {} ELSE {item})])
    [] h[t].kind = "struct" -> FoldLeft(LAMBDA f, u : FromType(h, u, f), found, h[t].fields)
    [] OTHER -> found

\* collectEqualitySpecs goes through the declared types by name; the order is left open.
CollectFromType ==
  /\ outcome = "done"
  /\ \E n \in DOMAIN typeNames \ scanned :
       LET found == FromType(heap, typeNames[n], [specs |-> specs, visited |-> visited]) IN
       /\ specs' = found.specs /\ visited' = found.visited
       /\ scanned' = scanned \union {n}
  /\ UNCHANGED loweringVars

ENext == \/ LoweringNext /\ UNCHANGED equalityVars
         \/ CollectFromType
ESpec == EInit /\ [][ENext]_<<loweringVars, equalityVars>> /\ WF_loweringVars(LoweringNext)

-----------------------------------------------------------------------------
\* categorizeFieldType, unwrapOptional, isNestedObject
RECURSIVE Category(_, _)
Category(h, t) ==
  LET c == h[t] IN
  CASE c.kind = "struct" -> IF ~WrapperName(h, t) THEN "nested"
                            ELSE IF Head(c.name) = "Opt" THEN "optional" ELSE "nullable"
    [] c.kind = "generic" -> IF c.opt THEN "optional" ELSE "nullable"
    [] c.kind = "alias" -> Category(h, c.to)
    [] OTHER -> c.kind
Unwrapped(h, t) == IF h[t].kind = "generic" THEN h[t].to ELSE t
RECURSIVE IsNested(_, _)
IsNested(h, t) ==
  \/ h[t].kind = "struct" /\ ~WrapperName(h, t)
  \/ h[t].kind \in {"generic", "alias"} /\ IsNested(h, h[t].to)

\* writeFieldComparison: the types whose Equal a field's comparison calls
ItemEqual(h, array) ==
  LET item == Unwrapped(h, h[array].to) IN
  IF h[array].kind = "array" /\ h[item].kind = "struct" THEN {item} ELSE {}
EqualCalls(h, t) ==
  LET of == Unwrapped(h, t) IN
  CASE Category(h, t) = "nested" -> {Dealias(h, t)}
    [] Category(h, t) \in {"optional", "nullable"} /\ IsNested(h, t) -> {Dealias(h, of)}
    [] OTHER -> ItemEqual(h, of)

\* Whether a type holds a pointer, which %v and != take by its address.
Pointers(h, t) == \E u \in Written(h, {t}) : h[u].kind = "pointer"

\* Values of a field: unset, null (or nil), or one of two contents, of which the zero
\* value is one; at is where the pointers inside lead.
GoValues(h, t) ==
  LET c == h[t]
      states == {"set"} \union (IF c.opt \/ c.nil = "optional" THEN {"unset"} ELSE {})
                  \union (IF c.null \/ c.nil = "null" THEN {"null"} ELSE {}) IN
  {v \in [state : states, content : {"zero", "one"}, at : {1, 2}] :
     v.state # "set" => v.content = "zero" /\ v.at = 1}
SameJSON(x, y) == x.state = y.state /\ x.content = y.content

\* what != sees of two values of type t, and what %v prints
Compared(h, t, x) == <<x.content, IF Pointers(h, t) THEN x.at ELSE 0>>

\* writeFieldComparison
FieldEqual(h, t, x, y) ==
  LET of == Unwrapped(h, t)
      contents == IF EqualCalls(h, t) # {} THEN x.content = y.content
                  ELSE Compared(h, of, x) = Compared(h, of, y)
      target == h[t].to IN
  CASE Category(h, t) = "optional" ->
         /\ (x.state = "unset") = (y.state = "unset")
         /\ x.state # "unset" => contents
    [] Category(h, t) = "nullable" ->
         /\ (x.state = "null") = (y.state = "null")
         /\ x.state # "null" => contents
    [] Category(h, t) = "pointer" ->
         /\ (x.state = "set") = (y.state = "set")
         /\ x.state = "set" => Compared(h, target, x) = Compared(h, target, y)
    [] OTHER -> contents

FieldHashPrinted(h, t, x) ==  \* mutant: nested objects are printed as well
  IF x.state # "set" THEN <<"0", 0>> ELSE Compared(h, t, x)
\* writeFieldHash: nested objects give their own hash, everything else is printed
FieldHash(h, t, x) ==
  LET printed == IF h[t].kind = "pointer" THEN Compared(h, h[t].to, x)
                 ELSE Compared(h, Unwrapped(h, t), x) IN
  CASE Category(h, t) = "optional" /\ x.state = "unset" -> <<"0", 0>>
    [] Category(h, t) = "nullable" /\ x.state = "null" -> <<"0", 0>>
    [] Category(h, t) = "pointer" /\ x.state # "set" -> <<"0", 0>>
    [] IsNested(h, t) -> <<x.content, 0>>
    [] OTHER -> printed

\* validateUnique: items of one hash bucket are compared
Duplicates(h, t, x, y) == FieldHash(h, t, x) = FieldHash(h, t, y) /\ FieldEqual(h, t, x, y)

\* template "validate": the arrays that the Validate method of a type goes through in
\* line, up to the next type with a method of its own
RECURSIVE Inlined(_, _)
Inlined(h, t) ==
  CASE h[t].kind = "array" -> {t} \union Inlined(h, h[t].to)
    [] h[t].kind \in {"generic", "pointer"} -> Inlined(h, h[t].to)
    [] OTHER -> {}
Parts(h, t) == IF h[t].kind = "struct" THEN ToSet(h[t].fields)
               ELSE IF h[t].kind \in {"map", "alias"} THEN {h[t].to} ELSE {}
ArraysOf(t) == UNION {Inlined(heap, u) : u \in Parts(heap, t)}
UniqueCalls(t) == {heap[a].to : a \in {b \in ArraysOf(t) : heap[b].unique
                                                       /\ heap[heap[b].to].kind = "struct"}}

-----------------------------------------------------------------------------
Collected == outcome = "done" /\ scanned = DOMAIN typeNames
SpecStructs == {s \in specs : heap[s].kind = "struct"}

ETypeOK == /\ specs \subseteq DOMAIN heap /\ scanned \subseteq DOMAIN typeNames
           /\ visited \subseteq {heap[s].name : s \in specs}

\* The generated code compiles only if each Equal that an Equal method calls exists, and
\* each validateUnique that a validator calls.  The search misses a type with a name like
\* that of a wrapper, and arrays that are not themselves a struct's field: those of a
\* referenced schema, of a map and of an array, and those in a generic.
Overlooked(a) == \A s \in DeclaredStructs : \A k \in FieldsOf(s) : heap[s].fields[k] # a
MethodsExist ==
  Collected =>
    /\ \A s \in SpecStructs : \A k \in FieldsOf(s) :
         \A u \in EqualCalls(heap, heap[s].fields[k]) :
           u \in specs \/ WrapperName(heap, u) \/ WrapperName(heap, s)
    /\ \A t \in Declared : \A a \in ArraysOf(t) :
         heap[a].unique /\ heap[heap[a].to].kind = "struct" =>
           heap[a].to \in specs \/ Overlooked(a)

\* uniqueItems means what JSON Schema says: two items that agree but for one property are
\* duplicates when they agree in that one as well, and only then.  Null is not told from
\* the zero value in a property both optional and nullable, nor a missing list from an
\* empty one, and outside of nested objects pointers are compared and hashed by address.
\* What is written for a struct that is taken for a wrapper does not compile.
NullIgnored(t) == heap[t].kind = "generic" /\ heap[t].opt /\ heap[t].null
NilLikeEmpty(t) == heap[t].kind \in {"array", "alias"} /\ heap[t].nil \in {"optional", "null"}
ByAddress(t) == /\ ~IsNested(heap, t)
                /\ Pointers(heap, IF heap[t].kind = "pointer" THEN heap[t].to ELSE t)
DuplicatesFound ==
  Collected =>
    \A s \in SpecStructs : \A k \in FieldsOf(s) :
      LET t == heap[s].fields[k] IN
      \/ NullIgnored(t)
      \/ NilLikeEmpty(t)
      \/ ByAddress(t)
      \/ WrapperName(heap, t)
      \/ \A x \in GoValues(heap, t), y \in GoValues(heap, t) :
           Duplicates(heap, t, x, y) <=> SameJSON(x, y)

\* What gen_equality.go writes over each Hash method: equal objects must produce equal
\* hashes.  Violated, as hashes print what Equal does not compare (see DuplicatesFound).
EqualHaveEqualHashes ==
  Collected =>
    \A s \in SpecStructs : \A k \in FieldsOf(s) :
      LET t == heap[s].fields[k] IN
      \A x \in GoValues(heap, t), y \in GoValues(heap, t) :
        FieldEqual(heap, t, x, y) => FieldHash(heap, t, x) = FieldHash(heap, t, y)
=============================================================================
