------------------------------ MODULE SchemaTypes ------------------------------
\* Lowering of JSON schemas to Go types: package internal/lowering (generate,
\* boxType, checkStructRecursions, the type storage) over the types of package
\* internal/ir.  A document is a set of named schemas and the message payloads the
\* engine is asked for, one after the other.  Types are cells of a heap, as they are
\* shared and changed in place through pointers in the code.
\*
\* A name is a sequence of words, <<"Opt", "Tag">> for OptTag.  Out of the model: sums
\* (see SumTypes), allOf (see AllOfMerge), enums, tuples, x-ogen-name, defaults.
EXTENDS Naturals, TLC, SequencesExt

CONSTANTS
  Documents,   \* the documents to lower
  DepthLimit   \* EngineOptions.SchemaDepthLimit: 1000 by default

\* A use of a schema, in a property or as an item, is a record [to, as, required, union]:
\* the schema itself or an inline array of it (as = "list", or "set" with uniqueItems);
\* union says that it is written as oneOf of null and the schema.
Sound(doc) ==
  /\ \A n \in DOMAIN doc.schemas : doc.schemas[n].kind \in
       {"object", "list", "set", "map", "primitive"}
  /\ \A i \in DOMAIN doc.payloads :
       /\ doc.payloads[i] \in DOMAIN doc.schemas
       /\ doc.schemas[doc.payloads[i]].kind # "primitive"
       /\ doc.schemas[doc.payloads[i]].nullable => doc.schemas[doc.payloads[i]].ref
ASSUME DocumentsAssumption == DepthLimit \in Nat \ {0} /\ \A doc \in Documents : Sound(doc)

VARIABLES
  document,    \* the document being lowered, with the payloads still to generate
  heap,        \* every ir.Type made so far
  globalRefs,  \* tstorage.refs: the type of a $ref'd schema, from earlier Generate calls
  typeNames,   \* tstorage.types: the declared types
  localRefs,   \* schemaGen.localRefs of the Generate call under way
  side,        \* schemaGen.side
  frames,      \* the calls of generate2 under way, innermost last
  root,        \* the type Generate returns, 0 while there is none
  checked,     \* Engine.checkedRecursion
  outcome,     \* "" while running, then "done", "refused: ...", "panic"
  culprit      \* the struct and the number of the field that a refusal names
loweringVars == <<document, heap, globalRefs, typeNames, localRefs, side, frames, root,
                  checked, outcome, culprit>>

Empty == [n \in {} |-> 0]

\* ir.Type, as far as the kinds in the model use it
Cell == [kind |-> "primitive", name |-> <<>>, to |-> 0, fields |-> <<>>, nil |-> "",
         opt |-> FALSE, null |-> FALSE, unique |-> FALSE]
Struct(name) == [Cell EXCEPT !.kind = "struct", !.name = name]
MapOf(name) == [Cell EXCEPT !.kind = "map", !.name = name]
Array(item, unique) ==
  [Cell EXCEPT !.kind = "array", !.to = item, !.nil = "invalid", !.unique = unique]
Alias(name, of) == [Cell EXCEPT !.kind = "alias", !.name = name, !.to = of]
Pointer(of, sem) == [Cell EXCEPT !.kind = "pointer", !.to = of, !.nil = sem]

\* ir.GenericVariant.Name and ir.Type.NamePostfix
RECURSIVE Postfix(_, _)
Postfix(h, t) ==
  CASE h[t].kind = "primitive" -> <<"String">>
    [] h[t].kind = "array" -> Postfix(h, h[t].to) \o <<"Array">>
    [] h[t].kind = "pointer" -> Postfix(h, h[t].to) \o <<"Pointer">>
    [] OTHER -> h[t].name
Generic(postfix, of, opt, null) ==
  [Cell EXCEPT !.kind = "generic", !.to = of, !.opt = opt, !.null = null,
     !.name = (IF opt THEN <<"Opt">> ELSE <<>>) \o (IF null THEN <<"Nil">> ELSE <<>>)
                \o postfix]

Dealias(h, t) == IF h[t].kind = "alias" THEN h[t].to ELSE t

\* A struct without fields, so far, is no generic: what a schema under construction is
\* until its first property is done.
CanGeneric(h, t) ==
  LET d == Dealias(h, t) IN
  /\ h[d].kind \in {"primitive", "struct", "map"}
  /\ h[d].kind = "struct" => h[d].fields # <<>>

\* boxType: the heap afterwards and the type it returns
Put(h, cell) == [heap |-> Append(h, cell), type |-> Len(h) + 1]
Mark(h, t, sem) ==
  [heap |-> [c \in DOMAIN h |-> IF c \in {t, Dealias(h, t)} THEN [h[c] EXCEPT !.nil = sem]
                                ELSE h[c]],
   type |-> t]
BoxOptional(h, t, opt, null) ==  \* mutant: optional and nullable becomes an Opt
  IF ~opt /\ ~null THEN [heap |-> h, type |-> t]
  ELSE Put(h, Generic(Postfix(h, t), t, opt, null /\ ~opt))
Box(h, t, opt, null) ==
  LET array == h[Dealias(h, t)].kind = "array"
      sem == IF opt THEN "optional" ELSE "null" IN
  CASE ~opt /\ ~null -> [heap |-> h, type |-> t]
    [] array /\ opt # null -> Mark(h, t, sem)
    [] array \/ CanGeneric(h, t) -> Put(h, Generic(Postfix(h, t), t, opt, null))
    [] opt # null -> Put(h, Pointer(t, sem))
    [] OTHER -> LET p == Put(h, Pointer(t, "null"))
                IN Put(p.heap, Generic(Postfix(h, t), p.type, TRUE, FALSE))

-----------------------------------------------------------------------------
SchemaOf(n) == document.schemas[n]
Top == frames[Len(frames)]
\* What the innermost call of generate2 needs next: its next property, or its item.
Pending == LET s == SchemaOf(Top.schema) IN
  IF s.kind = "object" THEN SubSeq(s.fields, Len(heap[Top.cell].fields) + 1, Len(s.fields))
  ELSE IF heap[Top.cell].to = 0 THEN <<s.item>> ELSE <<>>
Need == Head(Pending)

Known(n) == n \in DOMAIN globalRefs \union DOMAIN localRefs
LookupRef(n) == IF n \in DOMAIN globalRefs THEN globalRefs[n] ELSE localRefs[n]

LoweringInit ==
  /\ document \in Documents
  /\ heap = <<>> /\ side = <<>> /\ frames = <<>>
  /\ globalRefs = Empty /\ typeNames = Empty /\ localRefs = Empty
  /\ root = 0 /\ checked = {} /\ outcome = "" /\ culprit = <<>>

Stop(why) ==
  /\ outcome' = why
  /\ UNCHANGED <<document, heap, globalRefs, typeNames, localRefs, side, frames, root,
                 checked, culprit>>

\* generate2 of an object, array or map: the type is registered before its parts.
\* regtype puts an alias around a referenced array or primitive, and a type that is
\* not referenced into side.
Register(n, h) ==
  LET s == SchemaOf(n)
      cell == Len(h) + 1
      made == CASE s.kind = "object" -> Append(h, Struct(n))
                [] s.kind = "map" -> Append(h, MapOf(n))
                [] s.kind = "primitive" -> Append(h, Cell)
                [] OTHER -> Append(h, Array(0, s.kind = "set"))
      aliased == s.ref /\ s.kind \notin {"object", "map"}
      t == IF aliased THEN cell + 1 ELSE cell IN
  [heap |-> IF aliased THEN Append(made, Alias(n, cell)) ELSE made,
   cell |-> cell, type |-> t,
   refs |-> IF s.ref THEN (n :> t) ELSE Empty,
   side |-> IF ~s.ref /\ s.kind \in {"object", "map"} THEN <<t>> ELSE <<>>,
   open |-> s.kind # "primitive"]

Declare(n) ==
  LET r == Register(n, heap) IN
  /\ heap' = r.heap
  /\ localRefs' = r.refs @@ localRefs
  /\ side' = side \o r.side
  /\ frames' = IF r.open THEN Append(frames, [cell |-> r.cell, schema |-> n]) ELSE frames

\* The end of generate for the payload: its type is boxed like any other.
Payload(t) ==
  LET boxed == Box(heap, t, FALSE, SchemaOf(Head(document.payloads)).nullable) IN
  /\ heap' = boxed.heap /\ root' = boxed.type
  /\ side' = IF boxed.heap[boxed.type].kind = "generic" THEN Append(side, boxed.type) ELSE side

\* Generate: the payload of the next message.
GeneratePayload ==
  /\ outcome = "" /\ frames = <<>> /\ root = 0 /\ document.payloads # <<>>
  /\ LET n == Head(document.payloads) IN
     IF SchemaOf(n).ref /\ Known(n)
     THEN Payload(LookupRef(n)) /\ UNCHANGED <<localRefs, frames>>
     ELSE Declare(n) /\ UNCHANGED root
  /\ UNCHANGED <<document, globalRefs, typeNames, checked, outcome, culprit>>

\* generate of a property or an item whose $ref was not met yet.
GenerateReferenced ==
  /\ outcome = "" /\ frames # <<>> /\ Pending # <<>>
  /\ SchemaOf(Need.to).ref /\ ~Known(Need.to)
  /\ IF Len(frames) >= DepthLimit THEN Stop("refused: depth limit")
     ELSE /\ Declare(Need.to)
          /\ UNCHANGED <<document, globalRefs, typeNames, root, checked, outcome, culprit>>

\* The type of a use: the schema's own, or an inline array of it.
Base(use) ==
  LET one == IF SchemaOf(use.to).ref THEN [heap |-> heap, type |-> LookupRef(use.to)]
             ELSE Put(heap, Cell)
      item == Box(one.heap, one.type, FALSE, SchemaOf(use.to).nullable) IN
  IF use.as = "itself" THEN one ELSE Put(item.heap, Array(item.type, use.as = "set"))
Nullable(use) == use.union \/ (use.as = "itself" /\ SchemaOf(use.to).nullable)

\* generate of a property or item whose type is at hand: it is boxed and becomes a
\* field of the struct, or the item of the array or map.
AddPart ==
  /\ outcome = "" /\ frames # <<>> /\ Pending # <<>>
  /\ SchemaOf(Need.to).ref => Known(Need.to)
  /\ LET base == Base(Need)
         object == SchemaOf(Top.schema).kind = "object"
         boxed == Box(base.heap, base.type, object /\ ~Need.required, Nullable(Need))
         generics == SelectSeq([i \in 1..(Len(boxed.heap) - Len(heap)) |-> Len(heap) + i],
                               LAMBDA c : boxed.heap[c].kind = "generic") IN
     /\ heap' = [boxed.heap EXCEPT ![Top.cell] =
                   IF object THEN [@ EXCEPT !.fields = Append(@, boxed.type)]
                   ELSE [@ EXCEPT !.to = boxed.type]]
     /\ side' = side \o generics
  /\ UNCHANGED <<document, globalRefs, typeNames, localRefs, frames, root, checked,
                 outcome, culprit>>

EndType ==
  /\ outcome = "" /\ frames # <<>> /\ Pending = <<>>
  /\ frames' = Front(frames)
  /\ IF Len(frames) = 1
     THEN Payload(IF SchemaOf(Top.schema).ref THEN LookupRef(Top.schema) ELSE Top.cell)
     ELSE UNCHANGED <<heap, side, root>>
  /\ UNCHANGED <<document, globalRefs, typeNames, localRefs, checked, outcome, culprit>>

SaveInlinedOver ==  \* mutant: a later type takes the name
  /\ outcome = "" /\ frames = <<>> /\ root # 0 /\ side # <<>>
  /\ typeNames' = (heap[Head(side)].name :> Head(side)) @@ typeNames
  /\ side' = Tail(side)
  /\ UNCHANGED <<document, heap, globalRefs, localRefs, frames, root, checked, outcome,
                 culprit>>
\* saveSchemaTypes.  Two generics of one name may replace one another; the comparison
\* that finds this out takes the GenericOf of the other type, which only a generic has.
SaveInlined ==
  /\ outcome = "" /\ frames = <<>> /\ root # 0 /\ side # <<>>
  /\ LET t == Head(side)
         n == heap[t].name
         taken == n \in DOMAIN typeNames IN
     \/ /\ taken => heap[t].kind = "generic" /\ heap[typeNames[n]].kind = "generic"
        /\ typeNames' = (n :> t) @@ typeNames
        /\ side' = Tail(side)
        /\ UNCHANGED <<document, heap, globalRefs, localRefs, frames, root, checked,
                       outcome, culprit>>
     \/ /\ taken /\ heap[t].kind # "generic"
        /\ Stop("refused: name conflict")
     \/ /\ taken /\ heap[t].kind = "generic" /\ heap[typeNames[n]].kind # "generic"
        /\ Stop("panic")

\* The references of this call that were not saved yet, in the order of a Go map.
Unsaved == DOMAIN localRefs \ DOMAIN globalRefs
SaveReferenced ==
  /\ outcome = "" /\ frames = <<>> /\ root # 0 /\ side = <<>>
  /\ \E n \in Unsaved :
       IF n \in DOMAIN typeNames THEN Stop("refused: name conflict")
       ELSE /\ globalRefs' = (n :> localRefs[n]) @@ globalRefs
            /\ typeNames' = (n :> localRefs[n]) @@ typeNames
            /\ UNCHANGED <<document, heap, localRefs, side, frames, root, checked,
                           outcome, culprit>>

-----------------------------------------------------------------------------
\* ir.Type.RecursiveTo: whether a value of type t holds an s in line; a cycle on the way
\* counts as well, whether or not s is part of it.
InLine(h, t) ==
  CASE h[t].kind \in {"generic", "alias"} -> {h[t].to}
    [] h[t].kind = "struct" -> ToSet(h[t].fields)
    [] OTHER -> {}
RECURSIVE RecursiveTo(_, _, _, _)
RecursiveTo(h, s, t, path) ==
  /\ h[t].kind \in {"generic", "alias", "struct"}
  /\ \/ t = s
     \/ t \in path
     \/ \E u \in InLine(h, t) : RecursiveTo(h, s, u, path \union {t})

\* checkStructRecursions, one field: the schema of the property says whether it is
\* nullable, which a property written as a union is not itself.
Unboxed(h, t) == IF h[t].kind = "generic" THEN h[t].to ELSE t
SpecNullable(use) == ~use.union /\ Nullable(use)
RewriteField(h, s, k) ==
  LET t == h[s].fields[k]
      use == SchemaOf(h[s].name).fields[k]
      opt == ~use.required
      null == SpecNullable(use)
      of == Unboxed(h, t)
      again == Box(h, of, TRUE, FALSE)
      made == IF opt /\ null THEN Put(again.heap, Pointer(again.type, "null"))
              ELSE Put(h, Pointer(of, IF opt THEN "optional" ELSE "null")) IN
  IF ~RecursiveTo(h, s, t, {}) THEN h
  ELSE [made.heap EXCEPT ![s].fields[k] = made.type]
Infinite(h, s, k) ==
  LET use == SchemaOf(h[s].name).fields[k] IN
  RecursiveTo(h, s, h[s].fields[k], {}) /\ use.required /\ ~SpecNullable(use)
RewriteUpTo(h, s, k) == FoldLeft(LAMBDA g, i : RewriteField(g, s, i), h, [i \in 1..k |-> i])

\* The end of Generate: the returned type is checked first, then those of localRefs in
\* the order of a Go map, each once.
Unchecked == {root} \union Range(localRefs)
StructsAgain(S) == {t \in S : heap[t].kind = "struct"}  \* mutant: checked is not asked
Structs(S) == {t \in S : heap[t].kind = "struct" /\ t \notin checked}
CandidatesRoot == Structs({root})  \* mutant: only the type that is returned is checked
Candidates == IF Structs({root}) # {} THEN {root} ELSE Structs(Unchecked)
Saved == outcome = "" /\ frames = <<>> /\ root # 0 /\ side = <<>> /\ Unsaved = {}

CheckStruct ==
  /\ Saved
  /\ \E s \in Candidates :
       LET n == Len(heap[s].fields)
           bad == {k \in 1..n : Infinite(RewriteUpTo(heap, s, k - 1), s, k)} IN
       IF bad # {}
       THEN LET k == CHOOSE k \in bad : \A j \in bad : k <= j IN
            /\ outcome' = "refused: infinite recursion"
            /\ heap' = RewriteUpTo(heap, s, k - 1)
            /\ culprit' = <<s, k>>
            /\ UNCHANGED <<document, globalRefs, typeNames, localRefs, side, frames, root,
                           checked>>
       ELSE /\ heap' = RewriteUpTo(heap, s, n)
            /\ checked' = checked \union {s}
            /\ UNCHANGED <<document, globalRefs, typeNames, localRefs, side, frames, root,
                           outcome, culprit>>

EndGenerate ==
  /\ Saved /\ Candidates = {}
  /\ document' = [document EXCEPT !.payloads = Tail(@)]
  /\ localRefs' = Empty /\ root' = 0
  /\ outcome' = IF Len(document.payloads) = 1 THEN "done" ELSE ""
  /\ UNCHANGED <<heap, globalRefs, typeNames, side, frames, checked, culprit>>

LoweringNext ==
  \/ GeneratePayload \/ GenerateReferenced \/ AddPart \/ EndType
  \/ SaveInlined \/ SaveReferenced \/ CheckStruct \/ EndGenerate
LoweringSpec == LoweringInit /\ [][LoweringNext]_loweringVars /\ WF_loweringVars(LoweringNext)

-----------------------------------------------------------------------------
\* What the generated codec does with the three states of a property on the wire:
\* absent, null or a value.  A Go value is "error" when decoding fails, "nil" for a nil
\* slice, map or pointer, "unset" and "null" in a generic, "value" otherwise.

\* templates json/dec and json/encoders_generic
RECURSIVE DecodeJSON(_, _, _)
DecodeJSON(h, t, w) ==
  LET c == h[t]
      inner == DecodeJSON(h, c.to, w) IN
  CASE w = "value" -> "value"
    [] c.kind = "array" /\ c.nil = "null" -> "nil"
    [] c.kind = "generic" /\ c.null -> "null"
    [] c.kind = "alias" -> inner
    [] c.kind = "pointer" /\ inner # "error" -> "value"
    [] c.kind = "generic" /\ h[c.to].kind \notin {"array", "pointer"} -> inner
    [] OTHER -> "error"

\* the zero value a property that is absent keeps
ZeroValue(h, t) ==
  LET d == h[Dealias(h, t)] IN
  IF d.kind = "generic" /\ d.opt THEN "unset"
  ELSE IF d.kind \in {"array", "pointer", "map"} THEN "nil" ELSE "value"

\* templates json/enc_value, enc_generic, enc_array and encoders_alias
NilOnWire(sem) == CASE sem = "null" -> "null" [] sem = "optional" -> "absent" [] OTHER -> "value"
EncodeJSON(h, t, v) ==
  LET c == h[t]
      aliased == h[c.to].nil IN
  CASE c.kind = "generic" /\ v = "unset" -> "absent"
    [] c.kind = "generic" /\ v = "null" -> "null"
    [] c.kind = "alias" /\ v = "nil" /\ c.nil = "" -> IF aliased = "null" THEN "null" ELSE "value"
    [] v = "nil" -> NilOnWire(c.nil)
    [] OTHER -> "value"

\* The struct's Decode: an absent required property is refused, any other keeps its zero
\* value; then Encode writes the struct again.
Through(h, s, k, w) ==
  LET t == h[s].fields[k]
      v == IF w = "absent" THEN ZeroValue(h, t) ELSE DecodeJSON(h, t, w) IN
  IF (w = "absent" /\ SchemaOf(h[s].name).fields[k].required) \/ v = "error" THEN "error"
  ELSE EncodeJSON(h, t, v)
Allowed(use, w) ==
  CASE w = "absent" -> ~use.required
    [] w = "null" -> Nullable(use)
    [] OTHER -> TRUE
Expected(use, w) == IF Allowed(use, w) THEN w ELSE "error"

-----------------------------------------------------------------------------
Done == outcome = "done"
Declared == Range(typeNames)
DeclaredStructs == {s \in Declared : heap[s].kind = "struct"}
FieldsOf(s) == DOMAIN heap[s].fields

LoweringTypeOK ==
  /\ outcome \in {"", "done", "panic", "refused: name conflict", "refused: depth limit",
                  "refused: infinite recursion"}
  /\ \A t \in DOMAIN heap :
       /\ heap[t].to \in 0..Len(heap) /\ ToSet(heap[t].fields) \subseteq DOMAIN heap
       /\ heap[t].kind \in {"primitive", "struct", "map", "array", "alias", "generic",
                            "pointer"}
       /\ heap[t].nil \in {"", "invalid", "optional", "null"}
  /\ Declared \union Range(globalRefs) \union Range(localRefs) \union ToSet(side)
       \union checked \subseteq DOMAIN heap
  /\ root \in 0..Len(heap)
  /\ \A i \in DOMAIN frames : frames[i].cell \in DOMAIN heap

\* Go refuses a type that contains itself in line.  Whatever the references, the order
\* in which they were met and in which the structs were checked, the accepted types are
\* finite: schema_gen.go leaves the recursion to checkStructRecursions.
RECURSIVE Inside(_, _)
Inside(h, S) ==
  LET T == S \union UNION {InLine(h, t) : t \in S} IN IF T = S THEN S ELSE Inside(h, T)
FiniteTypes == Done => \A s \in DeclaredStructs : s \notin Inside(heap, InLine(heap, s))

\* The engine refuses or lowers every document: references that lead in a circle end at
\* the type that is registered already, and never at the depth limit (engine.go,
\* handleSchemaDepth).
LoweringEnds == <>(outcome \notin {"", "refused: depth limit"})

\* A property goes through the generated codec as its schema says: absent, null and
\* value come out as they went in, and what the schema forbids is refused.  The code
\* keeps this but for two shapes, which the exceptions name: a pointer that should take
\* null (json/dec_pointer never looks for it), and the type of a referenced array, whose
\* NilSemantic each boxed use sets for all uses (generics.go, boxType).
AllUses == UNION {ToSet(SchemaOf(heap[s].name).fields) : s \in DeclaredStructs}
Presence(use) == <<use.required, Nullable(use)>>
LosesNull(use, t) ==
  /\ Nullable(use)
  /\ \/ heap[t].kind = "pointer"
     \/ heap[t].kind = "generic" /\ heap[heap[t].to].kind = "pointer"
SharedNil(use, t) ==
  /\ heap[t].kind = "alias" /\ heap[heap[t].to].kind = "array"
  /\ \E other \in AllUses : other.to = use.to /\ Presence(other) # Presence(use)
PresenceKept ==
  Done => \A s \in DeclaredStructs : \A k \in FieldsOf(s), w \in {"absent", "null", "value"} :
            LET use == SchemaOf(heap[s].name).fields[k]
                t == heap[s].fields[k] IN
            \/ Through(heap, s, k, w) = Expected(use, w)
            \/ w # "value" /\ (LosesNull(use, t) \/ SharedNil(use, t))

\* Types are written by name: every named type that a declared type mentions is declared,
\* as the same type.  The exceptions are the generic that checkStructRecursions makes for
\* a property both optional and nullable, which nothing saves, and the generic of a
\* pointer, which boxType names after the type pointed to.
Named(h, t) == h[t].kind \in {"struct", "map", "alias", "generic"}
Mentions(h, t) == InLine(h, t) \union (IF h[t].to = 0 THEN {} ELSE {h[t].to})
RECURSIVE Written(_, _)
Written(h, S) ==
  LET T == S \union UNION {Mentions(h, t) : t \in S} IN IF T = S THEN S ELSE Written(h, T)
SameType(h, t, u) ==
  t = u \/ /\ h[t].kind = "generic" /\ h[u].kind = "generic"
           /\ h[t].opt = h[u].opt /\ h[t].null = h[u].null
           /\ Postfix(h, h[t].to) = Postfix(h, h[u].to)
Unsavable(h, t) ==
  \/ h[t].kind = "generic" /\ h[h[t].to].kind = "pointer"
  \/ \E p \in DOMAIN h : h[p].kind = "pointer" /\ h[p].to = t /\ h[t].kind = "generic"
TypesDeclared ==
  Done => \A t \in Written(heap, Declared) :
            \/ ~Named(heap, t)
            \/ heap[t].name \in DOMAIN typeNames /\ SameType(heap, t, typeNames[heap[t].name])
            \/ \E u \in DOMAIN heap : heap[u].name = heap[t].name /\ Unsavable(heap, u)

\* What the error says: the field it names makes its struct infinite, by required
\* properties that lead back to the struct.  RecursiveTo finds any cycle, also one that
\* the struct is not part of, so this is violated.
RequiredUses(s) == {k \in FieldsOf(s) : LET use == SchemaOf(heap[s].name).fields[k] IN
                      use.as = "itself" /\ use.required /\ ~Nullable(use)}
RECURSIVE Forced(_)
Forced(S) ==
  LET T == S \union UNION {{Dealias(heap, heap[s].fields[k]) : k \in RequiredUses(s)} :
                           s \in {t \in S : heap[t].kind = "struct"}}
  IN IF T = S THEN S ELSE Forced(T)
RefusedOnlyIfInfinite ==
  culprit # <<>> => culprit[1] \in Forced({heap[culprit[1]].fields[culprit[2]]})
=============================================================================
