------------------------------ MODULE AllOfMerge ------------------------------
\* allOf: the schemas it lists and the keywords beside it are merged into one schema
\* before a type is generated (schema_gen_sum.go: flattenAllOfSchema, mergeNSchemes,
\* mergeSchemes, mergeProperties, mergeEnums).
\*
\* Schemas are cells of a heap, because references are pointers to one *jsonschema.Schema
\* that every user of a component shares; cell 0 is nil.  Of the keywords that are merged
\* alike one is kept: maximum and minimum stand for the bounds on lengths and numbers of
\* items and properties too, type for format, default, const and pattern (equal or
\* refused), exclusive for keywords that one schema only may have.
EXTENDS Naturals, FiniteSetsExt, SequencesExt, TLC

CONSTANT Compositions
\* Families of compositions: schemas, and those a type is generated for, in order.
ASSUME CompositionsAssumption ==
  \A family \in Compositions : \A c \in family : ToSet(c.uses) \subseteq DOMAIN c.schemas

VARIABLES
  composition,  \* the schemas of the document
  heap,         \* the same cells as the generator has left them, and those it has made
  uses,         \* the schemas still to lower
  meaning       \* what the types made so far accept
allOfVars == <<composition, heap, uses, meaning>>

NoProperties == [f \in {} |-> 0]
EmptySchema ==
  [type |-> "", nullable |-> FALSE, enum |-> {}, exclusive |-> {},
   maximum |-> {}, exclusiveMaximum |-> FALSE, minimum |-> {}, exclusiveMinimum |-> FALSE,
   multipleOf |-> 0, item |-> 0, items |-> <<>>,
   properties |-> NoProperties, required |-> {}, additional |-> "unset", allOf |-> <<>>]

HasSiblingConstraintsButRequired(s) ==  \* mutant
  [s EXCEPT !.type = "", !.nullable = FALSE, !.allOf = <<>>, !.required = {}] # EmptySchema
\* hasSiblingConstraints, and containsValidators of mergeSchemes
HasSiblingConstraints(s) ==
  [s EXCEPT !.type = "", !.nullable = FALSE, !.allOf = <<>>] # EmptySchema
ContainsValidators(s) == s # EmptySchema

-----------------------------------------------------------------------------
Result(h, at) == [heap |-> h, at |-> at, ok |-> TRUE]
Refused(h) == [heap |-> h, at |-> 0, ok |-> FALSE]
New(h, s) == Result(Append(h, s), Len(h) + 1)
ShallowCopy(h, at) == New(h, h[at])
Then(r, Op(_)) == IF r.ok THEN Op(r) ELSE r

\* the errors before s1 is written to, and those after
Mismatch(s1, s2) ==
  \/ "" \notin {s1.type, s2.type} /\ s1.type # s2.type
  \/ {} \notin {s1.enum, s2.enum} /\ s1.enum \cap s2.enum = {}
  \/ s1.exclusive \cap s2.exclusive # {}
ItemsDiffer(s1, s2) == Len(s1.items) # Len(s2.items)
AdditionalDiffers(s1, s2) ==
  "unset" \notin {s1.additional, s2.additional} /\ s1.additional # s2.additional
LateMismatch(s1, s2) ==
  s1.multipleOf # s2.multipleOf \/ ItemsDiffer(s1, s2) \/ AdditionalDiffers(s1, s2)

Either(x, y, unset) == IF x = unset THEN y ELSE x
MinNum(m, n) == IF m = {} THEN n ELSE IF n = {} THEN m ELSE {Min(m \union n)}
MaxNum(m, n) == IF m = {} THEN n ELSE IF n = {} THEN m ELSE {Max(m \union n)}
MergeEnums(s1, s2) ==
  IF {} \in {s1.enum, s2.enum} THEN s1.enum \union s2.enum ELSE s1.enum \cap s2.enum

\* A tuple (items) does not get into the merged schema, and of required only what names a
\* property there is: it is kept with the property.
MergedKeywords(s1, s2) ==
  [EmptySchema EXCEPT
     !.type = Either(s1.type, s2.type, ""), !.nullable = s1.nullable \/ s2.nullable,
     !.enum = MergeEnums(s1, s2), !.exclusive = s1.exclusive \union s2.exclusive,
     !.maximum = MinNum(s1.maximum, s2.maximum), !.minimum = MaxNum(s1.minimum, s2.minimum),
     !.exclusiveMinimum = s1.exclusiveMinimum \/ s2.exclusiveMinimum,
     !.multipleOf = s1.multipleOf,
     !.additional = Either(s1.additional, s2.additional, "unset")]
RequiredIn(s1, s2) ==
  (s1.required \union s2.required) \cap (DOMAIN s1.properties \union DOMAIN s2.properties)

RECURSIVE MergeSchemes(_, _, _)
MergeNSchemes(h, ids) ==
  IF Len(ids) = 1 THEN ShallowCopy(h, ids[1])
  ELSE FoldLeft(LAMBDA r, id : IF r.ok THEN MergeSchemes(r.heap, r.at, id) ELSE r,
                Result(h, ids[1]), Tail(ids))
Resolve(h, at) == IF h[at].allOf = <<>> THEN Result(h, at) ELSE MergeNSchemes(h, h[at].allOf)
MergePresent(h, a, b) ==
  IF 0 \in {a, b} THEN Result(h, a + b) ELSE MergeSchemes(h, a, b)

\* merges pair by pair: the result is at a function of their keys
MergeEach(h, pairs) ==
  FoldLeft(LAMBDA r, key :
             IF ~r.ok THEN r
             ELSE LET m == MergePresent(r.heap, pairs[key][1], pairs[key][2])
                  IN [m EXCEPT !.at = (key :> m.at) @@ r.at],
           [Result(h, 0) EXCEPT !.at = NoProperties], SetToSeq(DOMAIN pairs))
\* of properties of the same name the second comes first
Conflicting(s1, s2) ==
  LET at(s, f) == IF f \in DOMAIN s.properties THEN s.properties[f] ELSE 0
  IN [f \in DOMAIN s1.properties \union DOMAIN s2.properties |-> <<at(s2, f), at(s1, f)>>]
ItemPairs(s1, s2) == [i \in DOMAIN s1.items |-> <<s1.items[i], s2.items[i]>>]

\* the schemas that keywords hold: tuples, then items and additionalProperties, then
\* properties
MergeHeld(h, s1, s2) ==
  Then(MergeEach(h, ItemPairs(s1, s2)), LAMBDA items :
  Then(MergePresent(items.heap, s1.item, s2.item), LAMBDA item :
  Then(MergeEach(item.heap, Conflicting(s1, s2)), LAMBDA props :
    New(props.heap, [MergedKeywords(s1, s2) EXCEPT
                       !.item = item.at, !.properties = props.at, !.required = RequiredIn(s1, s2)]))))

\* s1, which may be a component, is made exclusive, and the merged schema is not
MarkExclusive(h, a, s2) == [h EXCEPT ![a].exclusiveMaximum = @ \/ s2.exclusiveMaximum]
MergeResolved(h, a, b) ==
  LET s1 == h[a]
      s2 == h[b]
  IN IF ContainsValidators(s1) # ContainsValidators(s2)
       THEN ShallowCopy(h, IF ContainsValidators(s1) THEN a ELSE b)
     ELSE IF Mismatch(s1, s2) THEN Refused(h)
     ELSE IF LateMismatch(s1, s2) THEN Refused(MarkExclusive(h, a, s2))
     ELSE MergeHeld(MarkExclusive(h, a, s2), s1, s2)

MergeSchemes(h, a, b) ==
  Then(Resolve(h, a), LAMBDA r1 :
  Then(Resolve(r1.heap, b), LAMBDA r2 : MergeResolved(r2.heap, r1.at, r2.at)))

-----------------------------------------------------------------------------
\* What JSON Schema says: the numbers, the objects with properties a and b, the arrays
\* and whether null is accepted; a schema with allOf accepts what all of them do.
Numbers == 0..2
Objects == UNION {[S -> {0, 2}] : S \in SUBSET {"a", "b"}}
Arrays == {<<>>, <<0>>, <<2>>, <<0, 2>>, <<2, 0>>}
HasType(s, t) == s.type \in {"", t}

InBounds(s, n) ==
  /\ \A m \in s.maximum : n < m \/ (n = m /\ ~s.exclusiveMaximum)
  /\ \A m \in s.minimum : n > m \/ (n = m /\ ~s.exclusiveMinimum)
  /\ s.multipleOf # 0 => n % s.multipleOf = 0
  /\ s.enum # {} => n \in s.enum

RECURSIVE Meaning(_, _)
Takes(h, at, n) == at # 0 => n \in Meaning(h, at).numbers
OwnMeaning(h, s) ==
  [null |-> s.nullable \/ s.type = "",
   numbers |-> {n \in Numbers : HasType(s, "number") /\ InBounds(s, n)},
   objects |-> {o \in Objects :
     /\ HasType(s, "object") /\ s.required \subseteq DOMAIN o
     /\ \A f \in DOMAIN o :
          IF f \in DOMAIN s.properties THEN Takes(h, s.properties[f], o[f])
          ELSE s.additional # "no" /\ (s.additional = "yes" => Takes(h, s.item, o[f]))},
   arrays |-> {x \in Arrays :
     /\ HasType(s, "array")
     /\ IF s.items # <<>>
        THEN Len(x) = Len(s.items) /\ \A i \in DOMAIN x : Takes(h, s.items[i], x[i])
        ELSE s.additional = "unset" => \A i \in DOMAIN x : Takes(h, s.item, x[i])}]
Meaning(h, at) ==
  FoldLeft(LAMBDA m, id :
             LET n == Meaning(h, id) IN
             [null |-> m.null /\ n.null, numbers |-> m.numbers \cap n.numbers,
              objects |-> m.objects \cap n.objects, arrays |-> m.arrays \cap n.arrays],
           OwnMeaning(h, h[at]), h[at].allOf)

-----------------------------------------------------------------------------
AllOfInit ==
  /\ (\E family \in Compositions : composition \in family) /\ heap = composition.schemas /\ meaning = <<>>
  /\ uses = [i \in DOMAIN composition.uses |->
               [of |-> composition.uses[i], at |-> composition.uses[i]]]

Use == Head(uses)
Schema == heap[Use.at]
Parent == [Schema EXCEPT !.allOf = <<>>]
Lowering == uses # <<>> /\ UNCHANGED composition
Becomes(s) == [s EXCEPT !.nullable = @ \/ Schema.nullable, !.type = Either(@, Schema.type, "")]

\* a type accepts what its schema says at that time
Generate ==
  /\ Lowering /\ Schema.allOf = <<>>
  /\ meaning' = (Use.of :> Meaning(heap, Use.at)) @@ meaning
  /\ uses' = Tail(uses) /\ UNCHANGED heap

\* the only schema of an allOf without keywords of its own is copied, not merged
KeepOnlyChild ==
  /\ Lowering /\ Len(Schema.allOf) = 1 /\ ~HasSiblingConstraints(Parent)
  /\ heap' = Append(heap, Becomes(heap[Schema.allOf[1]]))
  /\ uses' = [uses EXCEPT ![1].at = Len(heap')]
  /\ UNCHANGED meaning

FlattenAllOf ==
  /\ Lowering /\ Schema.allOf # <<>>
  /\ Len(Schema.allOf) > 1 \/ HasSiblingConstraints(Parent)
  /\ LET own == New(heap, Parent)
         r == IF HasSiblingConstraints(Parent)
              THEN MergeNSchemes(own.heap, Append(Schema.allOf, own.at))
              ELSE MergeNSchemes(heap, Schema.allOf) IN
     IF r.ok THEN /\ heap' = [r.heap EXCEPT ![r.at] = Becomes(@)]
                  /\ uses' = [uses EXCEPT ![1].at = r.at]
     ELSE heap' = r.heap /\ uses' = Tail(uses)
  /\ UNCHANGED meaning

AllOfNext == Generate \/ KeepOnlyChild \/ FlattenAllOf
AllOfSpec == AllOfInit /\ [][AllOfNext]_allOfVars

-----------------------------------------------------------------------------
\* A type made for an allOf accepts what all of its schemas accept, in whatever order
\* they are written and whatever was generated before ("allOf is a commutative AND"); a
\* component that other schemas refer to means what it says.  It holds unless
\*  - a part excludes its maximum, which is lost, and kept for the first part, or excludes
\*    a minimum that another part raises;
\*  - one part is nullable and another is not: the merged schema is;
\*  - a property is required before it is declared, by the third part or later;
\*  - two parts are tuples: there is no merged one;
\*  - a part denies or restricts the properties of another;
\*  - a part has an allOf of its own and other keywords, or an allOf of one allOf.
Schemas == composition.schemas
RECURSIVE PartsOf(_)
PartsOf(id) ==
  LET s == Schemas[id] IN
  {id} \union UNION {PartsOf(p) : p \in ToSet(s.allOf) \union Range(s.properties)
                                     \union ToSet(s.items) \union ({s.item} \ {0})}
Parts(id) == {Schemas[p] : p \in PartsOf(id)}
Sequence(s) == [i \in DOMAIN s.allOf |-> Schemas[s.allOf[i]]]
               \o (IF HasSiblingConstraints([s EXCEPT !.allOf = <<>>]) THEN <<s>> ELSE <<>>)
LosesExclusive(id) ==
  \/ \E p \in Parts(id) : p.exclusiveMaximum
  \/ \E i \in DOMAIN Schemas : \E p \in Parts(i) : p.exclusiveMaximum /\ id \in PartsOf(i)
  \/ \E p, q \in Parts(id) : p.exclusiveMinimum /\ q.minimum \notin {{}, p.minimum}
DifferInNull(id) == \E p, q \in Parts(id) : p.nullable /\ ~q.nullable /\ q # EmptySchema
RequiredTooSoon(id) ==
  \E s \in Parts(id) : \E k \in DOMAIN Sequence(s) :
    \E f \in Sequence(s)[k].required :
      \A i \in 1..(IF k < 2 THEN 2 ELSE k) :
        i \in DOMAIN Sequence(s) => f \notin DOMAIN Sequence(s)[i].properties
Tuples(id) == \E s \in Parts(id) : \A i \in DOMAIN Sequence(s) : Sequence(s)[i].items # <<>>
ClosedToOthers(id) ==
  \E p, q \in Parts(id) : p.additional # "unset" /\ DOMAIN q.properties \ DOMAIN p.properties # {}
AllOfInAllOf(id) ==
  \E s \in Parts(id) : \E p \in ToSet(s.allOf) : LET q == Schemas[p] IN
    q.allOf # <<>> /\ (HasSiblingConstraints([q EXCEPT !.allOf = <<>>]) \/ Len(q.allOf) = 1)
MergedMeansAll ==
  \A id \in DOMAIN meaning :
    \/ meaning[id] = Meaning(Schemas, id)
    \/ LosesExclusive(id) \/ DifferInNull(id) \/ RequiredTooSoon(id) \/ Tuples(id)
    \/ ClosedToOthers(id) \/ AllOfInAllOf(id)
=============================================================================
