-------------------------------- MODULE Defaults --------------------------------
(* The default of a property: lowering drops it, refuses it or checks its type *)
(* (schema_gen.go, checkDefaultType), the template defaults/set turns it into  *)
(* Go statements in setDefaults, and Decode calls that before it reads the     *)
(* members.  Decode itself is taken to read what the schema allows.            *)
(*                                                                             *)
(* A schema is a tree of cells; cell 1 is the property's.  A value is JSON;    *)
(* what Go holds is written as the JSON it is encoded as, Unset for nothing.   *)
EXTENDS Naturals, FiniteSets, SequencesExt

CONSTANT Declarations   \* cells, whether the property is required, what is ignored, messages

VARIABLES
  declared, \* the declaration
  cells,    \* its cells, with the defaults that are kept (schema.DefaultSet)
  next,     \* the cell whose default is looked at
  step,     \* "lower", "render", "receive", "read", or "refused", "uncompiled"
  member,   \* what a peer sent for the property
  value     \* the field

defaultVars == <<declared, cells, next, step, member, value>>

J(is, text) == [is |-> is, text |-> text, of |-> <<>>, members |-> [f \in {} |-> 0]]
Null == J("null", "")
Unset == J("unset", "")
Zero == J("zero", "")
PropertyNames(c) == DOMAIN cells[c].properties
isStruct(c) == cells[c].type = "object" /\ (PropertyNames(c) # {} \/ ~cells[c].additional)
Optional(c, f) == f \notin cells[c].required

-----------------------------------------------------------------------------
(* Lowering.                                                                   *)
RECURSIVE arrayDefaultUnsupported(_)
arrayDefaultUnsupported(c) ==
  IF cells[c].tuple THEN "tuple array defaults"
  ELSE IF cells[c].item = 0 \/ cells[cells[c].item].type = "any" THEN "array defaults with free-form items"
  ELSE IF cells[cells[c].item].type = "array" THEN arrayDefaultUnsupported(cells[c].item) ELSE ""
Unsupported(c) ==
  CASE cells[c].type = "object" -> "object defaults"
    [] cells[c].type = "array" -> arrayDefaultUnsupported(c)
    [] cells[c].type \in {"any", "oneOf"} -> "complex defaults"
    [] OTHER -> ""

\* Mutant: the items of an array are not looked at.
checkDefaultTypeShallow(c, v) ==
  (v = Null /\ cells[c].nullable) \/ cells[c].type \in {"oneOf", v.is}

\* Only types are compared; a member that is not there, or that no schema describes, and
\* what a oneOf is given are not looked at.
RECURSIVE checkDefaultType(_, _)
checkDefaultType(c, v) ==
  LET s == cells[c] IN
  \/ v = Null /\ s.nullable
  \/ s.type = "oneOf"
  \/ s.type = v.is /\ s.type \in {"string", "integer"}
  \/ /\ s.type = "object" /\ v.is = "object"
     /\ \A f \in DOMAIN v.members :
          IF f \in PropertyNames(c) THEN checkDefaultType(s.properties[f], v.members[f])
          ELSE s.item # 0 => checkDefaultType(s.item, v.members[f])
  \/ /\ s.type = "array" /\ v.is = "array"
     /\ \A i \in DOMAIN v.of : s.item # 0 => checkDefaultType(s.item, v.of[i])

DefaultHere == IF step = "lower" /\ next \in DOMAIN cells THEN cells[next].default ELSE {}
LookedAt(to) == step' = to /\ next' = next + 1 /\ UNCHANGED <<declared, member, value>>
NoDefault ==
  /\ step = "lower" /\ next \in DOMAIN cells /\ DefaultHere = {}
  /\ LookedAt("lower") /\ UNCHANGED cells
\* fail: what ignore_unsupported names is left out.
NotImplemented ==
  /\ DefaultHere # {} /\ Unsupported(next) # ""
  /\ IF Unsupported(next) \in declared.ignore
     THEN LookedAt("lower") /\ cells' = [cells EXCEPT ![next].default = {}]
     ELSE LookedAt("refused") /\ UNCHANGED cells
CheckDefault ==
  \E v \in DefaultHere :
    /\ Unsupported(next) = ""
    /\ LookedAt(IF checkDefaultType(next, v) THEN "lower" ELSE "refused") /\ UNCHANGED cells
EndLowering ==
  /\ step = "lower" /\ next \notin DOMAIN cells
  /\ step' = "render" /\ UNCHANGED <<declared, cells, next, member, value>>

-----------------------------------------------------------------------------
(* defaults/set.                                                               *)
Nilable(c, optional) == cells[c].type = "array" /\ (optional # cells[c].nullable)
Generic(c, optional) == (optional \/ cells[c].nullable) /\ ~Nilable(c, optional)

\* What cannot be rendered, and what does not compile: a named array is given a
\* []interface{}.
RECURSIVE Faults(_, _, _)
Faults(c, optional, v) ==
  LET s == cells[c] IN
  CASE v = Null /\ Generic(c, optional) -> {}
    [] s.type = "any" -> {"unsupported"}
    [] s.type = "array" /\ s.ref -> {"uncompiled"}
    [] s.type = "array" -> UNION {Faults(s.item, FALSE, v.of[i]) : i \in DOMAIN v.of}
    [] isStruct(c) -> UNION {Faults(s.properties[f], Optional(c, f), v.members[f]) : f \in PropertyNames(c) \cap DOMAIN v.members}
    [] s.type = "object" -> IF s.item = 0 THEN IF DOMAIN v.members = {} THEN {} ELSE {"unsupported"}
                            ELSE UNION {Faults(s.item, FALSE, v.members[f]) : f \in DOMAIN v.members}
    [] OTHER -> {}

IsProperty(c) == c = 1 \/ \E d \in DOMAIN cells : c \in {cells[d].properties[f] : f \in PropertyNames(d)}
OptionalCell(c) == IF c = 1 THEN ~declared.required
                   ELSE \E d \in DOMAIN cells : \E f \in PropertyNames(d) : cells[d].properties[f] = c /\ Optional(d, f)
AllFaults == UNION {UNION {Faults(c, OptionalCell(c), v) : v \in cells[c].default} :
                      c \in {d \in DOMAIN cells : IsProperty(d)}}
Render ==
  /\ step = "render"
  /\ step' = IF "unsupported" \in AllFaults THEN "refused"
             ELSE IF AllFaults # {} THEN "uncompiled" ELSE "receive"
  /\ UNCHANGED <<declared, cells, next, member, value>>

\* An array starts as a nil slice and items are appended to it; a struct's own defaults
\* are not set; a text that its format does not allow, or that no variant takes, leaves
\* the zero value behind.
RECURSIVE SetTo(_, _, _)
SetTo(c, optional, v) ==
  LET s == cells[c]
      set == {f \in PropertyNames(c) : f \in DOMAIN v.members} IN
  CASE Nilable(c, optional) /\ v.of = <<>> -> IF optional THEN Unset ELSE Null
    [] v = Null -> Null
    [] s.type = "array" -> [v EXCEPT !.of = [i \in DOMAIN v.of |-> SetTo(s.item, FALSE, v.of[i])]]
    [] isStruct(c) ->
         LET m == [f \in set |-> SetTo(s.properties[f], Optional(c, f), v.members[f])]
         IN [v EXCEPT !.members = [f \in {g \in set : m[g] # Unset} |-> m[f]]]
    [] s.type = "object" -> [v EXCEPT !.members = [f \in DOMAIN v.members |-> SetTo(s.item, FALSE, v.members[f])]]
    [] s.type = "oneOf" -> IF v.is \in {"string", "integer"} THEN v ELSE Zero
    [] s.format = "date" -> IF v.text = "date" THEN v ELSE Zero
    [] OTHER -> v

setDefaults == IF cells[1].default = {} THEN {Unset}
               ELSE {SetTo(1, ~declared.required, v) : v \in cells[1].default}

\* Decode: a null for an array that is null as a nil slice is skipped.
ReadProperty ==
  /\ step = "receive"
  /\ \E v \in declared.messages \cup (IF declared.required THEN {} ELSE {Unset}), d \in setDefaults :
       /\ member' = v
       /\ value' = CASE v = Unset -> d
                     [] v = Null /\ Nilable(1, ~declared.required) -> IF d = Unset THEN Null ELSE d
                     [] OTHER -> v
  /\ step' = "read" /\ UNCHANGED <<declared, cells, next>>

DefaultInit ==
  /\ declared \in Declarations /\ cells = declared.cells /\ next = 1 /\ step = "lower"
  /\ member = Unset /\ value = Unset
DefaultNext ==
  NoDefault \/ NotImplemented \/ CheckDefault \/ EndLowering \/ Render \/ ReadProperty

-----------------------------------------------------------------------------
(* What a default means: it is the JSON that an absent member stands for, and  *)
(* the members that are not in it have their own defaults.                     *)
DefaultOf(c) == declared.cells[c].default
OwnDefaults(c, v) == {f \in PropertyNames(c) \ DOMAIN v.members : DefaultOf(cells[c].properties[f]) # {}}
Kept(c, v) == IF cells[c].additional THEN DOMAIN v.members ELSE PropertyNames(c) \cap DOMAIN v.members
RECURSIVE Meant(_, _)
Meant(c, v) ==
  LET s == cells[c]
      meant(f) == IF f \notin DOMAIN v.members THEN Meant(s.properties[f], CHOOSE d \in DefaultOf(s.properties[f]) : TRUE)
                   ELSE IF f \in PropertyNames(c) THEN Meant(s.properties[f], v.members[f])
                   ELSE IF s.item = 0 THEN v.members[f] ELSE Meant(s.item, v.members[f]) IN
  CASE v.is = "array" -> [v EXCEPT !.of = [i \in DOMAIN v.of |-> IF s.item = 0 THEN v.of[i] ELSE Meant(s.item, v.of[i])]]
    [] v.is = "object" -> [v EXCEPT !.members = [f \in Kept(c, v) \cup OwnDefaults(c, v) |-> meant(f)]]
    [] OTHER -> v

\* Why a value is none of the schema.
RECURSIVE Misfits(_, _)
Misfits(c, v) ==
  LET s == cells[c] IN
  CASE v = Null /\ s.nullable -> {}
    [] s.type = "any" -> {}
    [] s.type = "oneOf" -> IF v.is \in {"string", "integer"} THEN {} ELSE {"variant"}
    [] s.type # v.is -> {"type"}
    [] s.format = "date" -> IF v.text = "date" THEN {} ELSE {"text"}
    [] s.type = "array" -> UNION {IF s.item = 0 THEN {} ELSE Misfits(s.item, v.of[i]) : i \in DOMAIN v.of}
    [] s.type = "object" ->
         (IF s.required \subseteq DOMAIN v.members THEN {} ELSE {"lacking"})
         \cup UNION {IF f \in PropertyNames(c) THEN Misfits(s.properties[f], v.members[f])
                     ELSE IF s.item = 0 THEN {} ELSE Misfits(s.item, v.members[f]) : f \in DOMAIN v.members}
    [] OTHER -> {}
FreeForm(c) == cells[c].type = "any" \/ (cells[c].additional /\ cells[c].item = 0)

\* What setDefaults leaves out of a default: an array without items, where nil stands for
\* an absent or a null one; further members of a struct; the defaults of members.
RECURSIVE Lost(_, _, _)
Lost(c, optional, v) ==
  CASE v.is = "array" -> \/ Nilable(c, optional) /\ v.of = <<>>
                         \/ cells[c].item # 0 /\ \E i \in DOMAIN v.of : Lost(cells[c].item, FALSE, v.of[i])
    [] v.is = "object" /\ isStruct(c) ->
         \/ OwnDefaults(c, v) # {} \/ ~(Kept(c, v) \subseteq PropertyNames(c))
         \/ \E f \in Kept(c, v) : Lost(cells[c].properties[f], Optional(c, f), v.members[f])
    [] v.is = "object" -> cells[c].item # 0 /\ \E f \in DOMAIN v.members : Lost(cells[c].item, FALSE, v.members[f])
    [] OTHER -> FALSE

\* A field holds its default when the member is absent, as JSON would give it, and what
\* was sent otherwise; it never holds what is not of the declared type, although only the
\* generator compares the two; and no default is refused that could have been set.
\* It holds unless setDefaults loses a part (Lost), the default is not one the schema
\* allows for a reason other than its type, or a null is sent for an array whose default
\* is there already: Decode skips that null.
DefaultOnlyForAbsent ==
  /\ step = "refused" => \E c \in DOMAIN cells :
       \/ \E v \in DefaultOf(c) : Unsupported(c) # "" \/ "type" \in Misfits(c, v)
       \/ FreeForm(c)
  /\ step = "uncompiled" => \E c \in DOMAIN cells : cells[c].type = "array" /\ cells[c].ref
  /\ step = "read" /\ member # Unset => value = member \/ (member = Null /\ cells[1].type = "array")
  /\ step = "read" /\ member = Unset =>
       /\ cells[1].default = {} => value = Unset
       /\ \A v \in cells[1].default :
            /\ "type" \notin Misfits(1, v)
            /\ value = Meant(1, v) \/ Misfits(1, v) # {} \/ Lost(1, ~declared.required, v)
=============================================================================
