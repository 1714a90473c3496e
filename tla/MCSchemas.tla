------------------------------- MODULE MCSchemas -------------------------------
\* Documents of a few schemas: chains of references that may lead in a circle, arrays
\* used from several properties, and schemas whose names meet those of generics.
EXTENDS EqualitySpecs

Str == <<"str">>
RootName == <<"Root">>
Node == <<"Node">>
Tag == <<"Tag">>
OptTag == <<"Opt", "Tag">>
Options == <<"Opt", "ions">>
Leaf == <<"Leaf">>

One(to, required, union) ==
  [to |-> to, as |-> "itself", required |-> required, union |-> union]
Many(to, as, required, union) == [One(to, required, union) EXCEPT !.as = as]
Id == One(Str, TRUE, FALSE)

Schema(kind, ref, nullable, fields) ==
  [kind |-> kind, ref |-> ref, nullable |-> nullable, fields |-> fields, item |-> Id]
Object(ref, nullable, fields) == Schema("object", ref, nullable, fields)
Collection(kind, item) == [Schema(kind, TRUE, FALSE, <<>>) EXCEPT !.item = item]
Doc(payloads, schemas) ==
  [payloads |-> payloads, schemas |-> schemas @@ (Str :> Schema("primitive", FALSE, FALSE, <<>>))]

AnyUse(to) == {One(to, r, u) : r \in BOOLEAN, u \in BOOLEAN}

\* Root -> Node -> Node or Tag -> Node
Circles ==
  {Doc(p, (RootName :> Object(FALSE, FALSE, <<r>>))
            @@ (Node :> Object(TRUE, null, pre \o <<next>>))
            @@ (Tag :> Object(TRUE, FALSE, tag))) :
     p \in {<<RootName>>, <<Node, RootName>>}, r \in {One(Node, TRUE, FALSE), One(Node, FALSE, TRUE)},
     null \in BOOLEAN, pre \in {<<>>, <<Id>>}, next \in AnyUse(Node) \union AnyUse(Tag),
     tag \in {<<Id>>} \union {<<Id, back>> : back \in AnyUse(Node)}
               \union {<<One(Node, FALSE, FALSE)>>}}

\* two properties of one referenced array, set or map
Shared ==
  {Doc(<<RootName>>, (RootName :> Object(FALSE, FALSE, <<One(Tag, r1, u1), One(Tag, r2, u2)>>))
                       @@ (Tag :> Collection(kind, One(Node, TRUE, FALSE)))
                       @@ (Node :> Object(TRUE, null, <<Id>>))) :
     kind \in {"list", "set", "map"}, null \in BOOLEAN,
     r1 \in BOOLEAN, u1 \in BOOLEAN, r2 \in BOOLEAN, u2 \in BOOLEAN}

\* inline arrays of Node, which may hold itself again
Lists ==
  {Doc(<<RootName>>, (RootName :> Object(FALSE, FALSE, <<Many(Node, as, r, u)>>))
                       @@ (Node :> Object(TRUE, null, <<Id, next>>))) :
     as \in {"list", "set"}, r \in BOOLEAN, u \in BOOLEAN, null \in BOOLEAN,
     next \in AnyUse(Node) \union {Many(Node, "list", FALSE, FALSE), One(Str, FALSE, TRUE), Id}}

\* a schema called OptTag next to an optional Tag, in one payload or two
Names ==
  {Doc(p, (RootName :> Object(FALSE, FALSE, <<first, second>>))
            @@ (OptTag :> Object(TRUE, FALSE, <<Id>>)) @@ (Tag :> Object(TRUE, FALSE, <<Id>>))) :
     p \in {<<RootName>>, <<OptTag, RootName>>, <<RootName, OptTag>>},
     first \in AnyUse(OptTag) \union AnyUse(Tag), second \in AnyUse(Tag)}

\* sets of nodes that hold tags or, under a name like that of a wrapper, options
SetOf(inner) ==
  {Doc(<<RootName>>, (RootName :> Object(FALSE, FALSE, <<Many(Node, "set", TRUE, FALSE)>>))
                       @@ (Node :> Object(TRUE, FALSE, <<Id, use>>))
                       @@ (inner :> Object(TRUE, null, <<g>>))
                       @@ (Leaf :> Object(TRUE, FALSE, <<Id>>))) :
     null \in BOOLEAN, g \in {Id, One(Leaf, TRUE, FALSE), One(Node, FALSE, FALSE)},
     use \in AnyUse(inner) \union
       {Many(inner, as, r, FALSE) : as \in {"list", "set"}, r \in BOOLEAN}}
Sets == SetOf(Tag) \union SetOf(Options)

\* sets behind a reference, in a map and in an array
HiddenSets ==
  {Doc(<<RootName>>, (RootName :> Object(FALSE, FALSE, <<use>>))
                       @@ (Tag :> Collection(kind, Many(Node, as, TRUE, FALSE)))
                       @@ (Node :> Object(TRUE, null, <<Id>>))) :
     kind \in {"list", "set", "map"}, as \in {"itself", "list", "set"},
     use \in {One(Tag, TRUE, FALSE), One(Tag, FALSE, FALSE), Many(Tag, "set", TRUE, FALSE)},
     null \in BOOLEAN}

AllSchemas == Circles \union Shared \union Lists \union Names \union Sets \union HiddenSets
=============================================================================
