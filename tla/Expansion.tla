------------------------------- MODULE Expansion -------------------------------
\* Writing a document without references (asyncapi/expand.go).
\*
\* A node is a mapping, a sequence, a scalar or a reference into the document: the mapping
\* {$ref: "#/..."}.  The entries of a mapping are in document order.
EXTENDS Naturals, SequencesExt

Node(kind, entries, to) == [kind |-> kind, entries |-> entries, to |-> to]
Scalar(x) == Node("scalar", <<>>, <<x>>)
Mapping(entries) == Node("mapping", entries, <<>>)
Sequence(items) == Node("sequence", items, <<>>)
Reference(to) == Node("reference", <<>>, to)
Entry(k, node) == [key |-> k, node |-> node]
Nothing == Node("", <<>>, <<>>)

\* jsonpointer.Resolve, which does not look through references
Keyed(n, k) == {i \in DOMAIN n.entries : n.entries[i].key = k}
Child(n, k) == IF Keyed(n, k) = {} THEN Nothing
               ELSE n.entries[CHOOSE i \in Keyed(n, k) : TRUE].node
Resolve(root, path) == FoldLeft(Child, root, path)

-----------------------------------------------------------------------------
\* expandMapping of a copy: the entries of mappings are replaced.  A reference in a
\* sequence is a mapping with no entry that is one, and stays.
Expanded(node) == [node |-> node, ok |-> TRUE]
Dangling == [node |-> Nothing, ok |-> FALSE]

RECURSIVE ExpandCopy(_, _, _)
ResolveRefShallow(root, ref, seen) ==  \* mutant
  LET target == Resolve(root, ref.to) IN
  IF ref.to \in seen THEN Expanded(ref) ELSE IF target = Nothing THEN Dangling ELSE Expanded(target)
\* resolveRef; seen are the references being expanded
ResolveRef(root, ref, seen) ==
  LET target == Resolve(root, ref.to) IN
  IF ref.to \in seen THEN Expanded(ref)
  ELSE IF target = Nothing THEN Dangling
  ELSE ExpandCopy(root, target, seen \union {ref.to})

ExpandValue(root, value, seen) ==
  CASE value.kind = "reference" -> ResolveRef(root, value, seen)
    [] value.kind = "mapping" -> ExpandCopy(root, value, seen)
    [] value.kind = "sequence" ->
         LET items == [i \in DOMAIN value.entries |->
                         ExpandCopy(root, value.entries[i].node, seen)]
         IN IF \A i \in DOMAIN items : items[i].ok
            THEN Expanded(Sequence([i \in DOMAIN items |-> Entry("", items[i].node)]))
            ELSE Dangling
    [] OTHER -> Expanded(value)
ExpandCopy(root, node, seen) ==
  IF node.kind # "mapping" THEN Expanded(node)
  ELSE LET values == [i \in DOMAIN node.entries |-> ExpandValue(root, node.entries[i].node, seen)]
       IN IF \A i \in DOMAIN values : values[i].ok
          THEN Expanded([node EXCEPT !.entries =
                 [i \in DOMAIN values |-> Entry(node.entries[i].key, values[i].node)]])
          ELSE Dangling

-----------------------------------------------------------------------------
\* The document itself is expanded in place: what was replaced already is what later
\* references find.  A place is the position of a node, level by level.
RECURSIVE NodeAt(_, _), PutAt(_, _, _), ExpandAt(_, _)
NodeAt(node, place) ==
  IF place = <<>> THEN node ELSE NodeAt(node.entries[place[1]].node, Tail(place))
PutAt(node, place, by) ==
  IF place = <<>> THEN by
  ELSE [node EXCEPT !.entries[place[1]].node = PutAt(@, Tail(place), by)]

\* r: the document so far, and whether it is still without an error
ExpandAt(r, place) ==
  LET n == NodeAt(r.node, place)
      value(s, i) == NodeAt(s.node, Append(place, i))
      replaced(s, i) ==
        LET v == ResolveRef(s.node, value(s, i), {}) IN
        [ok |-> v.ok, node |-> IF v.ok THEN PutAt(s.node, Append(place, i), v.node) ELSE s.node]
      step(s, i) ==
        IF ~s.ok THEN s
        ELSE CASE value(s, i).kind = "reference" /\ n.kind = "mapping" -> replaced(s, i)
               [] value(s, i).kind = "mapping" -> ExpandAt(s, Append(place, i))
               [] value(s, i).kind = "sequence" /\ n.kind = "mapping" -> ExpandAt(s, Append(place, i))
               [] OTHER -> s
  IN FoldLeft(step, r, [i \in DOMAIN n.entries |-> i])
Expand(doc) == ExpandAt(Expanded(doc), <<>>)

-----------------------------------------------------------------------------
\* What a document says, references followed, down to a number of levels.
RECURSIVE Follow(_, _, _), Unfold(_, _, _), References(_)
Follow(root, node, seen) ==
  IF node.kind # "reference" THEN node
  ELSE IF node.to \in seen THEN Nothing
  ELSE Follow(root, Resolve(root, node.to), seen \union {node.to})
Unfold(root, node, levels) ==
  LET n == Follow(root, node, {}) IN
  IF levels = 0 THEN n.kind
  ELSE <<n.kind, n.to, [i \in DOMAIN n.entries |->
          <<n.entries[i].key, Unfold(root, n.entries[i].node, levels - 1)>>]>>
References(node) ==
  IF node.kind = "reference" THEN {node.to}
  ELSE UNION {References(node.entries[i].node) : i \in DOMAIN node.entries}
\* references that lead from one place to itself
RECURSIVE Reached(_, _)
Reached(root, S) ==
  LET T == S \union UNION {References(Resolve(root, to)) : to \in S}
  IN IF T = S THEN S ELSE Reached(root, T)
Circular(root, to) == to \in Reached(root, References(Resolve(root, to)))
=============================================================================
