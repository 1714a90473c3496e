---------------------------- MODULE ExpandedDocument ----------------------------
\* The command agen with asyncapi.Expand for its expansion.
EXTENDS Generation, Expansion

CONSTANT Levels  \* the levels of a document that are compared

\* The expanded document says what the document says, in as many levels as Levels, and
\* has no reference left that could be followed to an end.  It holds unless a reference
\* stands in a sequence, or leads to another reference or to a sequence.
RECURSIVE InSequence(_)
InSequence(n) ==
  UNION {IF n.kind = "sequence" THEN References(n.entries[i].node) ELSE InSequence(n.entries[i].node) :
           i \in DOMAIN n.entries}
ExpandedSaysAll ==
  outcome = "ok" /\ cfg.output # Unset =>
    LET tree == doc.tree
        new == disk[Home \o cfg.output].doc.tree IN
    /\ Unfold(new, new, Levels) = Unfold(tree, tree, Levels)
    /\ \A to \in References(new) :
         \/ Circular(tree, to) \/ to \in InSequence(tree)
         \/ \E from \in References(tree) : Resolve(tree, from) = Reference(to)
=============================================================================
