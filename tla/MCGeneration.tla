----------------------------- MODULE MCGeneration -----------------------------
\* Documents of a few nodes in or beside the target directory, agen started with and
\* without a configuration file, arguments and flags, and once more after an edit.
EXTENDS ExpandedDocument

Doc(tree, has) == [tree |-> tree, ends |-> "ok", has |-> has, breaks |-> ""]
Map1(k, n) == Mapping(<<Entry(k, n)>>)
Text == Scalar("text")
To(name) == Reference(<<"components", name>>)
Components(a, b) == Mapping(<<Entry("A", a), Entry("B", b)>>)
Tree(use, a, b, last) ==
  LET uses == <<Entry("channel", use)>>
      parts == <<Entry("components", Components(a, b))>>
  IN Mapping(IF last THEN uses \o parts ELSE parts \o uses)
Leaves == {Text, To("A"), To("B"), To("C"), Map1("x", To("A")), Map1("x", To("B")),
           Sequence(<<Entry("", To("B"))>>), Sequence(<<Entry("", Map1("x", To("A")))>>)}
Trees == {Tree(u, a, b, l) : u, a, b \in Leaves, l \in BOOLEAN}

Plain == Doc(Tree(To("A"), Text, Text, TRUE), {"subscriber", "receive"})
Other == Doc(Tree(To("A"), Text, Text, TRUE), {"publisher", "send", "equality"})
Small == {Plain, Other, [Plain EXCEPT !.breaks = "handlers"], [Other EXCEPT !.ends = "invalid"],
          Doc(Tree(To("C"), Text, Text, TRUE), {})}

Invocation(config, args, target, clean) ==
  [config |-> config, args |-> args, target |-> target, clean |-> clean]
AgenYml(spec, dir, output, valid) == [spec |-> spec, dir |-> dir, output |-> output, valid |-> valid]
NoArgs == {<<>>, <<<<"doc">>>>, <<<<"api", "doc">>, <<"api">>>>, <<Url>>,
           <<<<"doc">>, <<"gen">>, <<"x">>>>}
Yml == {AgenYml(s, d, Unset, TRUE) : s \in {Unset, <<"work", "doc">>, Url}, d \in {Unset, <<"work", "api">>}}
       \union {AgenYml(<<"work", "doc">>, Unset, Unset, FALSE)}
Expanding == AgenYml(<<"work", "doc">>, Unset, <<"expanded">>, TRUE)
Started ==
  {Invocation({}, a, t, x) : a \in NoArgs, t \in {Unset, <<"api">>}, x \in BOOLEAN}
  \union {Invocation({y}, a, t, x) : y \in Yml, a \in {<<>>, <<<<"doc">>>>},
                                    t \in {Unset, <<"api">>}, x \in BOOLEAN}

Scenario(documents, places, invocations) ==
  [documents |-> documents, places |-> places, invocations |-> invocations]
AllScenarios ==
  \* each way to start agen, and how it is mended by a clean run into the same directory
  {Scenario({d, Plain}, {p}, {i, Invocation({}, <<<<"doc">>>>, <<"api">>, TRUE)}) :
     d \in Small, p \in {<<"work", "doc">>, <<"work", "api", "doc">>}, i \in Started}
  \union {Scenario({Doc(t, {})}, {<<"work", "doc">>}, {Invocation({Expanding}, <<>>, Unset, FALSE)}) :
             t \in Trees}
=============================================================================
