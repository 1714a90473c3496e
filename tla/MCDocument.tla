------------------------------- MODULE MCDocument -------------------------------
(***************************************************************************)
(* Documents for TLC, in families: references between messages; traits;    *)
(* references of traits to what they belong to; parameters and trait       *)
(* servers of two channels; servers, versions and replies; names that meet *)
(* in the generated code.                                                  *)
(***************************************************************************)
EXTENDS CodeBuilder

NoPayload == [kind |-> "none", refs |-> <<>>]
Message(key, name, payload) ==
  [ref |-> "", key |-> key, name |-> name, fields |-> {}, traits |-> <<>>,
   schemaFormat |-> TRUE, json |-> TRUE, payload |-> payload]
Object(key) == Message(key, "", NoPayload)
To(ref) == [ref |-> ref, action |-> "", host |-> FALSE]
Channel(key, tokens, params, list) ==
  [ref |-> "", key |-> key, addressed |-> TRUE, servers |-> <<>>, traits |-> <<>>, fields |-> {},
   params |-> params, messages |-> list, tokens |-> tokens]
Operation(action, channel, list) ==
  [ref |-> "", action |-> action, fields |-> {}, traits |-> <<>>, channel |-> channel,
   messages |-> list, reply |-> <<>>]
Named(name, slot) == [name |-> name, slot |-> slot]
Keyed(key, slot) == [key |-> key, slot |-> slot]
Trait(fields) ==
  [ref |-> "", fields |-> fields, name |-> "trait", servers |-> <<>>, params |-> <<>>, traits |-> <<>>]
Document(at, ops) == [version |-> "3.0", servers |-> <<>>, at |-> at, ops |-> ops]
x == "chX"
y == "chY"
AtX == <<To(x)>>
AtY == <<To(y)>>

\* Messages a, b, c, d and the slot p of channel x, which operations can name too.
ReferenceDocuments ==
  {Document("a" :> a @@ "b" :> b @@ "c" :> c @@ "d" :> Object("d") @@ "p" :> p @@
            x :> Channel(x, <<>>, <<>>, <<Keyed("p", p)>>),
            <<Named("one", Operation("send", AtX, l1)),
              Named("two", Operation("receive", AtX, l2))>>) :
     a \in {Object("a"), To("b"), To("c")}, b \in {Object("b"), To("c"), To("a")},
     c \in {Object("c"), To("a"), To("d"), To("none")}, p \in {Object("p"), To("a"), To("c")},
     l1 \in {<<>>, <<To("p")>>, <<To("b"), To("a")>>},
     l2 \in {<<>>, <<To("p"), To("c")>>, <<Object("")>>}}

\* Traits of a message, met by pointer and in place, and of operation and channel.
TraitFields == {{}, {"name"}, {"headers"}, {"tags", "title"}}
TraitDocuments ==
  {LET message(m) == [m EXCEPT !.traits = SubSeq(<<To("t1"), To("t2")>>, 1, n), !.fields = own, !.name = name] IN
   Document("t1" :> t1 @@ "t2" :> t2 @@ "a" :> message(Object("a")) @@
            x :> [Channel(x, <<>>, <<>>, <<Keyed("p", message(Object("p")))>>)
                    EXCEPT !.traits = cts, !.fields = own],
            <<Named("one", [Operation("send", AtX, l) EXCEPT !.traits = ots])>>) :
     t1 \in {Trait(f) : f \in TraitFields}, t2 \in {Trait({"title"}), Trait({"headers"}), To("t1")},
     n \in 1..2, own \in {{}, {"title"}, {"headers"}}, name \in {"", "n"},
     l \in {<<>>, <<To("a")>>}, cts \in {<<>>, <<To("t1")>>}, ots \in {<<>>, <<To("t1"), To("t1")>>}}

\* Traits that refer to what they belong to, and one at the end of a long chain.
SelfDocuments ==
  {Document("a" :> [Object("a") EXCEPT !.traits = ts] @@
            x :> Channel(x, <<>>, <<>>, <<Keyed("p", [Object("p") EXCEPT !.traits = ts])>>),
            <<Named("one", Operation("send", AtX, l))>>) :
     ts \in {<<To("a")>>, <<To(x)>>}, l \in {<<>>, <<To("a")>>}} \cup
  {Document("a" :> [Object("a") EXCEPT !.traits = <<To("t1")>>] @@ "b" :> To("a") @@ "t1" :> Trait({}) @@
            x :> [Channel(x, <<>>, <<>>, <<Keyed("p", To(p))>>)
                    EXCEPT !.traits = <<[Trait({}) EXCEPT !.servers = <<"s">>]>>],
            <<Named("one", Operation("send", AtX, <<>>))>>) : p \in {"a", "b"}}

\* Parameters in place and shared, and traits that declare parameters and servers.
Params == {<<>>, <<Keyed("u", To("par"))>>, <<Keyed("v", To("par"))>>,
           <<Keyed("u", [ref |-> ""]), Keyed("v", To("par"))>>, <<Keyed("u", To("gone"))>>}
ChannelTraits ==
  {<<>>} \cup
  {<<[Trait({}) EXCEPT !.params = ps, !.servers = servers]>> :
     ps \in {<<>>, <<Keyed("v", To("par"))>>, <<Keyed("u", [ref |-> ""])>>},
     servers \in {<<>>, <<"s">>, <<"s", "t">>}}
ParameterDocuments ==
  {Document("par" :> [ref |-> "", traits |-> <<>>] @@ "a" :> Object("a") @@
            x :> [Channel(x, tx, px, <<Keyed("a", To("a"))>>) EXCEPT !.traits = cx, !.servers = <<"a", "nil">>] @@
            y :> [Channel(y, <<"v">>, py, <<Keyed("a", To("a"))>>) EXCEPT !.traits = cy],
            <<Named("one", Operation("send", AtX, <<>>)), Named("two", Operation("receive", AtY, <<>>))>>) :
     tx \in {<<>>, <<"u">>}, px \in Params,
     py \in {<<>>, <<Keyed("u", To("par"))>>, <<Keyed("v", To("par"))>>, <<Keyed("v", To(y))>>}, cx \in ChannelTraits,
     cy \in {<<>>, <<[Trait({}) EXCEPT !.params = <<Keyed("w", To("par"))>>, !.servers = <<"s">>]>>}}

\* What else may be missing, and replies.
Replies == {<<>>, <<[channel |-> AtX, messages |-> <<>>]>>, <<[channel |-> <<>>, messages |-> <<>>]>>,
            <<[channel |-> <<Channel("", <<>>, <<>>, <<>>)>>, messages |-> <<To("a")>>]>>,
            <<[channel |-> <<Channel("", <<>>, <<>>, <<>>)>>, messages |-> <<>>]>>}
Surroundings == [version : {"3.0"}, servers : {<<>>}, first : {To("o")}]
  \cup [version : {"2.6"}, servers : {<<>>}, first : {To("o")}]
  \cup [version : {"3.1"}, first : {To("o")},
         servers : {<<[ref |-> "", host |-> FALSE], To("gone")>>, <<To("sv")>>, <<[ref |-> "", host |-> TRUE]>>}]
  \cup [version : {"3.0"}, servers : {<<>>}, first : {To("oo"), To("gone")}]
ShapeDocuments ==
  {[version |-> s.version, servers |-> s.servers,
    at |-> "a" :> [Object("a") EXCEPT !.json = json, !.schemaFormat = format]
           @@ x :> Channel(x, <<>>, <<>>, <<Keyed("a", To("a"))>>) @@ y :> To(x)
           @@ "o" :> Operation("receive", AtX, <<>>) @@ "oo" :> To("o") @@ "sv" :> To("sv"),
    ops |-> <<Named("one", s.first), Named("two", [Operation(act, ch2, <<To("a")>>) EXCEPT !.reply = rep])>>] :
     s \in Surroundings, json \in BOOLEAN, format \in BOOLEAN,
     act \in {"receive", "send", "publish"}, rep \in Replies,
     ch2 \in {<<>>, AtX, AtY, <<[Channel("", <<>>, <<>>, <<>>) EXCEPT !.addressed = FALSE]>>,
              <<Channel("", <<>>, <<>>, <<Keyed("m", Object(""))>>)>>}}

\* Names: messages a and b and a slot p of channel x, with payloads that refer
\* to schemas; two channels and operations whose identifiers may meet.
Payloads == {NoPayload, [kind |-> "struct", refs |-> <<>>],
             [kind |-> "ref", refs |-> <<"s1">>], [kind |-> "struct", refs |-> <<"s1", "s2">>]}
NameDocuments ==
  {Document("a" :> Message("a", n1, p1) @@ "b" :> Message("b", "", p2) @@ "p" :> Message("p", n1, p2) @@
            "y.b" :> Message("b", "q", NoPayload) @@
            x :> Channel(x, <<>>, <<>>, <<Keyed("p", Message("p", n1, p2))>>) @@ y :> Channel(y, <<>>, <<>>, <<>>),
            <<Named("one", [Operation("receive", AtX, l1) EXCEPT !.reply = rep]),
              Named(two, Operation("send", c2, l2))>>) :
     n1 \in {"", "b"}, p1 \in Payloads, p2 \in Payloads \ {NoPayload}, two \in {"oneReply", "one_", "two"},
     c2 \in {AtX, AtY}, rep \in {<<>>, <<[channel |-> AtY, messages |-> <<To("b"), To("a")>>]>>},
     l1 \in {<<>>, <<To("a"), To("b")>>}, l2 \in {<<To("p")>>, <<To("b")>>, <<To("b"), To("a")>>, <<To("a"), To("y.b")>>}}

AllDocuments == ReferenceDocuments \cup TraitDocuments \cup SelfDocuments \cup ParameterDocuments
                  \cup ShapeDocuments \cup NameDocuments

AllFilters == {{}, {"send"}}

\* PascalSpecial: "one_" and "one" have one identifier.
AllGo ==
  "" :> "" @@ "a" :> "A" @@ "A" :> "A" @@ "b" :> "B" @@ "c" :> "C" @@ "d" :> "D" @@ "p" :> "P" @@ "q" :> "Q" @@
  "n" :> "N" @@ "m" :> "M" @@ "trait" :> "Trait" @@ "one" :> "One" @@ "one_" :> "One" @@
  "two" :> "Two" @@ "oneReply" :> "OneReply" @@ "twoReply" :> "TwoReply" @@
  "reply" :> "Reply" @@ x :> "ChX" @@ y :> "ChY" @@ "s1" :> "B" @@ "s2" :> "BPayload"
AllTails == "s1" :> <<"B", "SchemasB">> @@ "s2" :> <<"BPayload">>

=============================================================================
