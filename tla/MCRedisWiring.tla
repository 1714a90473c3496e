------------------------------ MODULE MCRedisWiring ------------------------------
(***************************************************************************)
(* Documents for TLC: one operation with every declaration the parser      *)
(* tells apart, and three operations on two channels with well-formed ones. *)
(***************************************************************************)
EXTENDS RedisWiring

Declared(type, trim, g, version) ==
  [kind |-> "mapping", type |-> type, maxLen |-> trim, group |-> g,
   unknown |-> FALSE, version |-> version, published |-> FALSE]
Undeclared == [Declared(absent, noMaxLen, absent, "") EXCEPT !.kind = "none"]

Odd == {Undeclared, [Undeclared EXCEPT !.kind = "scalar"], [Undeclared EXCEPT !.published = TRUE]}

ChannelExtensions == Odd \cup
  {[Declared(type, trim, absent, version) EXCEPT !.unknown = u] :
     type \in {absent, malformed, "stream", "pubsub", "other"},
     trim \in {noMaxLen, badMaxLen, 0, 1}, version \in {"", "0.2.0", "9"}, u \in BOOLEAN}
OperationExtensions == Odd \cup
  {[Declared(absent, noMaxLen, g, version) EXCEPT !.unknown = u] :
     g \in {absent, malformed, "", "g"}, version \in {"", "0.2.0", "9"}, u \in BOOLEAN}

OneOperation ==
  {[servers |-> s, ignores |-> FALSE, channels |-> <<[static |-> TRUE, redis |-> c]>>,
    ops |-> <<[action |-> a, channel |-> 1, reply |-> 0, redis |-> o]>>] :
     s \in {<<"redis">>}, a \in {"send", "receive"},
     c \in ChannelExtensions, o \in OperationExtensions}

Channels ==
  [static : BOOLEAN,
   redis : {Undeclared, Declared("stream", noMaxLen, absent, ""),
            Declared("stream", 1, absent, ""), Declared("stream", 2, absent, ""),
            Declared("pubsub", noMaxLen, absent, "")}]
Operations ==
  {op \in [action : {"send", "receive"}, channel : 1..2, reply : 0..2,
           redis : {Undeclared, Declared(absent, noMaxLen, "g", ""),
                    Declared(absent, noMaxLen, "h", "")}] :
     op.action = "send" => op.reply = 0 /\ op.redis = Undeclared}

SeveralOperations ==
  [servers : {<<"redis", "unknown">>, <<"redis", "other">>, <<>>},
   ignores : BOOLEAN,
   channels : Channels \X {ch \in Channels : ch.static},
   ops : UNION {[1..n -> Operations] : n \in 1..2}]

AllDocuments == OneOperation \cup SeveralOperations

=============================================================================
