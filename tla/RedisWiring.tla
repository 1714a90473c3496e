------------------------------- MODULE RedisWiring -------------------------------
(***************************************************************************)
(* From the x-redis declarations of a document to a running service: the   *)
(* parser checks each channel and operation, the generator derives one     *)
(* mode, group and maxLen for the whole document (redisBindingDefaults),   *)
(* and the generated NewServer and NewClient hand them to runtime/redis.   *)
(*                                                                         *)
(* A document is its servers' protocols ("redis", "other" or "unknown"),   *)
(* whether ignore_unsupported lists the unknown ones (ignores), its        *)
(* channels (is the address static, and the redis declarations) and its    *)
(* operations (action, channel, the channel of the reply or 0, and the     *)
(* redis declarations), in the order the generator meets them.  Redis      *)
(* declarations say what x-redis is, its fields, and whether bindings.redis *)
(* has fields (published).                                                 *)
(***************************************************************************)
EXTENDS RedisConfig, FiniteSets

Extensions ==
  [kind : {"none", "scalar", "mapping"}, type : STRING, maxLen : Int, group : STRING,
   version : STRING, unknown : BOOLEAN, published : BOOLEAN]
OperationsOn(channels) ==
  [action : {"send", "receive"}, channel : DOMAIN channels,
   reply : DOMAIN channels \cup {0}, redis : Extensions]

CONSTANT Documents  \* the documents considered

ASSUME DocumentAssumption ==
  \A d \in Documents :
    /\ d.servers \in Seq({"redis", "other", "unknown"}) /\ d.ignores \in BOOLEAN
    /\ d.channels \in Seq([static : BOOLEAN, redis : Extensions])
    /\ d.ops \in Seq(OperationsOn(d.channels))

VARIABLES
  doc,
  stage,     \* "parse", "build", "derive", "done" or "rejected"
  k,         \* the operation being parsed, built or derived from
  synthetic, \* the send operations made of replies
  protocol,  \* brokerBackend's protocol ("" before and for no servers)
  wired,     \* every server uses one protocol that has a runtime
  mode, group, maxLen  \* what was declared so far ("" and 0: nothing)

vars == <<doc, stage, k, synthetic, protocol, wired, mode, group, maxLen>>
derived == <<mode, group, maxLen>>

absent == "absent"      \* a field that is not there
malformed == "malformed" \* a field of another type
noMaxLen == -1
badMaxLen == -2

NoBinding == [type |-> absent, maxLen |-> 0, group |-> empty]

Init ==
  /\ doc \in Documents
  /\ stage = "parse" /\ k = 1 /\ synthetic = <<>>
  /\ protocol = empty /\ wired = FALSE
  /\ mode = empty /\ group = empty /\ maxLen = 0

-----------------------------------------------------------------------------
(* The parser.                                                             *)

hasField(x) == x.type # absent \/ x.maxLen # noMaxLen \/ x.group # absent \/ x.unknown
VersionSupported(x) == x.version \in {empty, "0.2.0"}

\* An extension without fields counts as none, whatever its bindingVersion.
Declares(x) == x.kind = "mapping" /\ hasField(x)

ChannelParses(x) ==
  /\ ~x.published
  /\ x.kind # "scalar"
  /\ Declares(x) =>
       /\ ~x.unknown /\ x.group = absent
       /\ VersionSupported(x)
       /\ x.type \in {"stream", "pubsub"}
       /\ x.maxLen # noMaxLen => x.type = "stream" /\ x.maxLen >= 1

OperationParses(x) ==
  /\ ~x.published
  /\ x.kind # "scalar"
  /\ Declares(x) =>
       /\ ~x.unknown /\ x.type = absent /\ x.maxLen = noMaxLen
       /\ x.group # malformed
       /\ VersionSupported(x)

\* A parsed extension: undeclared fields are zero.
Binding(x) ==
  IF ~Declares(x) THEN NoBinding
  ELSE [type |-> x.type,
        maxLen |-> IF x.maxLen = noMaxLen THEN 0 ELSE x.maxLen,
        group |-> IF x.group = absent THEN empty ELSE x.group]

ChannelOf(op) == doc.channels[op.channel]
TypeOf(op) == Binding(ChannelOf(op).redis).type

\* consumerGroup is for receive operations on stream channels.
GroupAllowed(op) ==
  Binding(op.redis).group # empty => op.action = "receive" /\ TypeOf(op) = "stream"

Parses(op) ==
  /\ ChannelParses(ChannelOf(op).redis)
  /\ OperationParses(op.redis) /\ GroupAllowed(op)
  /\ op.reply # 0 => ChannelParses(doc.channels[op.reply].redis)

ParseOperation ==
  /\ stage = "parse" /\ k <= Len(doc.ops)
  /\ IF Parses(doc.ops[k]) THEN k' = k + 1 /\ UNCHANGED stage
     ELSE stage' = "rejected" /\ UNCHANGED k
  /\ UNCHANGED <<doc, synthetic, protocol, wired, derived>>

-----------------------------------------------------------------------------
(* The generator.                                                          *)

\* brokerBackend over the servers that are left: wired when they all are redis.
Servers == {i \in DOMAIN doc.servers : doc.servers[i] # "unknown"}
AllRedis == Servers # {} /\ \A i \in Servers : doc.servers[i] = "redis"

CheckServers ==
  /\ stage = "parse" /\ k > Len(doc.ops)
  /\ wired' = AllRedis
  /\ protocol' = IF Servers = {} THEN empty ELSE IF AllRedis THEN "redis" ELSE "other"
  /\ stage' = IF Servers # DOMAIN doc.servers /\ ~doc.ignores THEN "rejected" ELSE "build"
  /\ k' = 1
  /\ UNCHANGED <<doc, synthetic, derived>>

\* The reply of a receive operation becomes a send operation of its own.
Asks(op) == op.action = "receive" /\ op.reply # 0
ReplyOf(op) ==
  [op EXCEPT !.action = "send", !.channel = op.reply, !.reply = 0, !.redis.kind = "none"]

BuildOperation ==
  /\ stage = "build" /\ k <= Len(doc.ops)
  /\ synthetic' = IF Asks(doc.ops[k]) THEN Append(synthetic, ReplyOf(doc.ops[k])) ELSE synthetic
  /\ k' = k + 1
  /\ UNCHANGED <<doc, stage, protocol, wired, derived>>

effective == doc.ops \o synthetic

Built ==
  /\ stage = "build" /\ k > Len(doc.ops)
  /\ stage' = IF wired THEN "derive" ELSE "done"
  /\ k' = 1
  /\ UNCHANGED <<doc, synthetic, protocol, wired, derived>>

\* redisBindingDefaults: what one operation declares must be complete and
\* agree with what was declared before.
Agrees(known, unset, declared) == known = unset \/ known = declared

AcceptableLastWins(op) ==  \* mutant: maxLen is not compared
  LET ch == Binding(ChannelOf(op).redis)
      declared == Binding(op.redis).group
  IN
  /\ ch.type # absent /\ Agrees(mode, empty, ch.type)
  /\ op.action = "receive" =>
       IF declared = empty THEN ch.type = "pubsub" ELSE Agrees(group, empty, declared)

AcceptableOnce(op) ==  \* mutant: a group may be declared only once
  LET ch == Binding(ChannelOf(op).redis)
      declared == Binding(op.redis).group
  IN
  /\ ch.type # absent /\ Agrees(mode, empty, ch.type)
  /\ op.action = "receive" => IF declared = empty THEN ch.type = "pubsub" ELSE group = empty
  /\ op.action = "send" /\ ch.maxLen # 0 => Agrees(maxLen, 0, ch.maxLen)

Acceptable(op) ==
  LET ch == Binding(ChannelOf(op).redis)
      declared == Binding(op.redis).group
  IN
  /\ ch.type # absent /\ Agrees(mode, empty, ch.type)
  /\ op.action = "receive" =>
       IF declared = empty THEN ch.type = "pubsub" ELSE Agrees(group, empty, declared)
  /\ op.action = "send" /\ ch.maxLen # 0 => Agrees(maxLen, 0, ch.maxLen)

\* One round of its loop.
Derive ==
  LET op == effective[k]
      declared == Binding(op.redis).group
      trim == Binding(ChannelOf(op).redis).maxLen
  IN
  /\ stage = "derive" /\ k <= Len(effective) /\ Acceptable(op)
  /\ mode' = TypeOf(op)
  /\ group' = IF op.action = "receive" /\ declared # empty THEN declared ELSE group
  /\ maxLen' = IF op.action = "send" /\ trim # 0 THEN trim ELSE maxLen
  /\ k' = k + 1
  /\ UNCHANGED <<doc, stage, synthetic, protocol, wired>>

DeriveFails ==
  /\ stage = "derive" /\ k <= Len(effective) /\ ~Acceptable(effective[k])
  /\ stage' = "rejected"
  /\ UNCHANGED <<doc, k, synthetic, protocol, wired, derived>>

Generate ==
  /\ stage = "derive" /\ k > Len(effective)
  /\ stage' = "done"
  /\ UNCHANGED <<doc, k, synthetic, protocol, wired, derived>>

Next ==
  \/ ParseOperation \/ CheckServers
  \/ BuildOperation \/ Built \/ Derive \/ DeriveFails \/ Generate

Spec == Init /\ [][Next]_vars

-----------------------------------------------------------------------------
(* The generated service.                                                  *)

\* The unique static addresses of the receive operations, in order.
Receives(i) == doc.ops[i].action = "receive" /\ ChannelOf(doc.ops[i]).static
FirstUses ==
  {i \in DOMAIN doc.ops :
     Receives(i) /\ \A j \in 1..i-1 : Receives(j) => doc.ops[j].channel # doc.ops[i].channel}
ReceiveChannels ==
  [n \in 1..Cardinality(FirstUses) |->
     doc.ops[CHOOSE i \in FirstUses : Cardinality({j \in FirstUses : j <= i}) = n].channel]

\* What NewServer passes to NewConsumer, and NewClient to NewPublisher.
RuntimeMode == IF mode = "pubsub" THEN "pubsub" ELSE empty
ServerConfig ==
  [mode |-> RuntimeMode, addresses |-> ReceiveChannels, group |-> group # empty,
   addr |-> TRUE, client |-> FALSE]
ClientConfig == [mode |-> RuntimeMode, maxLen |-> maxLen, addr |-> TRUE, client |-> FALSE]

-----------------------------------------------------------------------------
(* Properties                                                              *)

TypeOK ==
  /\ stage \in {"parse", "build", "derive", "done", "rejected"}
  /\ k \in 1..Len(effective) + 1
  /\ synthetic \in Seq(OperationsOn(doc.channels))
  /\ protocol \in {empty, "redis", "other"} /\ wired \in BOOLEAN
  /\ mode \in {empty, "stream", "pubsub"} /\ maxLen \in Nat

\* Every operation of the document and every reply to one: what the service
\* does, read off the document alone.
Uses ==
  {doc.ops[i] : i \in DOMAIN doc.ops} \cup
  {ReplyOf(doc.ops[i]) : i \in {j \in DOMAIN doc.ops : Asks(doc.ops[j])}}
Of(action) == {op \in Uses : op.action = action}
DeclaredGroup(op) == Binding(op.redis).group
DeclaredMaxLen(op) == Binding(ChannelOf(op).redis).maxLen

\* The constructors of a generated service are never refused by the runtime:
\* the checks of the parser and the generator cover those of NewConsumer and
\* NewPublisher.
ConstructorsAccepted ==
  stage = "done" /\ wired =>
    /\ ReceiveChannels # <<>> => ConsumerAccepts(ServerConfig)
    /\ PublisherAccepts(ClientConfig)

\* One consumer and one publisher serve the whole document, so whatever any
\* operation declared, replies included, is what the constructors are given:
\* redisBindingDefaults never lets a later declaration win over an earlier one, and the
\* constructors take it.
WiringIsDeclared ==
  stage = "done" /\ wired =>
    /\ \A op \in Uses : TypeOf(op) = mode
    /\ \A op \in Of("receive") : IF mode = "stream" THEN DeclaredGroup(op) = group ELSE group = empty
    /\ \A op \in Of("send") : DeclaredMaxLen(op) \in {0, maxLen}
    /\ ConstructorsAccepted

\* A document is refused only for a reason that can be read off it: a
\* declaration or a server the parser does not take, or a wired service whose
\* declarations are incomplete or disagree; and none of these is let through.
Valid ==
  /\ \A i \in DOMAIN doc.ops : Parses(doc.ops[i])
  /\ doc.ignores \/ \A i \in DOMAIN doc.servers : doc.servers[i] # "unknown"
Consistent ==
  /\ \A op \in Uses : TypeOf(op) # absent
  /\ \A op, other \in Uses : TypeOf(op) = TypeOf(other)
  /\ \A op \in Of("receive") : TypeOf(op) = "stream" => DeclaredGroup(op) # empty
  /\ \A op, other \in Of("receive") : DeclaredGroup(op) = DeclaredGroup(other)
  /\ \A op, other \in Of("send") :
       DeclaredMaxLen(op) = DeclaredMaxLen(other) \/ 0 \in {DeclaredMaxLen(op), DeclaredMaxLen(other)}
RefusedForAReason ==
  /\ stage = "rejected" => ~Valid \/ (wired /\ ~Consistent)
  /\ stage = "done" => Valid /\ (wired => Consistent)

=============================================================================
