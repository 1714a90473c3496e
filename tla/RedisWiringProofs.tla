----------------------------- MODULE RedisWiringProofs -----------------------------
(***************************************************************************)
(* Theorems about RedisWiring, for all documents: what a service is        *)
(* constructed with is what its document declares, and a document is       *)
(* refused for a reason only.                                              *)
(***************************************************************************)
EXTENDS RedisWiring, FiniteSetTheorems, SequenceTheorems, TLAPS

Elements(s) == {s[i] : i \in DOMAIN s}

\* The replies to the first n operations.
RepliesTo(n) == {ReplyOf(doc.ops[i]) : i \in {j \in 1..n : Asks(doc.ops[j])}}

\* The operations redisBindingDefaults has gone through.
Seen ==
  IF stage = "derive" THEN {effective[i] : i \in 1..k-1}
  ELSE IF stage = "done" /\ wired THEN Uses ELSE {}

\* How far the document is read: parsed operations are valid, replies have
\* become operations, and the wiring is derived for redis only.
Progress ==
  /\ stage \in {"parse", "build"} => k <= Len(doc.ops) + 1
  /\ stage = "parse" => synthetic = <<>> /\ \A i \in 1..k-1 : Parses(doc.ops[i])
  /\ stage = "build" => Elements(synthetic) = RepliesTo(k - 1)
  /\ stage \in {"derive", "done"} => Elements(synthetic) = RepliesTo(Len(doc.ops))
  /\ stage \in {"build", "derive", "done"} => Valid
  /\ stage = "derive" => wired

\* What was derived agrees with every operation gone through.
Carried ==
  \A op \in Seen :
    /\ TypeOf(op) = mode /\ mode \in {"stream", "pubsub"}
    /\ op.action = "receive" /\ mode = "stream" => DeclaredGroup(op) = group /\ group # empty
    /\ op.action = "receive" /\ mode = "pubsub" => DeclaredGroup(op) = empty
    /\ op.action = "send" => DeclaredMaxLen(op) \in {0, maxLen}

\* What was derived was declared by one of them.
Earned ==
  stage # "rejected" =>
    /\ mode # empty => \E op \in Seen : TypeOf(op) = mode
    /\ group # empty => \E op \in Seen : op.action = "receive" /\ DeclaredGroup(op) = group
    /\ maxLen # 0 => \E op \in Seen : op.action = "send" /\ DeclaredMaxLen(op) = maxLen

Reasons == stage = "rejected" => ~Valid \/ (wired /\ ~Consistent)

IInv == doc \in Documents /\ TypeOK /\ Progress /\ Carried /\ Earned /\ Reasons

-----------------------------------------------------------------------------
\* The zero string is none of the names compared with it.
LEMMA EmptyIsNoName ==
  /\ empty # "stream" /\ empty # "streams" /\ empty # "pubsub" /\ empty # absent
  /\ empty # "redis" /\ empty # "other"
BY Zenon DEF empty, absent

\* The lists of a document.
LEMMA DocFacts ==
  ASSUME doc \in Documents
  PROVE  /\ doc.ops \in Seq(OperationsOn(doc.channels))
         /\ DOMAIN doc.ops = 1..Len(doc.ops) /\ Len(doc.ops) \in Nat
         /\ \A i \in DOMAIN doc.ops : doc.ops[i] \in OperationsOn(doc.channels)
         /\ \A c \in DOMAIN doc.channels : doc.channels[c].redis \in Extensions
<1>1. /\ doc.channels \in Seq([static : BOOLEAN, redis : Extensions])
      /\ doc.ops \in Seq(OperationsOn(doc.channels))
  BY DocumentAssumption
<1>2. \A c \in DOMAIN doc.channels : doc.channels[c] \in [static : BOOLEAN, redis : Extensions]
  <2>1. \A c \in 1..Len(doc.channels) : doc.channels[c] \in [static : BOOLEAN, redis : Extensions]
    BY <1>1, ElementOfSeq
  <2>2. QED
    BY <1>1, <2>1, LenProperties
<1>3. QED
  BY <1>1, <1>2

\* A channel extension that parses has a known type, and a maxLen on streams
\* only.
LEMMA ChannelBinding ==
  ASSUME NEW x \in Extensions, ChannelParses(x)
  PROVE  /\ Binding(x).type \in {absent, "stream", "pubsub"}
         /\ Binding(x).maxLen \in Nat
         /\ Binding(x).maxLen # 0 => Binding(x).type = "stream"
<1>1. x.maxLen \in Int /\ (x.maxLen # noMaxLen => x.maxLen \in Int)
  BY DEF Extensions
<1>2. CASE Declares(x)
  <2>1. /\ x.type \in {"stream", "pubsub"}
        /\ x.maxLen # noMaxLen => x.type = "stream" /\ x.maxLen >= 1
    BY <1>2 DEF ChannelParses
  <2>2. /\ Binding(x).type = x.type
        /\ Binding(x).maxLen = IF x.maxLen = noMaxLen THEN 0 ELSE x.maxLen
    BY <1>2 DEF Binding
  <2>3. QED
    BY <1>1, <2>1, <2>2
<1>3. CASE ~Declares(x)
  BY <1>3 DEF Binding, NoBinding
<1>4. QED
  BY <1>2, <1>3

\* The reply of a receive operation is a send operation on the reply's channel.
LEMMA ReplyFacts ==
  ASSUME NEW channels, NEW op \in OperationsOn(channels), Asks(op)
  PROVE  /\ ReplyOf(op) \in OperationsOn(channels)
         /\ ReplyOf(op).action = "send" /\ ReplyOf(op).channel = op.reply
<1>1. op.reply \in DOMAIN channels
  BY DEF Asks, OperationsOn
<1>2. op.redis \in Extensions
  BY DEF OperationsOn
<1>3. [op.redis EXCEPT !.kind = "none"] \in Extensions
  BY <1>2 DEF Extensions
<1>4. QED
  BY <1>1, <1>3 DEF ReplyOf, OperationsOn

\* Whatever the document does, its declarations are of known types, a maxLen
\* is on streams, and so is a group.
LEMMA UsesParse ==
  ASSUME doc \in Documents, Valid, NEW op \in Uses
  PROVE  /\ TypeOf(op) \in {absent, "stream", "pubsub"}
         /\ DeclaredMaxLen(op) \in Nat
         /\ DeclaredMaxLen(op) # 0 => TypeOf(op) = "stream"
         /\ op.action = "receive" /\ DeclaredGroup(op) # empty => TypeOf(op) = "stream"
         /\ op.action \in {"send", "receive"}
<1>1. CASE op \in {doc.ops[i] : i \in DOMAIN doc.ops}
  <2>1. Parses(op) /\ op \in OperationsOn(doc.channels)
    BY <1>1, DocFacts DEF Valid
  <2>2. op.channel \in DOMAIN doc.channels /\ op.action \in {"send", "receive"}
    BY <2>1 DEF OperationsOn
  <2>3. ChannelParses(ChannelOf(op).redis) /\ ChannelOf(op).redis \in Extensions
    BY <2>1, <2>2, DocFacts DEF Parses, ChannelOf
  <2>4. QED
    BY <2>1, <2>2, <2>3, ChannelBinding DEF Parses, GroupAllowed, TypeOf, DeclaredMaxLen, DeclaredGroup
<1>2. CASE op \in {ReplyOf(doc.ops[i]) : i \in {j \in DOMAIN doc.ops : Asks(doc.ops[j])}}
  <2>1. PICK i \in DOMAIN doc.ops : Asks(doc.ops[i]) /\ op = ReplyOf(doc.ops[i])
    BY <1>2
  <2>2. Parses(doc.ops[i]) /\ doc.ops[i] \in OperationsOn(doc.channels)
    BY DocFacts DEF Valid
  <2>3. op.action = "send" /\ op.channel = doc.ops[i].reply
    BY <2>1, <2>2, ReplyFacts
  <2>4. doc.ops[i].reply \in DOMAIN doc.channels
    BY <2>1, <2>2 DEF Asks, OperationsOn
  <2>5. ChannelParses(ChannelOf(op).redis) /\ ChannelOf(op).redis \in Extensions
    BY <2>1, <2>2, <2>3, <2>4, DocFacts DEF Parses, ChannelOf, Asks
  <2>6. QED
    BY <2>3, <2>5, ChannelBinding DEF TypeOf, DeclaredMaxLen
<1>3. QED
  BY <1>1, <1>2 DEF Uses

\* What redisBindingDefaults goes through is what the document does.
LEMMA EffectiveUses ==
  ASSUME doc \in Documents, synthetic \in Seq(OperationsOn(doc.channels)),
         Elements(synthetic) = RepliesTo(Len(doc.ops))
  PROVE  /\ Len(effective) \in Nat
         /\ {effective[i] : i \in 1..Len(effective)} = Uses
         /\ \A i \in 1..Len(effective) : effective[i] \in Uses
<1>1. /\ doc.ops \in Seq(OperationsOn(doc.channels))
      /\ DOMAIN doc.ops = 1..Len(doc.ops) /\ Len(doc.ops) \in Nat
  BY DocFacts
<1>2. Len(synthetic) \in Nat /\ DOMAIN synthetic = 1..Len(synthetic)
  OBVIOUS
<1>3. /\ Len(effective) = Len(doc.ops) + Len(synthetic)
      /\ \A i \in 1..Len(doc.ops) : effective[i] = doc.ops[i]
      /\ \A i \in 1..Len(synthetic) : effective[Len(doc.ops) + i] = synthetic[i]
  BY <1>1, <1>2 DEF effective
<1>4. Uses = {doc.ops[i] : i \in 1..Len(doc.ops)} \cup Elements(synthetic)
  BY <1>1 DEF Uses, RepliesTo
<1>5. ASSUME NEW i \in 1..Len(effective) PROVE effective[i] \in Uses
  <2>1. CASE i \in 1..Len(doc.ops)
    BY <1>3, <1>4, <2>1
  <2>2. CASE i \notin 1..Len(doc.ops)
    <3>1. i - Len(doc.ops) \in 1..Len(synthetic) /\ i = Len(doc.ops) + (i - Len(doc.ops))
      BY <1>1, <1>2, <1>3, <1>5, <2>2
    <3>2. effective[i] = synthetic[i - Len(doc.ops)]
      BY <1>3, <3>1
    <3>3. QED
      BY <1>2, <1>4, <3>1, <3>2 DEF Elements
  <2>3. QED
    BY <2>1, <2>2
<1>6. ASSUME NEW op \in Uses PROVE \E i \in 1..Len(effective) : op = effective[i]
  <2>1. CASE op \in {doc.ops[i] : i \in 1..Len(doc.ops)}
    <3>1. PICK i \in 1..Len(doc.ops) : op = doc.ops[i]
      BY <2>1
    <3>2. i \in 1..Len(effective) /\ op = effective[i]
      BY <1>1, <1>2, <1>3, <3>1
    <3>3. QED
      BY <3>2
  <2>2. CASE op \in Elements(synthetic)
    <3>1. PICK i \in 1..Len(synthetic) : op = synthetic[i]
      BY <1>2, <2>2 DEF Elements
    <3>2. Len(doc.ops) + i \in 1..Len(effective) /\ op = effective[Len(doc.ops) + i]
      BY <1>1, <1>2, <1>3, <3>1
    <3>3. QED
      BY <3>2
  <2>3. QED
    BY <1>4, <1>6, <2>1, <2>2
<1>7. QED
  BY <1>1, <1>2, <1>3, <1>5, <1>6

\* The loops count within the operations.
LEMMA Counting ==
  ASSUME doc \in Documents, TypeOK
  PROVE  /\ Len(effective) \in Nat /\ Len(effective) >= Len(doc.ops)
         /\ k \in Int /\ k >= 1 /\ k <= Len(effective) + 1
<1>1. /\ doc.ops \in Seq(OperationsOn(doc.channels)) /\ Len(doc.ops) \in Nat
      /\ synthetic \in Seq(OperationsOn(doc.channels)) /\ Len(synthetic) \in Nat
  BY DocFacts DEF TypeOK
<1>2. Len(effective) = Len(doc.ops) + Len(synthetic)
  BY <1>1 DEF effective
<1>3. QED
  BY <1>1, <1>2 DEF TypeOK

-----------------------------------------------------------------------------
(* The steps.                                                              *)

\* What is read off the document stays.
LEMMA DocumentStays ==
  ASSUME doc' = doc
  PROVE  /\ Uses' = Uses /\ Valid' = Valid /\ Consistent' = Consistent
         /\ \A op : TypeOf(op)' = TypeOf(op) /\ DeclaredMaxLen(op)' = DeclaredMaxLen(op)
         /\ \A op : Parses(op)' = Parses(op)
         /\ \A n : RepliesTo(n)' = RepliesTo(n)
<1>1. /\ \A op : ChannelOf(op)' = ChannelOf(op)
      /\ \A n : RepliesTo(n)' = RepliesTo(n)
      /\ Uses' = Uses
  BY DEF ChannelOf, RepliesTo, Uses
<1>2. \A op : TypeOf(op)' = TypeOf(op) /\ DeclaredMaxLen(op)' = DeclaredMaxLen(op)
  BY <1>1 DEF TypeOf, DeclaredMaxLen
<1>3. \A op : Parses(op)' = Parses(op)
  BY <1>1, <1>2 DEF Parses, GroupAllowed
<1>4. Valid' = Valid
  BY <1>3 DEF Valid
<1>5. Consistent' = Consistent
  BY <1>1, <1>2 DEF Consistent, Of
<1>6. QED
  BY <1>1, <1>2, <1>3, <1>4, <1>5

\* Nothing is declared by anyone at the start.
LEMMA InitKeeps ==
  ASSUME Init
  PROVE  IInv
<1>1. /\ doc \in Documents /\ stage = "parse" /\ k = 1 /\ synthetic = <<>>
      /\ protocol = empty /\ wired = FALSE /\ mode = empty /\ group = empty /\ maxLen = 0
  BY DEF Init
<1>2. Len(doc.ops) \in Nat /\ doc.ops \in Seq(OperationsOn(doc.channels))
  BY <1>1, DocFacts
<1>3. synthetic \in Seq(OperationsOn(doc.channels)) /\ Len(synthetic) = 0
  BY <1>1, EmptySeq
<1>4. TypeOK
  <2>1. Len(effective) = Len(doc.ops)
    BY <1>2, <1>3 DEF effective
  <2>2. k \in 1..Len(effective) + 1
    BY <1>1, <1>2, <2>1
  <2>3. QED
    BY <1>1, <1>3, <2>2 DEF TypeOK
<1>5. Progress
  BY <1>1, <1>2 DEF Progress
<1>6. Carried /\ Earned /\ Reasons
  BY <1>1 DEF Carried, Earned, Reasons, Seen
<1>7. QED
  BY <1>1, <1>4, <1>5, <1>6 DEF IInv

\* An operation that parses is one more valid one; one that does not is a reason.
LEMMA ParseKeeps ==
  ASSUME IInv, ParseOperation
  PROVE  IInv'
<1> USE DEF IInv
<1>1. /\ UNCHANGED <<doc, synthetic, protocol, wired, mode, group, maxLen>>
      /\ stage = "parse" /\ k <= Len(doc.ops) /\ synthetic = <<>>
  BY DEF ParseOperation, derived, Progress
<1>2. /\ doc.ops \in Seq(OperationsOn(doc.channels)) /\ DOMAIN doc.ops = 1..Len(doc.ops)
      /\ Len(doc.ops) \in Nat /\ k \in Int /\ k >= 1
  BY DocFacts, Counting
<1>3. effective' = effective /\ Len(effective) = Len(doc.ops)
  <2>1. Len(synthetic) = 0 /\ synthetic \in Seq(OperationsOn(doc.channels))
    BY <1>1, EmptySeq
  <2>2. QED
    BY <1>1, <1>2, <2>1 DEF effective
<1>4. Seen = {} /\ mode = empty /\ group = empty /\ maxLen = 0
  BY <1>1 DEF Seen, Earned
<1>5. CASE Parses(doc.ops[k]) /\ k' = k + 1 /\ stage' = stage
  <2>1. TypeOK'
    BY <1>1, <1>2, <1>3, <1>5 DEF TypeOK
  <2>2. \A i \in 1..k'-1 : Parses(doc.ops[i])
    <3>1. \A i \in 1..k'-1 : i \in 1..k-1 \/ i = k
      BY <1>2, <1>5
    <3>2. QED
      BY <1>1, <1>5, <3>1 DEF Progress
  <2>3. Progress'
    BY <1>1, <1>2, <1>5, <2>2, DocumentStays DEF Progress
  <2>4. Carried' /\ Earned' /\ Reasons'
    BY <1>1, <1>4, <1>5 DEF Carried, Earned, Reasons, Seen
  <2>5. QED
    BY <1>1, <2>1, <2>3, <2>4
<1>6. CASE ~Parses(doc.ops[k]) /\ k' = k /\ stage' = "rejected"
  <2>1. TypeOK'
    BY <1>1, <1>3, <1>6 DEF TypeOK
  <2>2. ~Valid
    BY <1>1, <1>2, <1>6 DEF Valid
  <2>3. Reasons'
    BY <1>1, <2>2, DocumentStays DEF Reasons
  <2>4. Progress' /\ Carried' /\ Earned'
    BY <1>6 DEF Progress, Carried, Earned, Seen
  <2>5. QED
    BY <1>1, <2>1, <2>3, <2>4
<1>7. QED
  BY <1>5, <1>6 DEF ParseOperation

\* Every operation parsed, the servers decide.
LEMMA ServersKeep ==
  ASSUME IInv, CheckServers
  PROVE  IInv'
<1> USE DEF IInv
<1>1. /\ UNCHANGED <<doc, synthetic, mode, group, maxLen>> /\ k' = 1
      /\ stage = "parse" /\ k > Len(doc.ops) /\ synthetic = <<>>
      /\ protocol' \in {empty, "redis", "other"} /\ wired' \in BOOLEAN
      /\ \/ stage' = "rejected" /\ Servers # DOMAIN doc.servers /\ ~doc.ignores
         \/ stage' = "build" /\ (Servers = DOMAIN doc.servers \/ doc.ignores)
  BY DEF CheckServers, derived, Progress, AllRedis
<1>2. /\ doc.ops \in Seq(OperationsOn(doc.channels)) /\ DOMAIN doc.ops = 1..Len(doc.ops)
      /\ Len(doc.ops) \in Nat /\ k \in Int /\ k >= 1
  BY DocFacts, Counting
<1>3. effective' = effective /\ Len(effective) = Len(doc.ops)
  <2>1. Len(synthetic) = 0 /\ synthetic \in Seq(OperationsOn(doc.channels))
    BY <1>1, EmptySeq
  <2>2. QED
    BY <1>1, <1>2, <2>1 DEF effective
<1>4. Seen = {} /\ mode = empty /\ group = empty /\ maxLen = 0
  BY <1>1 DEF Seen, Earned
<1>5. TypeOK'
  BY <1>1, <1>2, <1>3 DEF TypeOK
<1>6. Carried'
  BY <1>1 DEF Carried, Seen
<1>7. Earned'
  BY <1>1, <1>4 DEF Earned
<1>8. CASE stage' = "rejected" /\ Servers # DOMAIN doc.servers /\ ~doc.ignores
  <2>1. ~Valid
    BY <1>8 DEF Valid, Servers
  <2>2. Reasons' /\ Progress'
    BY <1>1, <1>8, <2>1, DocumentStays DEF Reasons, Progress
  <2>3. QED
    BY <1>1, <1>5, <1>6, <1>7, <2>2
<1>9. CASE stage' = "build" /\ (Servers = DOMAIN doc.servers \/ doc.ignores)
  <2>1. \A i \in DOMAIN doc.ops : i \in 1..k-1
    BY <1>1, <1>2
  <2>2. Valid
    BY <1>1, <1>9, <2>1 DEF Valid, Progress, Servers
  <2>3. Elements(synthetic)' = {} /\ RepliesTo(k - 1)' = {}
    <3>1. DOMAIN synthetic' = {} /\ 1..k'-1 = {}
      BY <1>1
    <3>2. QED
      BY <3>1 DEF RepliesTo, Elements
  <2>4. Progress'
    <3>1. 1 <= Len(doc.ops) + 1
      BY <1>2
    <3>2. k' <= Len(doc'.ops) + 1
      BY <1>1, <3>1
    <3>3. Valid'
      BY <1>1, <2>2, DocumentStays
    <3>4. QED
      BY <1>9, <2>3, <3>2, <3>3 DEF Progress
  <2>5. QED
    BY <1>1, <1>5, <1>6, <1>7, <1>9, <2>4 DEF Reasons
<1>10. QED
  BY <1>1, <1>8, <1>9

\* A reply becomes an operation.
LEMMA BuildKeeps ==
  ASSUME IInv, BuildOperation
  PROVE  IInv'
<1> USE DEF IInv
<1>1. /\ UNCHANGED <<doc, stage, protocol, wired, mode, group, maxLen>>
      /\ stage = "build" /\ k <= Len(doc.ops) /\ k' = k + 1
      /\ synthetic' = IF Asks(doc.ops[k]) THEN Append(synthetic, ReplyOf(doc.ops[k])) ELSE synthetic
  BY DEF BuildOperation, derived
<1>2. /\ doc.ops \in Seq(OperationsOn(doc.channels)) /\ DOMAIN doc.ops = 1..Len(doc.ops)
      /\ Len(doc.ops) \in Nat /\ k \in Int /\ k >= 1 /\ k \in DOMAIN doc.ops
      /\ synthetic \in Seq(OperationsOn(doc.channels)) /\ Len(synthetic) \in Nat
      /\ doc.ops[k] \in OperationsOn(doc.channels)
  <2>1. /\ DOMAIN doc.ops = 1..Len(doc.ops) /\ Len(doc.ops) \in Nat /\ k \in Int /\ k >= 1
        /\ doc.ops \in Seq(OperationsOn(doc.channels))
    BY DocFacts, Counting
  <2>2. k \in DOMAIN doc.ops
    BY <1>1, <2>1
  <2>3. QED
    BY <2>1, <2>2, DocFacts DEF TypeOK
<1>3. /\ synthetic' \in Seq(OperationsOn(doc.channels))
      /\ Elements(synthetic') = Elements(synthetic) \cup
                                (IF Asks(doc.ops[k]) THEN {ReplyOf(doc.ops[k])} ELSE {})
  <2>1. CASE Asks(doc.ops[k])
    <3>1. ReplyOf(doc.ops[k]) \in OperationsOn(doc.channels)
      BY <1>2, <2>1, ReplyFacts
    <3> DEFINE r == ReplyOf(doc.ops[k])
               S == OperationsOn(doc.channels)
    <3>2. synthetic' = Append(synthetic, r) /\ r \in S /\ synthetic \in Seq(S)
      BY <1>1, <1>2, <2>1, <3>1
    <3> HIDE DEF r, S
    <3>3. /\ synthetic' \in Seq(S) /\ DOMAIN synthetic' = 1..Len(synthetic) + 1
          /\ DOMAIN synthetic = 1..Len(synthetic)
          /\ \A i \in 1..Len(synthetic) : synthetic'[i] = synthetic[i]
          /\ synthetic'[Len(synthetic) + 1] = r
      BY <1>2, <3>2
    <3>4. Elements(synthetic') = Elements(synthetic) \cup {r}
      <4>1. \A i \in DOMAIN synthetic' : i \in DOMAIN synthetic \/ i = Len(synthetic) + 1
        BY <1>2, <3>3
      <4>2. DOMAIN synthetic \subseteq DOMAIN synthetic' /\ Len(synthetic) + 1 \in DOMAIN synthetic'
        BY <1>2, <3>3
      <4>3. QED
        BY <3>3, <4>1, <4>2 DEF Elements
    <3>5. QED
      BY <2>1, <3>3, <3>4 DEF r, S
  <2>2. CASE ~Asks(doc.ops[k])
    BY <1>1, <1>2, <2>2
  <2>3. QED
    BY <2>1, <2>2
<1>4. RepliesTo(k) = RepliesTo(k - 1) \cup (IF Asks(doc.ops[k]) THEN {ReplyOf(doc.ops[k])} ELSE {})
  <2>1. \A i : i \in 1..k <=> i \in 1..k-1 \/ i = k
    BY <1>2
  <2>2. QED
    BY <2>1 DEF RepliesTo
<1>5. Elements(synthetic)' = RepliesTo(k - 1)'
  <2>1. Elements(synthetic) = RepliesTo(k - 1)
    BY <1>1 DEF Progress
  <2>2. k' - 1 = k
    BY <1>1, <1>2
  <2>3. Elements(synthetic)' = Elements(synthetic') /\ RepliesTo(k - 1)' = RepliesTo(k)
    BY <1>1, <2>2 DEF Elements, RepliesTo
  <2>4. QED
    BY <1>3, <1>4, <2>1, <2>3
<1>6. Len(effective') \in Nat /\ Len(effective') >= Len(doc.ops)
  <2>1. effective' = doc.ops \o synthetic'
    BY <1>1 DEF effective
  <2>2. Len(effective') = Len(doc.ops) + Len(synthetic') /\ Len(synthetic') \in Nat
    BY <1>2, <1>3, <2>1
  <2>3. QED
    BY <1>2, <2>2
<1>7. TypeOK'
  BY <1>1, <1>2, <1>3, <1>6 DEF TypeOK
<1>8. Progress'
  BY <1>1, <1>2, <1>5, DocumentStays DEF Progress
<1>9. Carried' /\ Earned' /\ Reasons'
  BY <1>1 DEF Carried, Earned, Reasons, Seen
<1>10. QED
  BY <1>1, <1>7, <1>8, <1>9

\* With all replies made, the wiring is derived, for redis only.
LEMMA BuiltKeeps ==
  ASSUME IInv, Built
  PROVE  IInv'
<1> USE DEF IInv
<1>1. /\ UNCHANGED <<doc, synthetic, protocol, wired, mode, group, maxLen>>
      /\ stage = "build" /\ k > Len(doc.ops) /\ k' = 1
      /\ stage' = IF wired THEN "derive" ELSE "done"
  BY DEF Built, derived
<1>2. /\ doc.ops \in Seq(OperationsOn(doc.channels)) /\ Len(doc.ops) \in Nat
      /\ synthetic \in Seq(OperationsOn(doc.channels)) /\ k - 1 = Len(doc.ops)
  BY <1>1, DocFacts, Counting DEF TypeOK, Progress
<1>3. effective' = effective /\ Len(effective) \in Nat
  BY <1>1, Counting DEF effective
<1>4. TypeOK'
  BY <1>1, <1>3 DEF TypeOK
<1>5. Progress'
  <2>1. Elements(synthetic) = RepliesTo(Len(doc.ops))
    BY <1>1, <1>2 DEF Progress
  <2>2. Elements(synthetic)' = Elements(synthetic) /\ Len(doc.ops)' = Len(doc.ops)
    BY <1>1 DEF Elements
  <2>3. RepliesTo(Len(doc.ops))' = RepliesTo(Len(doc.ops))
    BY <1>1 DEF RepliesTo
  <2>4. QED
    BY <1>1, <2>1, <2>2, <2>3, DocumentStays DEF Progress
<1>6. Seen = {} /\ Seen' = {}
  BY <1>1, <1>3 DEF Seen
<1>7. Carried' /\ Earned' /\ Reasons'
  BY <1>1, <1>6 DEF Carried, Earned, Reasons
<1>8. QED
  BY <1>1, <1>4, <1>5, <1>7

\* The operation redisBindingDefaults looks at is one of the document's, and
\* what it declares was checked by the parser.
LEMMA LookedAt ==
  ASSUME IInv, stage = "derive", k <= Len(effective)
  PROVE  /\ effective[k] \in Uses /\ Seen \subseteq Uses /\ Valid /\ wired
         /\ Seen = {effective[i] : i \in 1..k-1}
         /\ TypeOf(effective[k]) \in {absent, "stream", "pubsub"}
         /\ DeclaredMaxLen(effective[k]) \in Nat
         /\ DeclaredMaxLen(effective[k]) # 0 => TypeOf(effective[k]) = "stream"
         /\ effective[k].action = "receive" /\ DeclaredGroup(effective[k]) # empty =>
              TypeOf(effective[k]) = "stream"
         /\ effective[k].action \in {"send", "receive"}
<1>1. /\ doc \in Documents /\ synthetic \in Seq(OperationsOn(doc.channels))
      /\ Elements(synthetic) = RepliesTo(Len(doc.ops)) /\ Valid /\ wired
  BY DEF IInv, TypeOK, Progress
<1>2. k \in Int /\ k >= 1 /\ Len(effective) \in Nat
  BY Counting DEF IInv
<1>3. effective[k] \in Uses
  BY <1>1, <1>2, EffectiveUses
<1>4. Seen = {effective[i] : i \in 1..k-1}
  BY DEF Seen
<1>5. Seen \subseteq Uses
  <2>1. \A i \in 1..k-1 : i \in 1..Len(effective)
    BY <1>2
  <2>2. QED
    BY <1>1, <1>4, <2>1, EffectiveUses
<1>6. QED
  BY <1>1, <1>3, <1>4, <1>5, UsesParse

\* An operation that agrees with what was derived is carried on.
LEMMA DeriveKeeps ==
  ASSUME IInv, Derive
  PROVE  IInv'
<1> USE DEF IInv
<1> DEFINE op == effective[k]
<1>1. /\ UNCHANGED <<doc, stage, synthetic, protocol, wired>>
      /\ stage = "derive" /\ k <= Len(effective) /\ Acceptable(op) /\ k' = k + 1
      /\ mode' = TypeOf(op)
      /\ group' = IF op.action = "receive" /\ DeclaredGroup(op) # empty THEN DeclaredGroup(op) ELSE group
      /\ maxLen' = IF op.action = "send" /\ DeclaredMaxLen(op) # 0 THEN DeclaredMaxLen(op) ELSE maxLen
  BY DEF Derive, DeclaredGroup, DeclaredMaxLen
<1>2. /\ op \in Uses /\ Seen \subseteq Uses /\ Valid /\ wired
      /\ Seen = {effective[i] : i \in 1..k-1}
      /\ TypeOf(op) \in {absent, "stream", "pubsub"}
      /\ DeclaredMaxLen(op) \in Nat
      /\ DeclaredMaxLen(op) # 0 => TypeOf(op) = "stream"
      /\ op.action = "receive" /\ DeclaredGroup(op) # empty => TypeOf(op) = "stream"
      /\ op.action \in {"send", "receive"}
  BY <1>1, LookedAt
<1>3. /\ TypeOf(op) # absent /\ (mode = empty \/ mode = TypeOf(op))
      /\ op.action = "receive" =>
           IF DeclaredGroup(op) = empty THEN TypeOf(op) = "pubsub"
           ELSE group = empty \/ group = DeclaredGroup(op)
      /\ op.action = "send" /\ DeclaredMaxLen(op) # 0 => maxLen = 0 \/ maxLen = DeclaredMaxLen(op)
  BY <1>1 DEF Acceptable, Agrees, TypeOf, DeclaredGroup, DeclaredMaxLen
<1>4. /\ k \in Int /\ k >= 1 /\ Len(effective) \in Nat /\ effective' = effective
  BY <1>1, Counting DEF effective
<1>5. Seen' = Seen \cup {op}
  <2>1. \A i : i \in 1..k'-1 <=> i \in 1..k-1 \/ i = k
    BY <1>1, <1>4
  <2>2. Seen' = {effective[i] : i \in 1..k'-1}
    BY <1>1, <1>4 DEF Seen
  <2>3. QED
    BY <1>2, <2>1, <2>2
<1> HIDE DEF op
<1>6. TypeOK'
  <2>1. mode' \in {empty, "stream", "pubsub"} /\ maxLen' \in Nat
    BY <1>1, <1>2, <1>3 DEF TypeOK
  <2>2. k' \in 1..Len(effective') + 1
    BY <1>1, <1>4
  <2>3. QED
    BY <1>1, <2>1, <2>2 DEF TypeOK
<1>7. Progress'
  <2>1. Elements(synthetic)' = Elements(synthetic) /\ RepliesTo(Len(doc.ops))' = RepliesTo(Len(doc.ops))
    BY <1>1 DEF Elements, RepliesTo
  <2>2. QED
    BY <1>1, <2>1, DocumentStays DEF Progress
<1>8. Carried'
  <2>1. SUFFICES ASSUME NEW o \in Seen \cup {op}
                 PROVE  /\ TypeOf(o) = mode' /\ mode' \in {"stream", "pubsub"}
                        /\ o.action = "receive" /\ mode' = "stream" =>
                             DeclaredGroup(o) = group' /\ group' # empty
                        /\ o.action = "receive" /\ mode' = "pubsub" => DeclaredGroup(o) = empty
                        /\ o.action = "send" => DeclaredMaxLen(o) \in {0, maxLen'}
    BY <1>1, <1>5, DocumentStays DEF Carried, DeclaredGroup
  <2>2. CASE o = op
    <3>1. op.action # "receive" \/ TypeOf(op) # "pubsub" \/ DeclaredGroup(op) = empty
      BY <1>2
    <3>2. QED
      BY <1>1, <1>2, <1>3, <2>2, <3>1
  <2>3. CASE o \in Seen
    <3>1. /\ TypeOf(o) = mode /\ mode \in {"stream", "pubsub"}
          /\ o.action = "receive" /\ mode = "stream" => DeclaredGroup(o) = group /\ group # empty
          /\ o.action = "receive" /\ mode = "pubsub" => DeclaredGroup(o) = empty
          /\ o.action = "send" => DeclaredMaxLen(o) \in {0, maxLen}
      BY <2>3 DEF Carried
    <3>2. mode' = mode
      BY <1>1, <1>3, <3>1, EmptyIsNoName
    <3>3. mode = "stream" /\ group # empty => group' = group
      BY <1>1, <1>3
    <3>4. maxLen # 0 => maxLen' = maxLen
      BY <1>1, <1>3
    <3>5. QED
      BY <3>1, <3>2, <3>3, <3>4
  <2>4. QED
    BY <2>1, <2>2, <2>3
<1>9. Earned'
  <2>1. /\ mode # empty => \E o \in Seen : TypeOf(o) = mode
        /\ group # empty => \E o \in Seen : o.action = "receive" /\ DeclaredGroup(o) = group
        /\ maxLen # 0 => \E o \in Seen : o.action = "send" /\ DeclaredMaxLen(o) = maxLen
    BY <1>1 DEF Earned
  <2>2. \E o \in Seen' : TypeOf(o) = mode'
    BY <1>1, <1>5
  <2>3. group' # empty => \E o \in Seen' : o.action = "receive" /\ DeclaredGroup(o) = group'
    BY <1>1, <1>5, <2>1
  <2>4. maxLen' # 0 => \E o \in Seen' : o.action = "send" /\ DeclaredMaxLen(o) = maxLen'
    BY <1>1, <1>5, <2>1
  <2>5. QED
    BY <1>1, <2>2, <2>3, <2>4, DocumentStays DEF Earned, DeclaredGroup
<1>10. QED
  BY <1>1, <1>6, <1>7, <1>8, <1>9 DEF Reasons

\* What is not accepted is incomplete, or disagrees with an operation before.
LEMMA FailsKeeps ==
  ASSUME IInv, DeriveFails
  PROVE  IInv'
<1> USE DEF IInv
<1> DEFINE op == effective[k]
<1>1. /\ UNCHANGED <<doc, k, synthetic, protocol, wired, mode, group, maxLen>>
      /\ stage = "derive" /\ k <= Len(effective) /\ ~Acceptable(op) /\ stage' = "rejected"
  BY DEF DeriveFails, derived
<1>2. /\ op \in Uses /\ Seen \subseteq Uses /\ wired
      /\ TypeOf(op) \in {absent, "stream", "pubsub"} /\ op.action \in {"send", "receive"}
  BY <1>1, LookedAt
<1>3. /\ mode # empty => \E o \in Seen : TypeOf(o) = mode
      /\ group # empty => \E o \in Seen : o.action = "receive" /\ DeclaredGroup(o) = group
      /\ maxLen # 0 => \E o \in Seen : o.action = "send" /\ DeclaredMaxLen(o) = maxLen
  BY <1>1 DEF Earned
<1> HIDE DEF op
<1>4. \/ TypeOf(op) = absent
      \/ mode # empty /\ mode # TypeOf(op)
      \/ op.action = "receive" /\ DeclaredGroup(op) = empty /\ TypeOf(op) # "pubsub"
      \/ op.action = "receive" /\ group # empty /\ group # DeclaredGroup(op)
      \/ op.action = "send" /\ DeclaredMaxLen(op) # 0 /\ maxLen # 0 /\ maxLen # DeclaredMaxLen(op)
  BY <1>1 DEF Acceptable, Agrees, TypeOf, DeclaredGroup, DeclaredMaxLen
<1>5. ~Consistent
  <2>1. CASE TypeOf(op) = absent
    BY <1>2, <2>1 DEF Consistent
  <2>2. CASE mode # empty /\ mode # TypeOf(op)
    BY <1>2, <1>3, <2>2 DEF Consistent
  <2>3. CASE op.action = "receive" /\ DeclaredGroup(op) = empty /\ TypeOf(op) # "pubsub"
    BY <1>2, <2>3 DEF Consistent, Of
  <2>4. CASE op.action = "receive" /\ group # empty /\ group # DeclaredGroup(op)
    BY <1>2, <1>3, <2>4 DEF Consistent, Of
  <2>5. CASE op.action = "send" /\ DeclaredMaxLen(op) # 0 /\ maxLen # 0 /\ maxLen # DeclaredMaxLen(op)
    BY <1>2, <1>3, <2>5 DEF Consistent, Of
  <2>6. QED
    BY <1>4, <2>1, <2>2, <2>3, <2>4, <2>5
<1>6. TypeOK'
  <2>1. effective' = effective
    BY <1>1 DEF effective
  <2>2. QED
    BY <1>1, <2>1 DEF TypeOK
<1>7. Progress' /\ Carried' /\ Earned' /\ Reasons'
  BY <1>1, <1>2, <1>5, DocumentStays DEF Progress, Carried, Earned, Reasons, Seen
<1>8. QED
  BY <1>1, <1>6, <1>7

\* At the end every operation has been gone through.
LEMMA GenerateKeeps ==
  ASSUME IInv, Generate
  PROVE  IInv'
<1> USE DEF IInv
<1>1. /\ UNCHANGED <<doc, k, synthetic, protocol, wired, mode, group, maxLen>>
      /\ stage = "derive" /\ k > Len(effective) /\ stage' = "done" /\ wired
  BY DEF Generate, derived, Progress
<1>2. effective' = effective
  BY <1>1 DEF effective
<1>3. k - 1 = Len(effective)
  BY <1>1, Counting
<1>4. Seen' = Uses' /\ Seen = Uses /\ Uses' = Uses
  BY <1>1, <1>3, EffectiveUses, DocumentStays DEF Seen, TypeOK, Progress
<1>5. TypeOK'
  BY <1>1, <1>2 DEF TypeOK
<1>6. Progress'
  <2>1. Elements(synthetic)' = Elements(synthetic) /\ RepliesTo(Len(doc.ops))' = RepliesTo(Len(doc.ops))
    BY <1>1 DEF Elements, RepliesTo
  <2>2. QED
    BY <1>1, <2>1, DocumentStays DEF Progress
<1>7. Carried' /\ Earned' /\ Reasons'
  BY <1>1, <1>4, DocumentStays DEF Carried, Earned, Reasons, DeclaredGroup
<1>8. QED
  BY <1>1, <1>5, <1>6, <1>7

-----------------------------------------------------------------------------
\* Every step keeps the invariant.
LEMMA NextKeeps == IInv /\ [Next]_vars => IInv'
<1> SUFFICES ASSUME IInv, [Next]_vars PROVE IInv'
  OBVIOUS
<1>1. CASE UNCHANGED vars
  <2>1. UNCHANGED <<doc, stage, k, synthetic, protocol, wired, mode, group, maxLen>>
    BY <1>1 DEF vars
  <2>2. effective' = effective /\ Elements(synthetic)' = Elements(synthetic)
    BY <2>1 DEF effective, Elements
  <2>3. TypeOK'
    BY <2>1, <2>2 DEF IInv, TypeOK
  <2>4. RepliesTo(k - 1)' = RepliesTo(k - 1) /\ RepliesTo(Len(doc.ops))' = RepliesTo(Len(doc.ops))
    BY <2>1 DEF RepliesTo
  <2>5. Progress'
    BY <2>1, <2>2, <2>4, DocumentStays DEF IInv, Progress
  <2>6. Seen' = Seen
    BY <2>1, <2>2, DocumentStays DEF Seen
  <2>7. Carried' /\ Earned' /\ Reasons'
    BY <2>1, <2>6, DocumentStays DEF IInv, Carried, Earned, Reasons, DeclaredGroup
  <2>8. QED
    BY <2>1, <2>3, <2>5, <2>7 DEF IInv
<1>2. QED
  BY <1>1, ParseKeeps, ServersKeep, BuildKeeps, BuiltKeeps, DeriveKeeps, FailsKeeps, GenerateKeeps
     DEF Next

\* A wired service that was generated: its constructors are accepted.
LEMMA Accepted ==
  ASSUME IInv, stage = "done", wired
  PROVE  /\ ReceiveChannels # <<>> => ConsumerAccepts(ServerConfig)
         /\ PublisherAccepts(ClientConfig)
<1>1. /\ doc \in Documents /\ Valid /\ Seen = Uses
      /\ mode \in {empty, "stream", "pubsub"} /\ maxLen \in Nat
  BY DEF IInv, TypeOK, Progress, Seen
<1>2. ASSUME ReceiveChannels # <<>> PROVE ConsumerAccepts(ServerConfig)
  <2>1. PICK i \in DOMAIN doc.ops : doc.ops[i].action = "receive"
    <3>1. CASE FirstUses = {}
      <4>1. Cardinality(FirstUses) = 0
        BY <3>1, FS_EmptySet
      <4>2. ReceiveChannels = <<>>
        BY <4>1 DEF ReceiveChannels
      <4>3. QED
        BY <1>2, <4>2
    <3>2. CASE FirstUses # {}
      BY <3>2 DEF FirstUses, Receives
    <3>3. QED
      BY <3>1, <3>2
  <2>2. doc.ops[i] \in Seen
    BY <1>1 DEF Uses
  <2>3. mode \in {"stream", "pubsub"} /\ (mode = "stream" => group # empty)
    BY <2>1, <2>2 DEF IInv, Carried
  <2>4. RuntimeMode \in KnownModes /\ (parseMode(RuntimeMode) = "streams" => group # empty)
    <3>1. RuntimeMode = IF mode = "pubsub" THEN "pubsub" ELSE empty
      BY DEF RuntimeMode
    <3>2. QED
      BY <2>3, <3>1, EmptyIsNoName DEF KnownModes, parseMode
  <2>5. QED
    BY <1>2, <2>4 DEF ConsumerAccepts, ServerConfig
<1>3. PublisherAccepts(ClientConfig)
  <2>1. RuntimeMode = IF mode = "pubsub" THEN "pubsub" ELSE empty
    BY DEF RuntimeMode
  <2>2. ASSUME mode = "pubsub" PROVE maxLen = 0
    <3>1. SUFFICES ASSUME maxLen # 0 PROVE FALSE
      OBVIOUS
    <3>2. PICK op \in Uses : op.action = "send" /\ DeclaredMaxLen(op) = maxLen
      BY <1>1, <3>1 DEF IInv, Earned
    <3>3. TypeOf(op) = "stream"
      BY <1>1, <3>1, <3>2, UsesParse
    <3>4. TypeOf(op) = mode
      BY <1>1, <3>2 DEF IInv, Carried
    <3>5. QED
      BY <2>2, <3>3, <3>4
  <2>3. RuntimeMode \in KnownModes /\ (parseMode(RuntimeMode) = "pubsub" => maxLen <= 0)
    BY <2>1, <2>2, EmptyIsNoName DEF KnownModes, parseMode
  <2>4. QED
    BY <2>3 DEF PublisherAccepts, ClientConfig
<1>4. QED
  BY <1>2, <1>3

\* A wired service was derived from every operation of its document.
LEMMA Wired ==
  ASSUME IInv
  PROVE  WiringIsDeclared
<1> SUFFICES ASSUME stage = "done", wired
             PROVE  /\ \A op \in Uses : TypeOf(op) = mode
                    /\ \A op \in Of("receive") :
                         IF mode = "stream" THEN DeclaredGroup(op) = group ELSE group = empty
                    /\ \A op \in Of("send") : DeclaredMaxLen(op) \in {0, maxLen}
                    /\ ConstructorsAccepted
  BY DEF WiringIsDeclared
<1>1. Seen = Uses /\ doc \in Documents /\ Valid
  BY DEF Seen, IInv, Progress
<1>2. \A op \in Uses :
        /\ TypeOf(op) = mode /\ mode \in {"stream", "pubsub"}
        /\ op.action = "receive" /\ mode = "stream" => DeclaredGroup(op) = group
        /\ op.action = "send" => DeclaredMaxLen(op) \in {0, maxLen}
  BY <1>1 DEF IInv, Carried
<1>3. ASSUME mode = "pubsub" PROVE group = empty
  <2>1. SUFFICES ASSUME group # empty PROVE FALSE
    OBVIOUS
  <2>2. PICK op \in Uses : op.action = "receive" /\ DeclaredGroup(op) = group
    BY <1>1, <2>1 DEF IInv, Earned
  <2>3. TypeOf(op) = "stream" /\ TypeOf(op) = mode
    BY <1>1, <1>2, <2>1, <2>2, UsesParse
  <2>4. QED
    BY <1>3, <2>3
<1>4. ConstructorsAccepted
  BY Accepted DEF ConstructorsAccepted
<1>5. QED
  BY <1>2, <1>3, <1>4 DEF Of

\* Nothing incomplete or contradictory is let through.
LEMMA Justified ==
  ASSUME IInv
  PROVE  RefusedForAReason
<1>1. stage = "rejected" => ~Valid \/ (wired /\ ~Consistent)
  BY DEF IInv, Reasons
<1>2. stage = "done" => Valid
  BY DEF IInv, Progress
<1>3. ASSUME stage = "done", wired PROVE Consistent
  <2>1. Seen = Uses /\ doc \in Documents /\ Valid
    BY <1>3 DEF Seen, IInv, Progress
  <2>2. \A op \in Uses :
          /\ TypeOf(op) = mode /\ mode \in {"stream", "pubsub"}
          /\ op.action = "receive" /\ mode = "stream" => DeclaredGroup(op) = group /\ group # empty
          /\ op.action = "receive" /\ mode = "pubsub" => DeclaredGroup(op) = empty
          /\ op.action = "send" => DeclaredMaxLen(op) \in {0, maxLen}
    BY <2>1 DEF IInv, Carried
  <2>3. \A op, other \in Of("receive") : DeclaredGroup(op) = DeclaredGroup(other)
    BY <2>2 DEF Of
  <2>4. \A op, other \in Of("send") :
          DeclaredMaxLen(op) = DeclaredMaxLen(other) \/ 0 \in {DeclaredMaxLen(op), DeclaredMaxLen(other)}
    BY <2>2 DEF Of
  <2>5. \A op \in Of("receive") : TypeOf(op) = "stream" => DeclaredGroup(op) # empty
    BY <2>2 DEF Of
  <2>6. /\ \A op \in Uses : TypeOf(op) # absent
        /\ \A op, other \in Uses : TypeOf(op) = TypeOf(other)
    BY <2>2 DEF absent
  <2>7. QED
    BY <2>3, <2>4, <2>5, <2>6 DEF Consistent
<1>4. QED
  BY <1>1, <1>2, <1>3 DEF RefusedForAReason

\* The invariant holds from the first operation parsed to the generated wiring.
THEOREM Invariance == Spec => []IInv
<1>1. Init => IInv
  BY InitKeeps
<1>2. IInv /\ [Next]_vars => IInv'
  BY NextKeeps
<1>3. QED
  BY <1>1, <1>2, PTL DEF Spec

\* The mode, group and maxLen NewServer and NewClient hand to runtime/redis
\* are those every operation and every reply declared, whatever the order of
\* the operations, and NewConsumer and NewPublisher accept them
\* (redisBindingDefaults, server.tmpl, client.tmpl).
THEOREM WiredAsDeclared == Spec => []WiringIsDeclared
<1>1. IInv => WiringIsDeclared
  BY Wired
<1>2. QED
  BY <1>1, Invariance, PTL

\* The parser and redisBindingDefaults refuse a document only for what can be
\* read off it, and let nothing incomplete or contradictory through.
THEOREM RefusalsAreJustified == Spec => []RefusedForAReason
<1>1. IInv => RefusedForAReason
  BY Justified
<1>2. QED
  BY <1>1, Invariance, PTL

=============================================================================
