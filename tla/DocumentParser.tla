----------------------------- MODULE DocumentParser -----------------------------
(***************************************************************************)
(* asyncapi/parser: from the raw document to the semantic API.  Operations *)
(* are parsed in the order of their names; channels, messages and          *)
(* parameters that are reached through a reference are cached by pointer   *)
(* and shared from then on, so what one operation does to a cached object  *)
(* is seen by all the others.                                              *)
(*                                                                         *)
(* A position of the document that may hold an object or {$ref: pointer}   *)
(* is a slot: a record whose field ref is "" for an object in place, and   *)
(* doc.at maps pointers to slots.  Of titles, bindings and other optional  *)
(* fields a slot says which ones are there (fields).  The checks of the    *)
(* x-redis extensions are those of RedisWiring and are left out here.      *)
(***************************************************************************)
EXTENDS Naturals, Sequences, SequencesExt, FiniteSets

CONSTANTS
  Documents,   \* the documents considered
  DepthLimit   \* references that may be open at a time

ASSUME DepthAssumption == DepthLimit \in Nat \ {0}

empty == ""       \* Go's zero string
rootKey == empty  \* the zero RefKey

\* What a document lists is a sequence; a part is an operation or a reply.  What is at
\* a pointer is decoded as what the reference is to, a message if need be.
IsSeq(s) == s \in Seq(ToSet(s))
TargetIn(d, slot) == IF slot.ref = empty THEN slot ELSE d.at[slot.ref]
MessageListed(m) == m.ref = empty => IsSeq(m.traits)
ChannelListed(c) ==
  /\ IsSeq(c.messages) /\ IsSeq(c.traits) /\ IsSeq(c.params)
  /\ \A m \in ToSet(c.messages) : MessageListed(m.slot)
\* A trait of a channel may name servers.
ServersListed(d, c) ==
  \A t \in ToSet(c.traits) :
    t.ref \in DOMAIN d.at \cup {empty} /\ TargetIn(d, t).ref = empty => IsSeq(TargetIn(d, t).servers)
PartListed(d, part) ==
  /\ IsSeq(part.messages) /\ \A m \in ToSet(part.messages) : MessageListed(m)
  /\ part.channel # <<>> =>
       LET c == part.channel[1] IN
       c.ref \in DOMAIN d.at \cup {empty} /\ TargetIn(d, c).ref = empty =>
         ChannelListed(TargetIn(d, c)) /\ ServersListed(d, TargetIn(d, c))
OperationListed(d, o) ==
  IsSeq(o.traits) /\ PartListed(d, o) /\ IsSeq(o.reply) /\ (o.reply # <<>> => PartListed(d, o.reply[1]))

ASSUME DocumentAssumption ==
  \A d \in Documents :
    /\ IsSeq(d.ops) /\ \A p \in DOMAIN d.at : MessageListed(d.at[p])
    /\ \A o \in {x.slot : x \in ToSet(d.ops)} :
         o.ref \in DOMAIN d.at \cup {empty} /\ TargetIn(d, o).action \in {"send", "receive"} =>
           OperationListed(d, TargetIn(d, o))

VARIABLES
  doc,
  stage,    \* what is parsed next
  k,        \* the operation in work
  side,     \* "operation", or "reply" while its reply is parsed
  work,     \* the parsed operation so far
  ch,       \* the channel in work
  rest,     \* traits, parameters or messages still to be parsed
  chain,    \* the message references followed so far
  refs,     \* ctx: the references that are open
  channels, messages,  \* the caches: pointers to parsed objects
  paramName,           \* Name of the cached parameters
  api,      \* the operations parsed
  reason    \* why the document was refused

caches == <<channels, messages, paramName>>
vars == <<doc, stage, k, side, work, ch, rest, chain, refs, caches, api, reason>>

NoChannel == [id |-> empty, name |-> empty]
NoWork == [name |-> empty]

Init ==
  /\ doc \in Documents
  /\ stage = "version" /\ k = 1 /\ side = "operation"
  /\ work = NoWork /\ ch = NoChannel /\ rest = <<>> /\ chain = <<>>
  /\ refs = {} /\ channels = <<>> /\ messages = <<>> /\ paramName = <<>>
  /\ api = <<>> /\ reason = empty

-----------------------------------------------------------------------------
(* References.                                                             *)

\* ctx.AddKey and jsonpointer.Resolve: why a reference cannot be followed.
ProblemWith(open, ref) ==
  CASE ref = empty -> empty
    [] ref # empty -> IF Cardinality(open) >= DepthLimit THEN "depth"
                   ELSE IF ref \in open THEN "recursion"
                   ELSE IF ref \in DOMAIN doc.at THEN empty ELSE "unresolved"
Problem(ref) == ProblemWith(refs, ref)

Target(slot) == TargetIn(doc, slot)
OneHop(slot) == slot.ref # empty => slot.ref \in DOMAIN doc.at
Direct(slot) == OneHop(slot) /\ Target(slot).ref = empty
Chained(slot) == slot.ref # empty /\ Target(slot).ref # empty

Refuse(why) ==
  /\ stage' = "refused" /\ reason' = why
  /\ UNCHANGED <<doc, k, side, work, ch, rest, chain, refs, caches, api>>

\* A check that refuses, or the step that follows it.
Unless(why, step) == IF why # empty THEN Refuse(why) ELSE step

-----------------------------------------------------------------------------
(* Traits: a field that is there must not be set again.                    *)

\* The fields a message trait is compared on but never sets.
comparedOnly == {"headers", "correlationId"}
\* mergeTags is never called.
ignored == {"tags"}

Sets(slot) == IF Direct(slot) THEN Target(slot).fields \ (comparedOnly \cup ignored) ELSE {}

TraitProblem(fields, slot) ==
  IF Problem(slot.ref) # empty THEN Problem(slot.ref)
  ELSE IF Chained(slot) THEN "chained"
  ELSE IF (Target(slot).fields \ ignored) \cap fields # {} THEN "override" ELSE empty

\* The fields of an object after its first n traits, and why a trait is refused.
Merged(own, traits, n) == own \cup UNION {Sets(traits[i]) : i \in 1..n}
MergeProblem(own, traits) ==
  LET problem(i) == TraitProblem(Merged(own, traits, i - 1), traits[i])
      bad == {i \in DOMAIN traits : problem(i) # empty}
  IN IF bad = {} THEN empty ELSE problem(Min(bad))
AllMerged(own, traits) == Merged(own, traits, Len(traits))

-----------------------------------------------------------------------------
(* Parse: version, servers, then the operations.                           *)

CheckVersion ==
  /\ stage = "version"
  /\ Unless(IF doc.version \in {"3.0", "3.1"} THEN empty ELSE "version",
            /\ stage' = "servers"
            /\ UNCHANGED <<doc, k, side, work, ch, rest, chain, refs, caches, api, reason>>)

ServerProblem(slot) ==
  IF Problem(slot.ref) # empty THEN Problem(slot.ref)
  ELSE IF Target(slot).host THEN empty ELSE "server"

\* The servers are visited in no particular order.
ParseServers ==
  LET bad == {ServerProblem(doc.servers[n]) : n \in DOMAIN doc.servers} \ {empty} IN
  /\ stage = "servers"
  /\ IF bad # {} THEN \E why \in bad : Refuse(why)
     ELSE /\ stage' = "begin"
          /\ UNCHANGED <<doc, k, side, work, ch, rest, chain, refs, caches, api, reason>>

\* Of a reference to a reference only the first is followed: it has no action.
OperationProblem(slot) ==
  IF Problem(slot.ref) # empty THEN Problem(slot.ref)
  ELSE IF Target(slot).action \notin {"send", "receive"} THEN "action"
  ELSE IF MergeProblem(Target(slot).fields, Target(slot).traits) # empty
       THEN MergeProblem(Target(slot).fields, Target(slot).traits)
  ELSE IF Target(slot).channel = <<>> THEN "channel" ELSE empty

BeginOperation ==
  LET slot == doc.ops[k].slot IN
  /\ stage = "begin" /\ k <= Len(doc.ops)
  /\ Unless(OperationProblem(slot),
            /\ work' = [name |-> doc.ops[k].name, slot |-> Target(slot),
                        fields |-> AllMerged(Target(slot).fields, Target(slot).traits),
                        channel |-> NoChannel, messages |-> <<>>,
                        replyChannel |-> NoChannel, replyMessages |-> <<>>]
            /\ stage' = "channel" /\ side' = "operation"
            /\ UNCHANGED <<doc, k, ch, rest, chain, refs, caches, api, reason>>)

Accept ==
  /\ stage = "begin" /\ k > Len(doc.ops)
  /\ stage' = "accepted"
  /\ UNCHANGED <<doc, k, side, work, ch, rest, chain, refs, caches, api, reason>>

-----------------------------------------------------------------------------
(* Channels.                                                               *)

Side == IF side = "operation" THEN work.slot ELSE work.slot.reply[1]
inlineName == IF side = "operation" THEN work.name ELSE "reply"

\* parseServerRef: references that do not resolve are skipped.
ServersOf(slot) ==
  LET open == refs \cup ({Side.channel[1].ref} \ {empty}) IN
  SelectSeq(slot.servers, LAMBDA s : ProblemWith(open, s) = empty)

\* An inline channel is parsed where it stands, a referenced one once.
LinkChannel ==
  LET slot == Side.channel[1] IN
  /\ stage = "channel"
  /\ IF slot.ref \in DOMAIN channels
     THEN /\ ch' = channels[slot.ref] /\ stage' = "messages"
          /\ UNCHANGED <<doc, k, side, work, rest, chain, refs, caches, api, reason>>
     ELSE Unless(
       IF Problem(slot.ref) # empty THEN Problem(slot.ref)
       ELSE IF Target(slot).ref # empty \/ ~Target(slot).addressed THEN "address" ELSE empty,
       /\ ch' = [id |-> IF slot.ref = empty THEN work.name \o "." \o side ELSE slot.ref,
                 ref |-> slot.ref,
                 name |-> IF slot.ref = empty THEN inlineName ELSE Target(slot).key,
                 slot |-> Target(slot), fields |-> Target(slot).fields,
                 servers |-> ServersOf(Target(slot)), traitParams |-> {},
                 params |-> <<>>, messages |-> <<>>]
       /\ refs' = refs \cup ({slot.ref} \ {empty})
       /\ rest' = Target(slot).traits /\ stage' = "channelTraits"
       /\ UNCHANGED <<doc, k, side, work, chain, caches, api, reason>>)

-----------------------------------------------------------------------------
(* Channel traits.  The key of trait servers is put into the context and   *)
(* never taken out; trait parameters are parsed and then lost, but a       *)
(* referenced one stays in the cache under the trait's name for it.        *)

TraitServersProblem(trait) ==
  IF trait.servers = <<>> THEN empty
  ELSE IF Cardinality(refs) >= DepthLimit THEN "depth"
  ELSE IF rootKey \in refs THEN "recursion"
  ELSE IF Len(trait.servers) = 1 THEN empty
  ELSE IF Cardinality(refs) + 1 >= DepthLimit THEN "depth" ELSE "recursion"

\* Names for parameters the trait refers to, whichever is met last.
Renamed(pairs) ==
  LET used == {p.slot.ref : p \in {q \in ToSet(pairs) : q.slot.ref # empty}} IN
  {f \in [used -> {p.key : p \in ToSet(pairs)}] :
     \A r \in used : \E p \in ToSet(pairs) : p.slot.ref = r /\ p.key = f[r]}

Overlay(f, g) == [x \in DOMAIN f \cup DOMAIN g |-> IF x \in DOMAIN f THEN f[x] ELSE g[x]]

ParameterProblem(slot) ==
  IF slot.ref \in DOMAIN paramName THEN empty ELSE Problem(slot.ref)

MergeChannelTrait ==
  LET slot == Head(rest)
      problem == TraitProblem(ch.fields, slot)
      trait == Target(slot)
      problems ==
        IF problem # empty THEN {problem}
        ELSE IF TraitServersProblem(trait) # empty THEN {TraitServersProblem(trait)}
        ELSE {IF p.key \in ch.traitParams THEN "override" ELSE ParameterProblem(p.slot) :
                p \in ToSet(trait.params)} \ {empty}
  IN
  /\ stage = "channelTraits" /\ rest # <<>>
  /\ IF problems # {} THEN \E why \in problems : Refuse(why)
     ELSE /\ ch' = [ch EXCEPT !.fields = @ \cup Sets(slot), !.servers = @ \o trait.servers,
                               !.traitParams = @ \cup {p.key : p \in ToSet(trait.params)}]
          /\ refs' = IF trait.servers = <<>> THEN refs ELSE refs \cup {rootKey}
          /\ \E names \in Renamed(trait.params) : paramName' = Overlay(names, paramName)
          /\ rest' = Tail(rest)
          /\ UNCHANGED <<doc, stage, k, side, work, chain, channels, messages, api, reason>>

TraitsMerged ==
  /\ stage = "channelTraits" /\ rest = <<>>
  /\ stage' = "parameters" /\ rest' = ch.slot.params
  /\ UNCHANGED <<doc, k, side, work, ch, chain, refs, caches, api, reason>>

-----------------------------------------------------------------------------
(* Channel parameters.  A parsed parameter is its pointer, "" in place:    *)
(* the Name of a shared one is set to the key it has in this channel.      *)

ParseParameterUnnamed ==  \* mutant: a shared parameter keeps its component's name
  LET p == Head(rest) IN
  /\ stage = "parameters" /\ rest # <<>>
  /\ Unless(ParameterProblem(p.slot),
       /\ ch' = [ch EXCEPT !.params = Overlay([x \in {p.key} |-> p.slot.ref], @)]
       /\ paramName' = IF p.slot.ref = empty THEN paramName
                       ELSE Overlay(paramName, [r \in {p.slot.ref} |-> p.slot.ref])
       /\ rest' = Tail(rest)
       /\ UNCHANGED <<doc, stage, k, side, work, chain, refs, channels, messages, api, reason>>)

ParseParameter ==
  LET p == Head(rest) IN
  /\ stage = "parameters" /\ rest # <<>>
  /\ Unless(ParameterProblem(p.slot),
       /\ ch' = [ch EXCEPT !.params = Overlay([x \in {p.key} |-> p.slot.ref], @)]
       /\ paramName' = IF p.slot.ref = empty THEN paramName
                       ELSE Overlay([r \in {p.slot.ref} |-> p.key], paramName)
       /\ rest' = Tail(rest)
       /\ UNCHANGED <<doc, stage, k, side, work, chain, refs, channels, messages, api, reason>>)

ParametersParsed ==
  /\ stage = "parameters" /\ rest = <<>>
  /\ stage' = "channelMessages" /\ rest' = ch.slot.messages
  /\ UNCHANGED <<doc, k, side, work, ch, chain, refs, caches, api, reason>>

EndChannelUnchecked ==  \* mutant: address parameters need no declaration
  /\ stage = "channelMessages" /\ rest = <<>>
  /\ channels' = IF ch.ref = empty THEN channels ELSE Overlay([r \in {ch.ref} |-> ch], channels)
  /\ refs' = IF ch.ref = empty THEN refs ELSE refs \ {ch.ref}
  /\ stage' = "messages"
  /\ UNCHANGED <<doc, k, side, work, ch, rest, chain, messages, paramName, api, reason>>

\* After the messages: the address may only use declared parameters.
EndChannel ==
  /\ stage = "channelMessages" /\ rest = <<>>
  /\ Unless(IF ToSet(ch.slot.tokens) \subseteq DOMAIN ch.params THEN empty ELSE "address",
       /\ channels' = IF ch.ref = empty THEN channels ELSE Overlay([r \in {ch.ref} |-> ch], channels)
       /\ refs' = IF ch.ref = empty THEN refs ELSE refs \ {ch.ref}
       /\ stage' = "messages"
       /\ UNCHANGED <<doc, k, side, work, ch, rest, chain, messages, paramName, api, reason>>)

-----------------------------------------------------------------------------
(* Messages: chains of references are followed to the object, which alone  *)
(* is cached, by its pointer.                                              *)

\* mergeMessageTraits and the checks after it; a name makes the field present.
MessageProblem(slot, named) ==
  LET own == slot.fields \cup (IF named THEN {"name"} ELSE {}) IN
  IF ~slot.schemaFormat THEN "schemaFormat"
  ELSE IF MergeProblem(own, slot.traits) # empty THEN MergeProblem(own, slot.traits)
  ELSE IF slot.json THEN empty ELSE "contentType"

\* parseMessage; only a message without any name takes the name of a trait.
MessageAt(slot, id, spec) ==
  LET known == IF slot.name # empty THEN slot.name ELSE spec
      naming == {i \in DOMAIN slot.traits : "name" \in Sets(slot.traits[i])}
      own == slot.fields \cup (IF known # empty THEN {"name"} ELSE {})
  IN [id |-> id, spec |-> spec,
      name |-> IF known # empty \/ naming = {} THEN known ELSE Target(slot.traits[Min(naming)]).name,
      fields |-> AllMerged(own, slot.traits), payload |-> slot.payload]

\* The list that is being filled: the channel's messages or the operation's.
got == IF stage = "channelMessages" THEN ch.messages
       ELSE IF side = "operation" THEN work.messages ELSE work.replyMessages

Got(message) ==
  IF stage = "channelMessages"
  THEN ch' = [ch EXCEPT !.messages = Append(@, message)] /\ UNCHANGED work
  ELSE /\ work' = IF side = "operation" THEN [work EXCEPT !.messages = Append(@, message)]
                  ELSE [work EXCEPT !.replyMessages = Append(@, message)]
       /\ UNCHANGED ch

\* Where an inline message is; its SpecName is its key in a messages map.
inlineId == (IF stage = "channelMessages" THEN ch.id ELSE work.name \o "." \o side)
            \o "." \o Head(rest).key
inlineSpec == IF stage = "channelMessages" THEN Head(rest).key ELSE empty

parsesMessages == stage \in {"channelMessages", "list"} /\ rest # <<>>
At == IF chain = <<>> THEN Head(rest).slot.ref ELSE doc.at[Last(chain)].ref

\* parseMessage parses an inline message under no name: the key comes later.
ParseInline ==
  LET slot == Head(rest).slot
      m == MessageAt(slot, inlineId, empty) IN
  /\ parsesMessages /\ chain = <<>> /\ slot.ref = empty
  /\ Unless(MessageProblem(slot, slot.name # empty),
       /\ Got([m EXCEPT !.spec = inlineSpec, !.name = IF @ = empty THEN inlineSpec ELSE @])
       /\ rest' = Tail(rest)
       /\ UNCHANGED <<doc, stage, k, side, chain, refs, caches, api, reason>>)

UseCached ==
  /\ parsesMessages /\ At # empty /\ At \in DOMAIN messages
  /\ Got(messages[At])
  /\ refs' = refs \ ToSet(chain) /\ chain' = <<>> /\ rest' = Tail(rest)
  /\ UNCHANGED <<doc, stage, k, side, caches, api, reason>>

FollowReference ==
  /\ parsesMessages /\ At # empty /\ At \notin DOMAIN messages
  /\ Unless(Problem(At),
       /\ chain' = Append(chain, At) /\ refs' = refs \cup {At}
       /\ UNCHANGED <<doc, stage, k, side, work, ch, rest, caches, api, reason>>)

ParseTargetAsReferred ==  \* mutant: the message is named by the first pointer
  LET ptr == Last(chain)
      slot == doc.at[ptr]
      m == MessageAt(slot, ptr, chain[1])
  IN
  /\ parsesMessages /\ chain # <<>> /\ At = empty
  /\ Unless(MessageProblem(slot, TRUE),
       /\ messages' = Overlay([r \in {ptr} |-> m], messages)
       /\ Got(m)
       /\ refs' = refs \ ToSet(chain) /\ chain' = <<>> /\ rest' = Tail(rest)
       /\ UNCHANGED <<doc, stage, k, side, channels, paramName, api, reason>>)

ParseTarget ==
  LET ptr == Last(chain)
      slot == doc.at[ptr]
      m == MessageAt(slot, ptr, slot.key)
  IN
  /\ parsesMessages /\ chain # <<>> /\ At = empty
  /\ Unless(MessageProblem(slot, TRUE),
       /\ messages' = Overlay([r \in {ptr} |-> m], messages)
       /\ Got(m)
       /\ refs' = refs \ ToSet(chain) /\ chain' = <<>> /\ rest' = Tail(rest)
       /\ UNCHANGED <<doc, stage, k, side, channels, paramName, api, reason>>)

-----------------------------------------------------------------------------
(* Back in the operation: its messages win over its channel's.             *)

Listed == LET list == Side.messages IN
          [i \in DOMAIN list |-> [key |-> ToString(i), slot |-> list[i]]]

ChooseMessages ==
  /\ stage = "messages"
  /\ Unless(IF Side.messages = <<>> /\ ch.messages = <<>> THEN "messages" ELSE empty,
       LET inherited == IF Side.messages = <<>> THEN ch.messages ELSE <<>> IN
       /\ work' = IF side = "operation"
                  THEN [work EXCEPT !.channel = ch, !.messages = inherited]
                  ELSE [work EXCEPT !.replyChannel = ch, !.replyMessages = inherited]
       /\ stage' = "list" /\ rest' = Listed
       /\ UNCHANGED <<doc, k, side, ch, chain, refs, caches, api, reason>>)

\* parseReply, when there is one, then the operation is complete.
EndList ==
  LET replies == side = "operation" /\ work.slot.reply # <<>> IN
  /\ stage = "list" /\ rest = <<>>
  /\ Unless(IF replies /\ work.slot.reply[1].channel = <<>> THEN "channel" ELSE empty,
       /\ IF replies THEN side' = "reply" /\ stage' = "channel" /\ UNCHANGED <<k, api>>
          ELSE /\ api' = Append(api, work) /\ k' = k + 1
               /\ stage' = "begin" /\ UNCHANGED side
       /\ UNCHANGED <<doc, work, ch, rest, chain, refs, caches, reason>>)

Next ==
  \/ CheckVersion \/ ParseServers \/ BeginOperation \/ Accept
  \/ LinkChannel \/ MergeChannelTrait \/ TraitsMerged
  \/ ParseParameter \/ ParametersParsed \/ EndChannel
  \/ ParseInline \/ UseCached \/ FollowReference \/ ParseTarget
  \/ ChooseMessages \/ EndList

Spec == Init /\ [][Next]_vars

-----------------------------------------------------------------------------
(* What the document says, without order and without caches.               *)

\* A pointer leads to the object in every set of pointers that has it and,
\* of the references met on the way, has what they refer to.
References == {p \in DOMAIN doc.at : doc.at[p].ref # empty}
Met(ref, S) == {ref} \cup {doc.at[p].ref : p \in S}
Reaches(ref, p) ==
  \A S \in SUBSET References : Met(ref, S) \cap References \subseteq S => p \in Met(ref, S)
Leads(ref, p) == p \in DOMAIN doc.at \ References /\ Reaches(ref, p)
Resolves(ref) == \E p \in DOMAIN doc.at : Leads(ref, p)
EndOf(ref) == CHOOSE p \in DOMAIN doc.at : Leads(ref, p)

Meaning(slot, id, spec) ==
  IF slot.ref # empty THEN MessageAt(doc.at[EndOf(slot.ref)], EndOf(slot.ref), doc.at[EndOf(slot.ref)].key)
  ELSE LET m == MessageAt(slot, id, empty) IN
       [m EXCEPT !.spec = spec, !.name = IF @ = empty THEN spec ELSE @]

ListMeaning(list, at) ==
  [i \in DOMAIN list |-> Meaning(list[i], at \o "." \o ToString(i), empty)]
ChannelMeaning(c) ==
  [i \in DOMAIN c.slot.messages |->
     LET m == c.slot.messages[i] IN Meaning(m.slot, c.id \o "." \o m.key, m.key)]
SideMeaning(part, c, at) ==
  IF part.messages # <<>> THEN ListMeaning(part.messages, at) ELSE ChannelMeaning(c)

(* Every operation has the messages its document gives it: its own list    *)
(* or else its channel's, each one the object at the end of its reference, *)
(* whoever resolved that reference first (parseMessagePointer's cache,     *)
(* parse_operation.go:68-80).                                              *)
MessagesAsWritten ==
  stage \in {"begin", "refused"} => \A o \in ToSet(api) :
    /\ o.messages = SideMeaning(o.slot, o.channel, o.name \o "." \o "operation")
    /\ o.slot.reply # <<>> =>
         o.replyMessages = SideMeaning(o.slot.reply[1], o.replyChannel, o.name \o "." \o "reply")

-----------------------------------------------------------------------------
(* Which documents are accepted.                                           *)

\* The trait sets no field that is there, of the object or of a trait before it.
TraitFits(own, traits, i) ==
  /\ Direct(traits[i])
  /\ \A f \in Target(traits[i]).fields \ ignored :
       /\ f \notin own
       /\ f \notin comparedOnly => \A j \in 1..(i - 1) : f \notin Target(traits[j]).fields
TraitsValid(own, traits) == \A i \in DOMAIN traits : TraitFits(own, traits, i)

ObjectValid(m, named) ==
  /\ m.schemaFormat /\ m.json
  /\ TraitsValid(m.fields \cup (IF named THEN {"name"} ELSE {}), m.traits)
MessageValid(slot) ==
  IF slot.ref = empty THEN ObjectValid(slot, slot.name # empty)
  ELSE Resolves(slot.ref) /\ ObjectValid(doc.at[EndOf(slot.ref)], TRUE)

TraitParametersFit(traits, i) ==
  \A p \in ToSet(Target(traits[i]).params) :
    /\ OneHop(p.slot)
    /\ \A j \in 1..(i - 1) : \A q \in ToSet(Target(traits[j]).params) : p.key # q.key
TraitParametersValid(traits) == \A i \in DOMAIN traits : TraitParametersFit(traits, i)
ParametersValid(c) == \A p \in ToSet(c.params) : OneHop(p.slot)
AddressValid(c) == \A token \in ToSet(c.tokens) : \E p \in ToSet(c.params) : p.key = token
ChannelObjectValid(c) ==
  /\ c.addressed /\ TraitsValid(c.fields, c.traits) /\ TraitParametersValid(c.traits)
  /\ ParametersValid(c) /\ AddressValid(c)
  /\ \A m \in ToSet(c.messages) : MessageValid(m.slot)
ChannelValid(slot) == Direct(slot) /\ ChannelObjectValid(Target(slot))

SideValid(part) ==
  /\ part.channel # <<>> /\ ChannelValid(part.channel[1])
  /\ \A i \in DOMAIN part.messages : MessageValid(part.messages[i])
  /\ part.messages # <<>> \/ Target(part.channel[1]).messages # <<>>

OperationValid(slot) ==
  /\ OneHop(slot) /\ Target(slot).action \in {"send", "receive"}
  /\ TraitsValid(Target(slot).fields, Target(slot).traits)
  /\ SideValid(Target(slot))
  /\ Target(slot).reply # <<>> => SideValid(Target(slot).reply[1])

Valid ==
  /\ doc.version \in {"3.0", "3.1"}
  /\ \A n \in DOMAIN doc.servers : OneHop(doc.servers[n]) /\ Target(doc.servers[n]).host
  /\ \A n \in DOMAIN doc.ops : OperationValid(doc.ops[n].slot)

\* The operations that are found and their replies, and the channels they name.
AllSides ==
  LET found == {n \in DOMAIN doc.ops : OneHop(doc.ops[n].slot)} IN
  {[at |-> <<n, "operation">>, part |-> Target(doc.ops[n].slot)] : n \in found} \cup
  UNION {{[at |-> <<n, "reply">>, part |-> r] : r \in ToSet(Target(doc.ops[n].slot).reply)} : n \in found}
ChannelSides == {s \in AllSides : s.part.channel # <<>> /\ Direct(s.part.channel[1])}
ChannelOf(s) == Target(s.part.channel[1])

\* Servers named by traits, each in a channel that is parsed: once for its pointer,
\* and in place for every operation or reply.
Place(s) == LET ref == s.part.channel[1].ref IN <<ref, IF ref = empty THEN s.at ELSE <<>> >>
TraitServers ==
  UNION {UNION {{<<Place(s), t, n>> : n \in DOMAIN Target(ChannelOf(s).traits[t]).servers} :
                  t \in {u \in DOMAIN ChannelOf(s).traits : Direct(ChannelOf(s).traits[u])}} :
           s \in ChannelSides}
TwoTraitServers == \E a, b \in TraitServers : a # b

\* While a channel or a message is parsed its pointer is open.
MessageObject(slot) == IF slot.ref = empty THEN slot ELSE doc.at[EndOf(slot.ref)]
Encloses(ref, c) ==
  \/ \E p \in ToSet(c.params) : p.slot.ref = ref
  \/ \E t \in ToSet(c.traits) :
       t.ref = ref \/ (Direct(t) /\ \E p \in ToSet(Target(t).params) : p.slot.ref = ref)
  \/ \E m \in ToSet(c.messages) :
       Reaches(m.slot.ref, ref) \/ \E t \in ToSet(MessageObject(m.slot).traits) : t.ref = ref
AllMessages == (UNION {ToSet(s.part.messages) : s \in AllSides}) \cup
               {m.slot : m \in UNION {ToSet(ChannelOf(s).messages) : s \in ChannelSides}}
MessageRefs == {m.ref : m \in AllMessages}
EnclosesItself ==
  \/ \E s \in ChannelSides : LET ref == s.part.channel[1].ref IN ref # empty /\ Encloses(ref, ChannelOf(s))
  \/ \E ref \in MessageRefs \ {empty} : \E t \in ToSet(doc.at[EndOf(ref)].traits) : t.ref = EndOf(ref)

\* Under its channel and a leaked key fewer than DepthLimit - 2 references are followed,
\* those of the traits at the end of a chain included.
TooDeep ==
  \/ DepthLimit <= 2
  \/ \E walk \in [1..(DepthLimit - 2) -> DOMAIN doc.at] :
       /\ walk[1] \in MessageRefs
       /\ \A i \in 1..(DepthLimit - 3) : walk[i] \in References /\ walk[i + 1] = doc.at[walk[i]].ref
       /\ LET last == walk[DepthLimit - 2] IN
          last \in References \/ \E t \in ToSet(doc.at[last].traits) : t.ref # empty

(* A document is accepted only when everything its operations reach is     *)
(* well-formed, and refused only when something is not; apart from that,   *)
(* only channels and messages that refer back to themselves, a second      *)
(* server named by channel traits (traits.go:177, the key that stays in    *)
(* the context) and very long chains are refused.                          *)
AcceptedIsValid == stage = "accepted" => Valid
RefusedForCause ==
  stage = "refused" => \/ ~Valid
                       \/ reason = "recursion" /\ (TwoTraitServers \/ EnclosesItself)
                       \/ reason = "depth" /\ TooDeep
AcceptedIffValid == AcceptedIsValid /\ RefusedForCause

-----------------------------------------------------------------------------
(* Parameters.                                                             *)

ParsedChannels == (UNION {{o.channel, o.replyChannel} : o \in ToSet(api)}) \ {NoChannel}
NameOfParameter(c, key) == IF c.params[key] = empty THEN key ELSE paramName[c.params[key]]

(* "The map key wins over the component name." (parse_operation.go:276)    *)
(* The code keeps this for parameters used once only:                      *)
KeyWins ==
  \A c \in ParsedChannels : \A key \in DOMAIN c.params : NameOfParameter(c, key) = key

\* The keys under which channels and their traits refer to a parameter.
KeysOf(ref) ==
  {p.key : p \in {q \in UNION {ToSet(s.params) \cup UNION {ToSet(Target(t).params) : t \in ToSet(s.traits)} :
                      s \in {c.slot : c \in ParsedChannels}} : q.slot.ref = ref}}

(* ... as long as all that was parsed agrees on the key: the cached        *)
(* Parameter is renamed for the channel parsed last (parse_operation.go    *)
(* :277, traits.go:198).                                                   *)
KeyWinsWhenUnshared ==
  stage = "accepted" =>
    \A c \in ParsedChannels : \A key \in DOMAIN c.params :
      c.params[key] # empty /\ KeysOf(c.params[key]) \subseteq {key} => NameOfParameter(c, key) = key

TypeOK ==
  /\ stage \in {"version", "servers", "begin", "channel", "channelTraits", "parameters",
                "channelMessages", "messages", "list", "accepted", "refused"}
  /\ k \in 1..(Len(doc.ops) + 1) /\ side \in {"operation", "reply"}
  /\ ToSet(chain) \subseteq refs /\ refs \subseteq DOMAIN doc.at \cup {rootKey}
  /\ DOMAIN channels \cup DOMAIN messages \cup DOMAIN paramName \subseteq DOMAIN doc.at
  /\ Len(api) < Len(doc.ops) + 1

=============================================================================
