----------------------------- MODULE DocumentProofs -----------------------------
(***************************************************************************)
(* What the parser keeps, step by step, for every set of documents, and    *)
(* what CodeBuilder promises of what it makes of them, for every name map  *)
(* and filter.                                                             *)
(***************************************************************************)
EXTENDS CodeBuilder, SequenceTheorems, FiniteSetTheorems, TLAPS

-----------------------------------------------------------------------------
(* Sequences of anything, and functions that cover one another.            *)

LEMMA EmptyIsSeq == IsSeq(<<>>) /\ ToSet(<<>>) = {}
<1>1. ToSet(<<>>) = {}
  BY EmptySeq DEF ToSet
<1>2. <<>> \in Seq(ToSet(<<>>))
  BY EmptySeq
<1>3. QED
  BY <1>1, <1>2 DEF IsSeq

LEMMA AppendIsSeq ==
  ASSUME NEW s, IsSeq(s), NEW e
  PROVE  IsSeq(Append(s, e)) /\ ToSet(Append(s, e)) = ToSet(s) \cup {e}
<1> DEFINE S == ToSet(s) \cup {e}
<1>1. s \in Seq(S) /\ e \in S
  <2>1. \A T, U : T \subseteq U /\ s \in Seq(T) => s \in Seq(U)
    OBVIOUS
  <2>2. QED
    BY <2>1 DEF IsSeq
<1>2. /\ Append(s, e) \in Seq(S)
      /\ Len(Append(s, e)) = Len(s) + 1
      /\ \A i \in 1..Len(s) : Append(s, e)[i] = s[i]
      /\ Append(s, e)[Len(s) + 1] = e
  BY <1>1, AppendProperties
<1>3. /\ Len(s) \in Nat /\ DOMAIN s = 1..Len(s)
      /\ DOMAIN Append(s, e) = 1..Len(s) + 1
  BY <1>1, <1>2
<1>4. ToSet(Append(s, e)) = S
  BY <1>2, <1>3 DEF ToSet
<1>5. QED
  BY <1>2, <1>4 DEF IsSeq

LEMMA SeqOfOthers ==
  ASSUME NEW S, NEW T, NEW s \in Seq(S), \A i \in 1..Len(s) : s[i] \in T
  PROVE  s \in Seq(T)
<1>1. s \in [1..Len(s) -> S] /\ Len(s) \in Nat
  BY LenProperties
<1>2. s \in [1..Len(s) -> T]
  BY <1>1
<1>3. QED
  BY <1>1, <1>2

LEMMA TailIsSeq ==
  ASSUME NEW s, IsSeq(s), s # <<>>
  PROVE  IsSeq(Tail(s)) /\ ToSet(s) = {Head(s)} \cup ToSet(Tail(s))
<1>1. s \in Seq(ToSet(s))
  BY DEF IsSeq
<1>2. /\ Tail(s) \in Seq(ToSet(s)) /\ Head(s) = s[1]
      /\ Len(s) \in Nat \ {0} /\ Len(Tail(s)) = Len(s) - 1
      /\ \A i \in 1..Len(Tail(s)) : Tail(s)[i] = s[i + 1]
  BY <1>1, HeadTailProperties, EmptySeq
<1>3. DOMAIN s = 1..Len(s) /\ DOMAIN Tail(s) = 1..Len(s) - 1
  BY <1>1, <1>2
<1>4. \A i \in 1..Len(s) : i = 1 \/ (i - 1 \in 1..Len(s) - 1 /\ Tail(s)[i - 1] = s[i])
  <2>1. \A n \in Nat : \A i \in 1..n : i = 1 \/ (i - 1 \in 1..n - 1 /\ i - 1 + 1 = i)
    OBVIOUS
  <2>2. \A i \in 1..Len(s) : i = 1 \/ (i - 1 \in 1..Len(s) - 1 /\ i - 1 + 1 = i)
    BY <1>2, <2>1
  <2>3. ASSUME NEW i \in 1..Len(s), i # 1 PROVE Tail(s)[i - 1] = s[i]
    <3>1. i - 1 \in 1..Len(Tail(s)) /\ i - 1 + 1 = i
      BY <1>2, <2>2, <2>3
    <3>2. Tail(s)[i - 1] = s[i - 1 + 1]
      BY <1>2, <3>1
    <3>3. QED
      BY <3>1, <3>2
  <2>4. QED
    BY <2>2, <2>3
<1>5. ToSet(s) = {Head(s)} \cup ToSet(Tail(s))
  <2>1. \A e \in ToSet(s) : e \in {Head(s)} \cup ToSet(Tail(s))
    <3>1. TAKE e \in ToSet(s)
    <3>2. PICK i \in 1..Len(s) : e = s[i]
      BY <1>3 DEF ToSet
    <3>3. CASE i = 1
      BY <1>2, <3>2, <3>3
    <3>4. CASE i # 1
      <4>1. i - 1 \in DOMAIN Tail(s) /\ Tail(s)[i - 1] = e
        BY <1>3, <1>4, <3>2, <3>4
      <4>2. QED
        BY <4>1 DEF ToSet
    <3>5. QED
      BY <3>3, <3>4
  <2>2. Head(s) \in ToSet(s)
    BY <1>2, <1>3 DEF ToSet
  <2>3. \A i \in 1..Len(s) - 1 : i + 1 \in 1..Len(s)
    BY <1>2
  <2>4. \A e \in ToSet(Tail(s)) : e \in ToSet(s)
    BY <1>2, <1>3, <2>3 DEF ToSet
  <2>5. QED
    BY <2>1, <2>2, <2>4
<1>6. Tail(s) \in Seq(ToSet(Tail(s)))
  <2>1. \A i \in 1..Len(Tail(s)) : Tail(s)[i] \in ToSet(Tail(s))
    BY <1>2, <1>3 DEF ToSet
  <2>2. QED
    BY <1>2, <2>1, SeqOfOthers
<1>7. QED
  BY <1>5, <1>6 DEF IsSeq

-----------------------------------------------------------------------------
(* Lists: channels, operations and replies hold sequences of messages.     *)

ChannelStages == {"channelTraits", "parameters", "channelMessages", "messages", "list"}
HasList(c, field) == field \in DOMAIN c /\ IsSeq(c[field])
Complete(o) == HasList(o, "messages") /\ HasList(o, "replyMessages")

Lists ==
  /\ stage \in ChannelStages => HasList(ch, "messages")
  /\ \A r \in DOMAIN channels : HasList(channels[r], "messages")
  /\ stage \in ChannelStages \cup {"channel"} => Complete(work)
  /\ IsSeq(api) /\ \A o \in ToSet(api) : Complete(o)

LEMMA InitLists == Init => Lists
<1>1. DOMAIN <<>> = {}
  OBVIOUS
<1>2. QED
  BY <1>1, EmptyIsSeq DEF Init, Lists, ChannelStages

LEMMA AppendToMessages ==
  ASSUME NEW c, HasList(c, "messages"), NEW m
  PROVE  /\ HasList([c EXCEPT !.messages = Append(@, m)], "messages")
         /\ HasList(c, "replyMessages") =>
              HasList([c EXCEPT !.messages = Append(@, m)], "replyMessages")
<1> DEFINE d == [c EXCEPT !.messages = Append(@, m)]
<1>1. IsSeq(Append(c.messages, m))
  BY AppendIsSeq DEF HasList
<1>2. /\ DOMAIN d = DOMAIN c /\ d.messages = Append(c.messages, m)
      /\ "replyMessages" \in DOMAIN c => d.replyMessages = c.replyMessages
  BY DEF HasList
<1> HIDE DEF d
<1>3. HasList(d, "messages") /\ (HasList(c, "replyMessages") => HasList(d, "replyMessages"))
  BY <1>1, <1>2 DEF HasList
<1>4. QED
  BY <1>3 DEF d

LEMMA AppendToReply ==
  ASSUME NEW c, HasList(c, "replyMessages"), NEW m
  PROVE  /\ HasList([c EXCEPT !.replyMessages = Append(@, m)], "replyMessages")
         /\ HasList(c, "messages") =>
              HasList([c EXCEPT !.replyMessages = Append(@, m)], "messages")
<1> DEFINE d == [c EXCEPT !.replyMessages = Append(@, m)]
<1>1. IsSeq(Append(c.replyMessages, m))
  BY AppendIsSeq DEF HasList
<1>2. /\ DOMAIN d = DOMAIN c /\ d.replyMessages = Append(c.replyMessages, m)
      /\ "messages" \in DOMAIN c => d.messages = c.messages
  BY DEF HasList
<1> HIDE DEF d
<1>3. HasList(d, "replyMessages") /\ (HasList(c, "messages") => HasList(d, "messages"))
  BY <1>1, <1>2 DEF HasList
<1>4. QED
  BY <1>3 DEF d

LEMMA RefuseLists ==
  ASSUME Lists, NEW why, Refuse(why)
  PROVE  Lists'
BY DEF Refuse, Lists, ChannelStages, caches

LEMMA GotLists ==
  ASSUME Lists, NEW m, Got(m), stage' = stage, channels' = channels, api' = api,
         stage \in ChannelStages, side' = side
  PROVE  Lists'
<1>1. Complete(work) /\ HasList(ch, "messages")
  BY DEF Lists
<1>2. Complete(work') /\ HasList(ch', "messages")
  <2>1. CASE stage = "channelMessages"
    <3>1. ch' = [ch EXCEPT !.messages = Append(@, m)] /\ work' = work
      BY <2>1 DEF Got
    <3>2. QED
      BY <1>1, <3>1, AppendToMessages
  <2>2. CASE stage # "channelMessages" /\ side = "operation"
    <3>1. work' = [work EXCEPT !.messages = Append(@, m)] /\ ch' = ch
      BY <2>2 DEF Got
    <3>2. HasList(work, "messages") /\ HasList(work, "replyMessages")
      BY <1>1 DEF Complete
    <3>3. /\ HasList([work EXCEPT !.messages = Append(@, m)], "messages")
          /\ HasList([work EXCEPT !.messages = Append(@, m)], "replyMessages")
      BY <3>2, AppendToMessages
    <3>4. QED
      BY <1>1, <3>1, <3>3, Zenon DEF Complete
  <2>3. CASE stage # "channelMessages" /\ side # "operation"
    <3>1. work' = [work EXCEPT !.replyMessages = Append(@, m)] /\ ch' = ch
      BY <2>3 DEF Got
    <3>2. HasList(work, "messages") /\ HasList(work, "replyMessages")
      BY <1>1 DEF Complete
    <3>3. /\ HasList([work EXCEPT !.replyMessages = Append(@, m)], "messages")
          /\ HasList([work EXCEPT !.replyMessages = Append(@, m)], "replyMessages")
      BY <3>2, AppendToReply
    <3>4. QED
      BY <1>1, <3>1, <3>3, Zenon DEF Complete
  <2>4. QED
    BY <2>1, <2>2, <2>3
<1>3. QED
  BY <1>2 DEF Lists

LEMMA NextLists == Lists /\ [Next]_vars => Lists'
<1> SUFFICES ASSUME Lists, [Next]_vars PROVE Lists'
  OBVIOUS
<1>1. CASE UNCHANGED vars
  BY <1>1 DEF Lists, vars, caches
<1>2. ASSUME \E why : Refuse(why) PROVE Lists'
  BY <1>2, RefuseLists
<1>3. CASE CheckVersion \/ ParseServers \/ Accept
  BY <1>2, <1>3 DEF CheckVersion, ParseServers, Accept, Unless, Lists, ChannelStages, caches
<1>4. CASE BeginOperation
  <2>1. CASE \E why : Refuse(why)
    BY <1>2, <2>1
  <2>2. CASE ~\E why : Refuse(why)
    <3>1. /\ HasList(work', "messages") /\ HasList(work', "replyMessages")
          /\ stage' = "channel" /\ UNCHANGED <<ch, channels, api>>
      BY <1>4, <2>2, EmptyIsSeq DEF BeginOperation, Unless, HasList, caches
    <3>2. QED
      BY <3>1 DEF Lists, ChannelStages, Complete
  <2>3. QED
    BY <2>1, <2>2
<1>5. CASE LinkChannel
  <2>1. CASE \E why : Refuse(why)
    BY <1>2, <2>1
  <2>2. CASE Side.channel[1].ref \in DOMAIN channels
    <3>1. /\ HasList(ch', "messages") /\ stage = "channel" /\ stage' = "messages"
          /\ UNCHANGED <<work, channels, api>>
      BY <1>5, <2>2 DEF LinkChannel, Lists, caches
    <3>2. QED
      BY <3>1 DEF Lists, ChannelStages
  <2>3. CASE Side.channel[1].ref \notin DOMAIN channels /\ ~\E why : Refuse(why)
    <3>1. /\ HasList(ch', "messages") /\ stage = "channel" /\ stage' = "channelTraits"
          /\ UNCHANGED <<work, channels, api>>
      BY <1>5, <2>3, EmptyIsSeq DEF LinkChannel, Unless, HasList, caches
    <3>2. QED
      BY <3>1 DEF Lists, ChannelStages
  <2>4. QED
    BY <2>1, <2>2, <2>3
<1>6. CASE MergeChannelTrait
  <2>1. CASE \E why : Refuse(why)
    BY <1>2, <2>1
  <2>2. CASE ~\E why : Refuse(why)
    <3>1. /\ stage = "channelTraits" /\ UNCHANGED <<stage, work, channels, api>>
      BY <1>6, <2>2 DEF MergeChannelTrait
    <3>2. HasList(ch, "messages")
      BY <3>1 DEF Lists, ChannelStages
    <3>3. HasList(ch', "messages")
      BY <1>6, <2>2, <3>2 DEF MergeChannelTrait, HasList
    <3>4. QED
      BY <3>1, <3>3 DEF Lists
  <2>3. QED
    BY <2>1, <2>2
<1>7. CASE TraitsMerged \/ ParametersParsed
  BY <1>7 DEF TraitsMerged, ParametersParsed, Lists, ChannelStages, caches
<1>8. CASE ParseParameter
  <2>1. CASE \E why : Refuse(why)
    BY <1>2, <2>1
  <2>2. CASE ~\E why : Refuse(why)
    <3>1. stage = "parameters" /\ UNCHANGED <<stage, work, channels, api>>
      BY <1>8, <2>2 DEF ParseParameter, Unless
    <3>2. HasList(ch, "messages")
      BY <3>1 DEF Lists, ChannelStages
    <3>3. HasList(ch', "messages")
      BY <1>8, <2>2, <3>2 DEF ParseParameter, Unless, HasList
    <3>4. QED
      BY <3>1, <3>3 DEF Lists
  <2>3. QED
    BY <2>1, <2>2
<1>9. CASE EndChannel
  <2>1. CASE \E why : Refuse(why)
    BY <1>2, <2>1
  <2>2. CASE ~\E why : Refuse(why)
    <3>1. /\ stage = "channelMessages" /\ stage' = "messages" /\ UNCHANGED <<ch, work, api>>
          /\ channels' = IF ch.ref = empty THEN channels ELSE Overlay([r \in {ch.ref} |-> ch], channels)
      BY <1>9, <2>2 DEF EndChannel, Unless
    <3>2. HasList(ch, "messages")
      BY <3>1 DEF Lists, ChannelStages
    <3>3. \A r \in DOMAIN channels' : HasList(channels'[r], "messages")
      <4>1. \A r \in DOMAIN channels : HasList(channels[r], "messages")
        BY DEF Lists
      <4>2. CASE ch.ref = empty
        BY <3>1, <4>1, <4>2
      <4>3. CASE ch.ref # empty
        <5> DEFINE new == [r \in {ch.ref} |-> ch]
        <5>1. channels' = Overlay(new, channels) /\ DOMAIN new = {ch.ref} /\ new[ch.ref] = ch
          BY <3>1, <4>3
        <5> HIDE DEF new
        <5>2. /\ DOMAIN Overlay(new, channels) = {ch.ref} \cup DOMAIN channels
              /\ Overlay(new, channels)[ch.ref] = ch
              /\ \A r \in DOMAIN channels \ {ch.ref} : Overlay(new, channels)[r] = channels[r]
          BY <5>1 DEF Overlay
        <5>3. QED
          BY <3>2, <4>1, <5>1, <5>2
      <4>4. QED
        BY <4>2, <4>3
    <3>4. QED
      BY <3>1, <3>3 DEF Lists, ChannelStages
  <2>3. QED
    BY <2>1, <2>2
<1>10. CASE ParseInline
  <2>1. CASE \E why : Refuse(why)
    BY <1>2, <2>1
  <2>2. CASE ~\E why : Refuse(why)
    <3>1. /\ stage \in ChannelStages /\ UNCHANGED <<stage, side, channels, api>>
          /\ \E m : Got(m)
      BY <1>10, <2>2 DEF ParseInline, Unless, parsesMessages, ChannelStages, caches
    <3>2. QED
      BY <3>1, GotLists
  <2>3. QED
    BY <2>1, <2>2
<1>11. CASE UseCached
  <2>1. /\ stage \in ChannelStages /\ UNCHANGED <<stage, side, channels, api>>
        /\ \E m : Got(m)
    BY <1>11 DEF UseCached, parsesMessages, ChannelStages, caches
  <2>2. QED
    BY <2>1, GotLists
<1>12. CASE FollowReference
  BY <1>2, <1>12 DEF FollowReference, Unless, Lists, caches
<1>13. CASE ParseTarget
  <2>1. CASE \E why : Refuse(why)
    BY <1>2, <2>1
  <2>2. CASE ~\E why : Refuse(why)
    <3>1. /\ stage \in ChannelStages /\ UNCHANGED <<stage, side, channels, api>>
          /\ \E m : Got(m)
      BY <1>13, <2>2 DEF ParseTarget, Unless, parsesMessages, ChannelStages
    <3>2. QED
      BY <3>1, GotLists
  <2>3. QED
    BY <2>1, <2>2
<1>14. CASE ChooseMessages
  <2>1. CASE \E why : Refuse(why)
    BY <1>2, <2>1
  <2>2. CASE ~\E why : Refuse(why)
    <3>1. /\ stage = "messages" /\ stage' = "list" /\ UNCHANGED <<ch, channels, api>>
      BY <1>14, <2>2 DEF ChooseMessages, Unless, caches
    <3>2. Complete(work) /\ HasList(ch, "messages")
      BY <3>1 DEF Lists, ChannelStages
    <3>3. Complete(work')
      BY <1>14, <2>2, <3>2, EmptyIsSeq DEF ChooseMessages, Unless, HasList, Complete
    <3>4. QED
      BY <3>1, <3>2, <3>3 DEF Lists
  <2>3. QED
    BY <2>1, <2>2
<1>15. CASE EndList
  <2>1. CASE \E why : Refuse(why)
    BY <1>2, <2>1
  <2>2. CASE ~\E why : Refuse(why)
    <3>1. /\ stage = "list" /\ stage' \in {"channel", "begin"} /\ UNCHANGED <<ch, work, channels>>
          /\ api' = api \/ api' = Append(api, work)
      BY <1>15, <2>2 DEF EndList, Unless, caches
    <3>2. Complete(work)
      BY <3>1 DEF Lists, ChannelStages
    <3>3. IsSeq(api') /\ \A o \in ToSet(api') : Complete(o)
      <4>1. IsSeq(api) /\ \A o \in ToSet(api) : Complete(o)
        BY DEF Lists
      <4>2. IsSeq(Append(api, work)) /\ ToSet(Append(api, work)) = ToSet(api) \cup {work}
        BY <4>1, AppendIsSeq
      <4>3. CASE api' = api
        BY <4>1, <4>3
      <4>4. CASE api' = Append(api, work)
        BY <3>2, <4>1, <4>2, <4>4
      <4>5. QED
        BY <3>1, <4>3, <4>4
    <3>4. QED
      BY <3>1, <3>2, <3>3 DEF Lists, ChannelStages
  <2>3. QED
    BY <2>1, <2>2
<1>16. QED
  BY <1>1, <1>3, <1>4, <1>5, <1>6, <1>7, <1>8, <1>9, <1>10, <1>11, <1>12, <1>13, <1>14, <1>15
     DEF Next

-----------------------------------------------------------------------------
(* The meaning of a message depends on the document alone.                 *)

LEMMA SlotsStay ==
  ASSUME UNCHANGED doc
  PROVE  /\ \A s : Target(s)' = Target(s) /\ Sets(s)' = Sets(s)
         /\ References' = References
BY DEF Target, TargetIn, Sets, Direct, OneHop, References

LEMMA MessageStays ==
  ASSUME UNCHANGED doc, NEW slot, NEW id, NEW spec
  PROVE  MessageAt(slot, id, spec)' = MessageAt(slot, id, spec)
<1> USE SlotsStay
<1>1. {i \in DOMAIN slot.traits : "name" \in Sets(slot.traits[i])}' =
      {i \in DOMAIN slot.traits : "name" \in Sets(slot.traits[i])}
  OBVIOUS
<1>2. \A own, n : (UNION {Sets(slot.traits[i]) : i \in 1..n})' = UNION {Sets(slot.traits[i]) : i \in 1..n}
  OBVIOUS
<1>3. \A own : AllMerged(own, slot.traits)' = AllMerged(own, slot.traits)
  BY <1>2 DEF AllMerged, Merged
<1> DEFINE named == {i \in DOMAIN slot.traits : "name" \in Sets(slot.traits[i])}
           own == slot.fields \cup (IF (IF slot.name # empty THEN slot.name ELSE spec) # empty
                                    THEN {"name"} ELSE {})
           first == Target(slot.traits[Min(named)]).name
           all == AllMerged(own, slot.traits)
<1>4. first' = first
  BY <1>1
<1>5. all' = all /\ (named = {})' = (named = {})
  BY <1>1, <1>3
<1>6. MessageAt(slot, id, spec) =
        [id |-> id, spec |-> spec,
         name |-> IF (IF slot.name # empty THEN slot.name ELSE spec) # empty \/ named = {}
                  THEN IF slot.name # empty THEN slot.name ELSE spec ELSE first,
         fields |-> all, payload |-> slot.payload]
  BY DEF MessageAt
<1>7. MessageAt(slot, id, spec)' =
        [id |-> id, spec |-> spec,
         name |-> IF (IF slot.name # empty THEN slot.name ELSE spec) # empty \/ (named = {})'
                  THEN IF slot.name # empty THEN slot.name ELSE spec ELSE first',
         fields |-> all', payload |-> slot.payload]
  BY DEF MessageAt
<1> HIDE DEF first, all, named
<1>8. QED
  BY <1>4, <1>5, <1>6, <1>7

LEMMA EndStays ==
  ASSUME UNCHANGED doc, NEW ref
  PROVE  EndOf(ref)' = EndOf(ref)
<1>1. \A p : Leads(ref, p)' = Leads(ref, p)
  BY SlotsStay DEF Leads, Reaches, Met
<1>2. QED
  BY <1>1 DEF EndOf

LEMMA MeaningStays ==
  ASSUME UNCHANGED doc, NEW slot, NEW id, NEW spec
  PROVE  Meaning(slot, id, spec)' = Meaning(slot, id, spec)
BY MessageStays, EndStays DEF Meaning

LEMMA SideStays ==
  ASSUME UNCHANGED doc
  PROVE  /\ \A c : ChannelMeaning(c)' = ChannelMeaning(c)
         /\ \A list, at : ListMeaning(list, at)' = ListMeaning(list, at)
         /\ \A part, c, at : SideMeaning(part, c, at)' = SideMeaning(part, c, at)
<1>1. \A c : ChannelMeaning(c)' = ChannelMeaning(c)
  BY MeaningStays DEF ChannelMeaning
<1>2. \A list, at : ListMeaning(list, at)' = ListMeaning(list, at)
  BY MeaningStays DEF ListMeaning
<1>3. QED
  BY <1>1, <1>2 DEF SideMeaning

-----------------------------------------------------------------------------
(* Lists that are being filled.                                            *)

Filled(g, r, list, meaning) ==
  /\ IsSeq(g) /\ IsSeq(r) /\ IsSeq(list)
  /\ Len(g) + Len(r) = Len(list)
  /\ \A i \in 1..Len(r) : r[i] = list[Len(g) + i]
  /\ \A i \in 1..Len(g) : g[i] = meaning[i]

LEMMA FilledNone ==
  ASSUME NEW list, IsSeq(list), NEW meaning
  PROVE  Filled(<<>>, list, list, meaning)
<1>1. Len(list) \in Nat /\ Len(<<>>) = 0
  BY EmptySeq DEF IsSeq
<1>2. IsSeq(<<>>)
  BY EmptyIsSeq
<1>3. \A i \in 1..Len(list) : 0 + i = i
  BY <1>1
<1>4. QED
  BY <1>1, <1>2, <1>3 DEF Filled

LEMMA SeqLen ==
  ASSUME NEW s, IsSeq(s)
  PROVE  Len(s) \in Nat /\ DOMAIN s = 1..Len(s) /\ s \in [1..Len(s) -> ToSet(s)]
BY LenProperties DEF IsSeq

LEMMA FilledHead ==
  ASSUME NEW g, NEW r, NEW list, NEW meaning, Filled(g, r, list, meaning), r # <<>>
  PROVE  Len(g) + 1 \in DOMAIN list /\ Head(r) = list[Len(g) + 1]
<1>1. IsSeq(g) /\ IsSeq(r) /\ IsSeq(list) /\ Len(g) + Len(r) = Len(list)
  BY DEF Filled
<1>2. Len(g) \in Nat /\ Len(r) \in Nat /\ Len(list) \in Nat /\ DOMAIN list = 1..Len(list)
  BY <1>1, SeqLen
<1>3. Len(r) # 0
  BY <1>1, EmptySeq DEF IsSeq
<1>4. Head(r) = r[1]
  BY <1>1, <1>3, HeadTailProperties DEF IsSeq
<1>5. QED
  BY <1>1, <1>2, <1>3, <1>4 DEF Filled

LEMMA FilledMore ==
  ASSUME NEW g, NEW r, NEW list, NEW meaning, Filled(g, r, list, meaning), r # <<>>,
         NEW m, m = meaning[Len(g) + 1]
  PROVE  Filled(Append(g, m), Tail(r), list, meaning)
<1>1. IsSeq(g) /\ IsSeq(r) /\ IsSeq(list) /\ Len(g) + Len(r) = Len(list)
  BY DEF Filled
<1>2. Len(g) \in Nat /\ Len(r) \in Nat /\ Len(list) \in Nat
  BY <1>1, SeqLen
<1>3. IsSeq(Append(g, m)) /\ IsSeq(Tail(r))
  BY <1>1, AppendIsSeq, TailIsSeq
<1>4. /\ Len(r) # 0 /\ Len(Tail(r)) = Len(r) - 1
      /\ \A i \in 1..Len(Tail(r)) : Tail(r)[i] = r[i + 1]
  BY <1>1, HeadTailProperties, EmptySeq DEF IsSeq
<1>5. /\ Len(Append(g, m)) = Len(g) + 1
      /\ \A i \in 1..Len(g) : Append(g, m)[i] = g[i]
      /\ Append(g, m)[Len(g) + 1] = m
  <2>1. g \in Seq(ToSet(g) \cup {m}) /\ m \in ToSet(g) \cup {m}
    BY <1>1 DEF IsSeq
  <2>2. QED
    BY <2>1, AppendProperties
<1>6. \A i \in 1..Len(Append(g, m)) : Append(g, m)[i] = meaning[i]
  <2>1. \A i \in 1..Len(Append(g, m)) : i \in 1..Len(g) \/ i = Len(g) + 1
    BY <1>2, <1>5
  <2>2. QED
    BY <1>5, <2>1 DEF Filled
<1>7. \A i \in 1..Len(Tail(r)) : Tail(r)[i] = list[Len(Append(g, m)) + i]
  <2>1. TAKE i \in 1..Len(Tail(r))
  <2>2. i + 1 \in 1..Len(r) /\ Len(g) + 1 + i = Len(g) + (i + 1)
    BY <1>2, <1>4, <2>1
  <2>3. r[i + 1] = list[Len(g) + (i + 1)]
    BY <2>2 DEF Filled
  <2>4. QED
    BY <1>4, <1>5, <2>2, <2>3
<1>8. Len(Append(g, m)) + Len(Tail(r)) = Len(list)
  BY <1>1, <1>2, <1>4, <1>5
<1>9. QED
  BY <1>1, <1>3, <1>6, <1>7, <1>8 DEF Filled

LEMMA FilledAll ==
  ASSUME NEW g, NEW list, NEW meaning, Filled(g, <<>>, list, meaning),
         meaning = [i \in DOMAIN list |-> meaning[i]]
  PROVE  g = meaning
<1>1. IsSeq(g) /\ IsSeq(list) /\ Len(g) + Len(<<>>) = Len(list) /\ Len(<<>>) = 0
  BY EmptySeq DEF Filled
<1>2. /\ Len(g) \in Nat /\ DOMAIN list = 1..Len(list)
      /\ DOMAIN g = 1..Len(g) /\ g = [i \in 1..Len(g) |-> g[i]]
  BY <1>1, SeqLen
<1>3. Len(g) = Len(list)
  BY <1>1, <1>2, SeqLen
<1>4. \A i \in 1..Len(list) : g[i] = meaning[i]
  BY <1>3 DEF Filled
<1>5. QED
  BY <1>2, <1>3, <1>4

-----------------------------------------------------------------------------
(* References.                                                             *)

LEMMA ReachesItself == \A ref : Reaches(ref, ref)
BY DEF Reaches, Met

LEMMA ReachesNext ==
  ASSUME NEW ref, NEW q \in References, Reaches(ref, q)
  PROVE  Reaches(ref, doc.at[q].ref)
<1> SUFFICES ASSUME NEW S \in SUBSET References, Met(ref, S) \cap References \subseteq S
             PROVE  doc.at[q].ref \in Met(ref, S)
  BY DEF Reaches
<1>1. q \in Met(ref, S)
  BY DEF Reaches
<1>2. q \in S
  BY <1>1
<1>3. QED
  BY <1>2 DEF Met

LEMMA EndIs ==
  ASSUME NEW ref, NEW p \in DOMAIN doc.at \ References, Reaches(ref, p),
         NEW C \in SUBSET References, ref \in C \cup {p},
         \A q \in C : doc.at[q].ref \in C \cup {p}
  PROVE  EndOf(ref) = p
<1>1. Leads(ref, p)
  BY DEF Leads
<1>2. \A q : Leads(ref, q) => q = p
  <2>1. Met(ref, C) \subseteq C \cup {p}
    BY DEF Met
  <2>2. Met(ref, C) \cap References \subseteq C
    BY <2>1
  <2>3. QED
    BY <2>1, <2>2 DEF Leads, Reaches
<1>3. QED
  BY <1>1, <1>2 DEF EndOf

LEMMA Resolved ==
  ASSUME NEW ref, ref # empty, Problem(ref) = empty
  PROVE  ref \in DOMAIN doc.at
<1>1. "unresolved" # empty /\ "recursion" # empty /\ "depth" # empty
  BY Zenon DEF empty
<1>2. QED
  BY <1>1, Zenon DEF Problem, ProblemWith

\* The references followed so far: from the message to be parsed, one to the next.
begun == Head(rest).slot.ref
Linked ==
  /\ IsSeq(chain)
  /\ chain # <<>> =>
       /\ rest # <<>> /\ stage \in {"channelMessages", "list", "refused"}
       /\ begun # empty /\ begun \in ToSet(chain)
       /\ Last(chain) \in ToSet(chain) /\ ToSet(chain) \subseteq DOMAIN doc.at
       /\ Reaches(begun, Last(chain))
       /\ \A p \in ToSet(chain) \ {Last(chain)} : p \in References /\ doc.at[p].ref \in ToSet(chain)

LEMMA ChainReaches ==
  ASSUME Linked, At # empty
  PROVE  /\ Reaches(begun, At) /\ begun # empty /\ begun \in ToSet(chain) \cup {At}
         /\ ToSet(chain) \subseteq References
         /\ \A p \in ToSet(chain) : doc.at[p].ref \in ToSet(chain) \cup {At}
<1>1. CASE chain = <<>>
  <2>1. At = begun
    BY <1>1 DEF At, begun
  <2>2. ToSet(chain) = {}
    BY <1>1, EmptyIsSeq
  <2>3. QED
    BY <2>1, <2>2, ReachesItself
<1>2. CASE chain # <<>>
  <2>1. At = doc.at[Last(chain)].ref
    BY <1>2 DEF At
  <2>2. Last(chain) \in References
    BY <1>2, <2>1 DEF Linked, References
  <2>3. Reaches(begun, At)
    BY <1>2, <2>1, <2>2, ReachesNext DEF Linked
  <2>4. QED
    BY <1>2, <2>1, <2>2, <2>3 DEF Linked
<1>3. QED
  BY <1>1, <1>2

LEMMA ChainGrows ==
  ASSUME Linked, parsesMessages, At # empty, Problem(At) = empty,
         chain' = Append(chain, At), UNCHANGED <<doc, stage, rest>>
  PROVE  Linked'
<1>1. At \in DOMAIN doc.at
  BY Resolved
<1>2. IsSeq(chain') /\ ToSet(chain') = ToSet(chain) \cup {At}
  BY AppendIsSeq DEF Linked
<1>3. Last(chain') = At
  <2>1. chain \in Seq(ToSet(chain) \cup {At}) /\ At \in ToSet(chain) \cup {At}
    BY DEF Linked, IsSeq
  <2>2. Len(chain') = Len(chain) + 1 /\ chain'[Len(chain) + 1] = At
    BY <2>1, AppendProperties
  <2>3. QED
    BY <2>2 DEF Last
<1>4. begun' = begun /\ References' = References /\ UNCHANGED doc
  BY SlotsStay DEF begun
<1>5. Reaches(begun, At) /\ \A p \in ToSet(chain) : p \in References /\ doc.at[p].ref \in ToSet(chain) \cup {At}
  BY ChainReaches
<1>6. ToSet(chain) \subseteq DOMAIN doc.at
  BY EmptyIsSeq DEF Linked
<1>7. begun # empty /\ begun \in ToSet(chain) \cup {At}
  BY ChainReaches
<1>8. PICK e : e = At
  OBVIOUS
<1>9. PICK b : b = begun
  OBVIOUS
<1>10. Reaches(b, e)' = Reaches(b, e)
  BY <1>4 DEF Reaches, Met
<1>11. Reaches(begun, Last(chain))'
  BY <1>3, <1>4, <1>5, <1>8, <1>9, <1>10, Zenon
<1>12. rest' # <<>> /\ stage' \in {"channelMessages", "list", "refused"}
  BY DEF parsesMessages
<1>13. \A p \in ToSet(chain') \ {Last(chain')} : p \in References' /\ doc'.at[p].ref \in ToSet(chain')
  BY <1>2, <1>3, <1>4, <1>5
<1>14. QED
  BY <1>1, <1>2, <1>3, <1>4, <1>6, <1>7, <1>11, <1>12, <1>13 DEF Linked

\* What a chain of references to a message leads to.
LEMMA ChainEnds ==
  ASSUME Linked, chain # <<>>, At = empty
  PROVE  /\ begun # empty /\ EndOf(begun) = Last(chain)
         /\ Last(chain) \in DOMAIN doc.at \ References
<1>1. doc.at[Last(chain)].ref = empty
  BY DEF At
<1>2. Last(chain) \in DOMAIN doc.at \ References
  BY <1>1 DEF Linked, References
<1> DEFINE C == ToSet(chain) \ {Last(chain)}
<1>3. C \in SUBSET References
  BY DEF Linked
<1>4. begun \in C \cup {Last(chain)} /\ \A q \in C : doc.at[q].ref \in C \cup {Last(chain)}
  BY DEF Linked
<1>5. Reaches(begun, Last(chain)) /\ begun # empty
  BY DEF Linked
<1> HIDE DEF C
<1>6. EndOf(begun) = Last(chain)
  BY <1>2, <1>3, <1>4, <1>5, EndIs
<1>7. QED
  BY <1>2, <1>5, <1>6

LEMMA ChainMeets ==
  ASSUME Linked, At # empty, At \in DOMAIN doc.at \ References
  PROVE  begun # empty /\ EndOf(begun) = At
<1>1. /\ Reaches(begun, At) /\ begun # empty /\ begun \in ToSet(chain) \cup {At}
      /\ ToSet(chain) \in SUBSET References
      /\ \A p \in ToSet(chain) : doc.at[p].ref \in ToSet(chain) \cup {At}
  BY ChainReaches
<1>2. QED
  BY <1>1, EndIs

-----------------------------------------------------------------------------
(* Messages as written.                                                    *)

Written(o) == o.messages = SideMeaning(o.slot, o.channel, o.name \o "." \o "operation")
ReplyWritten(o) ==
  o.slot.reply # <<>> =>
    o.replyMessages = SideMeaning(o.slot.reply[1], o.replyChannel, o.name \o "." \o "reply")
ChannelWritten(c) == c.messages = ChannelMeaning(c)

\* Operations, and the objects in the caches, are as written.
Settled ==
  /\ doc \in Documents /\ k \in Nat \ {0}
  /\ \A o \in ToSet(api) : Written(o) /\ ReplyWritten(o)
  /\ \A r \in DOMAIN channels : ChannelWritten(channels[r])
  /\ \A p \in DOMAIN messages :
       p \in DOMAIN doc.at \ References /\ messages[p] = MessageAt(doc.at[p], p, doc.at[p].key)

\* While a reply is parsed the messages of its operation are as written.
Prepared ==
  stage \in ChannelStages \cup {"channel"} =>
    /\ {"name", "slot", "channel", "messages", "replyChannel", "replyMessages"} \subseteq DOMAIN work
    /\ side \in {"operation", "reply"} /\ OperationListed(doc, work.slot) /\ Side.channel # <<>>
    /\ side = "reply" => work.slot.reply # <<>> /\ Written(work)

\* A channel gets its messages one by one ...
ChannelFilled ==
  /\ stage \in {"channelTraits", "parameters", "channelMessages"} => {"slot", "id"} \subseteq DOMAIN ch
  /\ stage \in {"channelTraits", "parameters"} => ch.messages = <<>> /\ ChannelListed(ch.slot)
  /\ stage = "channelMessages" => Filled(ch.messages, rest, ch.slot.messages, ChannelMeaning(ch))
  /\ stage \in {"messages", "list"} => ChannelWritten(ch)

\* ... and an operation or a reply its own, or all of its channel's.
place == work.name \o "." \o side
SideFilled ==
  stage = "list" =>
    /\ ch = IF side = "operation" THEN work.channel ELSE work.replyChannel
    /\ IF Side.messages = <<>> THEN rest = <<>> /\ got = ChannelMeaning(ch)
       ELSE Filled(got, rest, Listed, ListMeaning(Side.messages, place))

MInv == Settled /\ Prepared /\ ChannelFilled /\ SideFilled /\ Linked

LEMMA InitAsWritten == Init => MInv
<1>1. DOMAIN <<>> = {}
  OBVIOUS
<1>2. QED
  BY <1>1, EmptyIsSeq DEF Init, MInv, Settled, Prepared, ChannelFilled, SideFilled, Linked, ChannelStages

LEMMA WrittenStays ==
  ASSUME UNCHANGED doc
  PROVE  /\ \A o : Written(o)' = Written(o) /\ ReplyWritten(o)' = ReplyWritten(o)
         /\ \A c : ChannelWritten(c)' = ChannelWritten(c)
BY SideStays DEF Written, ReplyWritten, ChannelWritten

LEMMA SettledStays ==
  ASSUME Settled, UNCHANGED <<doc, k, api, channels, messages>>
  PROVE  Settled'
<1>1. References' = References
  BY SlotsStay
<1>2. (\A o \in ToSet(api) : Written(o) /\ ReplyWritten(o))'
  BY WrittenStays DEF Settled
<1>3. (\A r \in DOMAIN channels : ChannelWritten(channels[r]))'
  BY WrittenStays DEF Settled
<1>4. \A slot, p, key : MessageAt(slot, p, key)' = MessageAt(slot, p, key)
  BY MessageStays
<1>5. QED
  BY <1>1, <1>2, <1>3, <1>4 DEF Settled

LEMMA PreparedStays ==
  ASSUME Prepared, UNCHANGED <<doc, work, side>>, stage \in ChannelStages \cup {"channel"}
  PROVE  Prepared'
BY WrittenStays DEF Prepared, Side, ChannelStages

LEMMA NoChain ==
  ASSUME Linked, stage \notin {"channelMessages", "list", "refused"} \/ rest = <<>>, UNCHANGED chain
  PROVE  Linked'
<1>1. chain = <<>>
  BY DEF Linked
<1>2. QED
  BY <1>1, EmptyIsSeq DEF Linked

LEMMA RefuseAsWritten ==
  ASSUME MInv, NEW why, Refuse(why)
  PROVE  MInv'
<1>1. Settled'
  BY SettledStays DEF Refuse, MInv, caches
<1>2. Prepared' /\ ChannelFilled' /\ SideFilled'
  BY DEF Refuse, Prepared, ChannelFilled, SideFilled, ChannelStages
<1>3. References' = References /\ UNCHANGED <<doc, chain, rest>> /\ stage' = "refused"
  BY SlotsStay DEF Refuse
<1>4. Linked'
  BY <1>3 DEF MInv, Linked, Reaches, Met, begun
<1>5. QED
  BY <1>1, <1>2, <1>4 DEF MInv

LEMMA SameChannel ==
  ASSUME UNCHANGED doc, NEW c, c.slot = ch.slot, c.id = ch.id, ch' = c
  PROVE  ChannelMeaning(ch)' = ChannelMeaning(ch)
<1>1. ChannelMeaning(c) = ChannelMeaning(ch)
  BY DEF ChannelMeaning
<1>2. ChannelMeaning(c)' = ChannelMeaning(c)
  BY SideStays
<1>3. QED
  BY <1>1, <1>2

LEMMA ChannelGot ==
  ASSUME MInv, Lists, parsesMessages, stage = "channelMessages",
         NEW m, m = Meaning(Head(rest).slot, inlineId, inlineSpec), Got(m),
         rest' = Tail(rest), UNCHANGED <<doc, stage>>
  PROVE  work' = work /\ ChannelFilled'
<1>1. /\ {"slot", "id", "messages"} \subseteq DOMAIN ch /\ rest # <<>>
      /\ Filled(ch.messages, rest, ch.slot.messages, ChannelMeaning(ch))
  BY DEF MInv, ChannelFilled, Lists, HasList, ChannelStages, parsesMessages
<1>2. ch' = [ch EXCEPT !.messages = Append(@, m)] /\ work' = work
  BY DEF Got
<1>3. /\ ch'.slot = ch.slot /\ ch'.id = ch.id /\ ch'.messages = Append(ch.messages, m)
      /\ {"slot", "id"} \subseteq DOMAIN ch'
  BY <1>1, <1>2
<1> DEFINE n == Len(ch.messages) + 1
<1>4. n \in DOMAIN ch.slot.messages /\ Head(rest) = ch.slot.messages[n]
  BY <1>1, FilledHead
<1> HIDE DEF n
<1>5. ChannelMeaning(ch)[n] = Meaning(Head(rest).slot, ch.id \o "." \o Head(rest).key, Head(rest).key)
  BY <1>4 DEF ChannelMeaning
<1>6. m = ChannelMeaning(ch)[Len(ch.messages) + 1]
  BY <1>5 DEF n, inlineId, inlineSpec
<1>7. Filled(Append(ch.messages, m), Tail(rest), ch.slot.messages, ChannelMeaning(ch))
  BY <1>1, <1>6, FilledMore
<1>8. ChannelMeaning(ch)' = ChannelMeaning(ch)
  <2>1. PICK c : c = ch'
    OBVIOUS
  <2>2. QED
    BY <1>3, <2>1, SameChannel
<1>9. Filled(ch.messages, rest, ch.slot.messages, ChannelMeaning(ch))'
  BY <1>3, <1>7, <1>8
<1>10. QED
  BY <1>2, <1>3, <1>9 DEF ChannelFilled

LEMMA SideGot ==
  ASSUME MInv, Lists, parsesMessages, stage = "list",
         NEW m, m = Meaning(Head(rest).slot, inlineId, inlineSpec), Got(m),
         rest' = Tail(rest), UNCHANGED <<doc, stage, side>>
  PROVE  ch' = ch /\ Prepared' /\ SideFilled'
<1>1. /\ {"name", "slot", "channel", "messages", "replyChannel", "replyMessages"} \subseteq DOMAIN work
      /\ side \in {"operation", "reply"} /\ OperationListed(doc, work.slot) /\ Side.channel # <<>>
      /\ side = "reply" => work.slot.reply # <<>> /\ Written(work)
  BY DEF MInv, Prepared, ChannelStages
<1>2. /\ rest # <<>> /\ Side.messages # <<>>
      /\ Filled(got, rest, Listed, ListMeaning(Side.messages, place))
      /\ ch = IF side = "operation" THEN work.channel ELSE work.replyChannel
  BY DEF MInv, SideFilled, parsesMessages
<1>3. /\ DOMAIN work' = DOMAIN work
      /\ work'.name = work.name /\ work'.slot = work.slot
      /\ work'.channel = work.channel /\ work'.replyChannel = work.replyChannel
      /\ side = "operation" => work'.messages = Append(work.messages, m)
      /\ side # "operation" => work'.messages = work.messages
                               /\ work'.replyMessages = Append(work.replyMessages, m)
      /\ ch' = ch
  <2>1. CASE side = "operation"
    BY <1>1, <2>1 DEF Got
  <2>2. CASE side # "operation"
    BY <1>1, <2>2 DEF Got
  <2>3. QED
    BY <2>1, <2>2
<1>4. Side' = Side /\ place' = place /\ Listed' = Listed
  BY <1>3 DEF Side, place, Listed
<1>5. got' = Append(got, m)
  BY <1>3 DEF got
<1> DEFINE n == Len(got) + 1
<1>6. n \in DOMAIN Listed /\ Head(rest) = Listed[n]
  BY <1>2, FilledHead
<1> HIDE DEF n
<1>7. /\ n \in DOMAIN Side.messages
      /\ Head(rest).slot = Side.messages[n] /\ Head(rest).key = ToString(n)
  BY <1>6 DEF Listed
<1>8. ListMeaning(Side.messages, place)[n] = Meaning(Head(rest).slot, place \o "." \o Head(rest).key, empty)
  BY <1>7 DEF ListMeaning
<1>9. m = ListMeaning(Side.messages, place)[Len(got) + 1]
  BY <1>8 DEF n, inlineId, inlineSpec, place
<1>10. Filled(Append(got, m), Tail(rest), Listed, ListMeaning(Side.messages, place))
  BY <1>2, <1>9, FilledMore
<1>11. ListMeaning(Side.messages, place)' = ListMeaning(Side.messages, place)
  <2>1. PICK list, at : list = Side.messages /\ at = place
    OBVIOUS
  <2>2. ListMeaning(list, at)' = ListMeaning(list, at)
    BY SideStays
  <2>3. QED
    BY <1>4, <2>1, <2>2
<1>12. SideFilled'
  BY <1>2, <1>3, <1>4, <1>5, <1>10, <1>11 DEF SideFilled
<1>13. side = "reply" => Written(work)'
  <2>1. PICK w : w = work'
    OBVIOUS
  <2>2. side = "reply" => Written(w)
    BY <1>1, <1>3, <2>1 DEF Written
  <2>3. Written(w)' = Written(w)
    BY WrittenStays
  <2>4. QED
    BY <2>1, <2>2, <2>3
<1>14. Prepared'
  BY <1>1, <1>3, <1>4, <1>13 DEF Prepared
<1>15. QED
  BY <1>3, <1>12, <1>14

LEMMA MessageGot ==
  ASSUME MInv, Lists, parsesMessages,
         NEW m, m = Meaning(Head(rest).slot, inlineId, inlineSpec), Got(m),
         rest' = Tail(rest), chain' = <<>>, UNCHANGED <<doc, stage, side>>, Settled'
  PROVE  MInv'
<1>1. stage \in {"channelMessages", "list"}
  BY DEF parsesMessages
<1>2. Linked'
  BY EmptyIsSeq DEF Linked
<1>3. CASE stage = "channelMessages"
  <2>1. work' = work /\ ChannelFilled'
    BY <1>3, ChannelGot
  <2>2. Prepared'
    BY <1>3, <2>1, PreparedStays DEF MInv, ChannelStages
  <2>3. SideFilled'
    BY <1>3 DEF SideFilled
  <2>4. QED
    BY <1>2, <2>1, <2>2, <2>3 DEF MInv
<1>4. CASE stage = "list"
  <2>1. ch' = ch /\ Prepared' /\ SideFilled'
    BY <1>4, SideGot
  <2>2. ChannelFilled'
    BY <1>4, <2>1, WrittenStays DEF MInv, ChannelFilled
  <2>3. QED
    BY <1>2, <2>1, <2>2 DEF MInv
<1>5. QED
  BY <1>1, <1>3, <1>4

LEMMA InlineAsWritten ==
  ASSUME MInv, Lists, ParseInline
  PROVE  MInv'
<1>1. CASE \E why : Refuse(why)
  BY <1>1, RefuseAsWritten
<1>2. CASE ~\E why : Refuse(why)
  <2> DEFINE s == Head(rest).slot
             m == [MessageAt(s, inlineId, empty) EXCEPT
                     !.spec = inlineSpec, !.name = IF @ = empty THEN inlineSpec ELSE @]
  <2>1. /\ parsesMessages /\ chain = <<>> /\ s.ref = empty
        /\ Got(m) /\ rest' = Tail(rest)
        /\ UNCHANGED <<doc, stage, k, side, chain, channels, messages, api>>
    BY <1>2 DEF ParseInline, Unless, caches
  <2>2. m = Meaning(s, inlineId, inlineSpec)
    BY <2>1 DEF Meaning
  <2>3. Settled'
    BY <2>1, SettledStays DEF MInv
  <2> HIDE DEF m
  <2>4. QED
    BY <2>1, <2>2, <2>3, MessageGot
<1>3. QED
  BY <1>1, <1>2

LEMMA CachedAsWritten ==
  ASSUME MInv, Lists, UseCached
  PROVE  MInv'
<1>1. /\ parsesMessages /\ At # empty /\ At \in DOMAIN messages /\ Got(messages[At])
      /\ chain' = <<>> /\ rest' = Tail(rest)
      /\ UNCHANGED <<doc, stage, k, side, channels, messages, api>>
  BY DEF UseCached, caches
<1>2. /\ At \in DOMAIN doc.at \ References
      /\ messages[At] = MessageAt(doc.at[At], At, doc.at[At].key)
  BY <1>1 DEF MInv, Settled
<1>3. begun # empty /\ EndOf(begun) = At
  BY <1>1, <1>2, ChainMeets DEF MInv
<1>4. messages[At] = Meaning(Head(rest).slot, inlineId, inlineSpec)
  BY <1>2, <1>3 DEF Meaning, begun
<1>5. Settled'
  BY <1>1, SettledStays DEF MInv
<1>6. QED
  BY <1>1, <1>4, <1>5, MessageGot

LEMMA FollowAsWritten ==
  ASSUME MInv, FollowReference
  PROVE  MInv'
<1>1. CASE \E why : Refuse(why)
  BY <1>1, RefuseAsWritten
<1>2. CASE ~\E why : Refuse(why)
  <2>1. /\ parsesMessages /\ At # empty /\ Problem(At) = empty /\ chain' = Append(chain, At)
        /\ UNCHANGED <<doc, stage, k, side, work, ch, rest, channels, messages, api>>
    BY <1>2 DEF FollowReference, Unless, caches
  <2>2. Linked'
    BY <2>1, ChainGrows DEF MInv
  <2>3. Settled'
    BY <2>1, SettledStays DEF MInv
  <2>4. stage \in {"channelMessages", "list"}
    BY <2>1 DEF parsesMessages
  <2>5. Prepared'
    BY <2>1, <2>4, PreparedStays DEF MInv, ChannelStages
  <2>6. ChannelMeaning(ch)' = ChannelMeaning(ch)
    BY <2>1, SideStays
  <2>7. ChannelFilled'
    BY <2>1, <2>4, <2>6 DEF MInv, ChannelFilled, ChannelWritten
  <2>8. ListMeaning(Side.messages, place)' = ListMeaning(Side.messages, place)
    BY <2>1, SideStays DEF Side, place
  <2>9. SideFilled'
    BY <2>1, <2>6, <2>8 DEF MInv, SideFilled, got, Side, Listed
  <2>10. QED
    BY <2>2, <2>3, <2>5, <2>7, <2>9 DEF MInv
<1>3. QED
  BY <1>1, <1>2

LEMMA TargetAsWritten ==
  ASSUME MInv, Lists, ParseTarget
  PROVE  MInv'
<1>1. CASE \E why : Refuse(why)
  BY <1>1, RefuseAsWritten
<1>2. CASE ~\E why : Refuse(why)
  <2> DEFINE ptr == Last(chain)
             m == MessageAt(doc.at[ptr], ptr, doc.at[ptr].key)
             new == [r \in {ptr} |-> m]
  <2>1. /\ parsesMessages /\ chain # <<>> /\ At = empty
        /\ messages' = Overlay(new, messages) /\ Got(m)
        /\ chain' = <<>> /\ rest' = Tail(rest)
        /\ UNCHANGED <<doc, stage, k, side, channels, api>>
    BY <1>2 DEF ParseTarget, Unless
  <2>2. begun # empty /\ EndOf(begun) = ptr /\ ptr \in DOMAIN doc.at \ References
    BY <2>1, ChainEnds DEF MInv
  <2>3. m = Meaning(Head(rest).slot, inlineId, inlineSpec)
    BY <2>2 DEF Meaning, begun
  <2>4. DOMAIN new = {ptr} /\ new[ptr] = m
    OBVIOUS
  <2> HIDE DEF new
  <2>5. \A p \in DOMAIN messages' :
          p \in DOMAIN doc.at \ References /\ messages'[p] = MessageAt(doc.at[p], p, doc.at[p].key)
    <3>1. /\ DOMAIN Overlay(new, messages) = {ptr} \cup DOMAIN messages
          /\ Overlay(new, messages)[ptr] = m
          /\ \A p \in DOMAIN messages \ {ptr} : Overlay(new, messages)[p] = messages[p]
      BY <2>4 DEF Overlay
    <3>2. QED
      BY <2>1, <2>2, <3>1 DEF MInv, Settled
  <2>6. Settled'
    <3>1. References' = References
      BY <2>1, SlotsStay
    <3>2. (\A o \in ToSet(api) : Written(o) /\ ReplyWritten(o))'
      BY <2>1, WrittenStays DEF MInv, Settled
    <3>3. (\A r \in DOMAIN channels : ChannelWritten(channels[r]))'
      BY <2>1, WrittenStays DEF MInv, Settled
    <3>4. \A slot, p, key : MessageAt(slot, p, key)' = MessageAt(slot, p, key)
      BY <2>1, MessageStays
    <3> HIDE DEF m
    <3>5. QED
      BY <2>1, <2>5, <3>1, <3>2, <3>3, <3>4 DEF MInv, Settled
  <2> HIDE DEF m
  <2>7. QED
    BY <2>1, <2>3, <2>6, MessageGot
<1>3. QED
  BY <1>1, <1>2

LEMMA IdleAsWritten ==
  ASSUME MInv, UNCHANGED <<doc, chain, k, api, channels, messages>>,
         stage \in {"version", "servers", "begin"}, stage' \in {"servers", "begin", "accepted"}
  PROVE  MInv'
<1>1. Settled'
  BY SettledStays DEF MInv
<1>2. Linked'
  BY NoChain DEF MInv
<1>3. Prepared' /\ ChannelFilled' /\ SideFilled'
  BY DEF Prepared, ChannelFilled, SideFilled, ChannelStages
<1>4. QED
  BY <1>1, <1>2, <1>3 DEF MInv

LEMMA NoProblem ==
  ASSUME NEW ref, Problem(ref) = empty
  PROVE  ref \in DOMAIN doc.at \cup {empty}
BY Resolved

LEMMA OperationFound ==
  ASSUME NEW slot, OperationProblem(slot) = empty
  PROVE  /\ slot.ref \in DOMAIN doc.at \cup {empty}
         /\ Target(slot).action \in {"send", "receive"} /\ Target(slot).channel # <<>>
<1>1. "action" # empty /\ "channel" # empty
  BY Zenon DEF empty
<1>2. /\ Problem(slot.ref) = empty
      /\ Target(slot).action \in {"send", "receive"} /\ Target(slot).channel # <<>>
  BY <1>1, Zenon DEF OperationProblem
<1>3. QED
  BY <1>2, NoProblem

LEMMA BeginAsWritten ==
  ASSUME MInv, BeginOperation
  PROVE  MInv'
<1>1. CASE \E why : Refuse(why)
  BY <1>1, RefuseAsWritten
<1>2. CASE ~\E why : Refuse(why)
  <2> DEFINE slot == doc.ops[k].slot
  <2>1. /\ stage = "begin" /\ k <= Len(doc.ops) /\ OperationProblem(slot) = empty
        /\ stage' = "channel" /\ side' = "operation"
        /\ UNCHANGED <<doc, k, chain, api, channels, messages>>
        /\ work' = [name |-> doc.ops[k].name, slot |-> Target(slot),
                    fields |-> AllMerged(Target(slot).fields, Target(slot).traits),
                    channel |-> NoChannel, messages |-> <<>>,
                    replyChannel |-> NoChannel, replyMessages |-> <<>>]
    BY <1>2 DEF BeginOperation, Unless, caches
  <2>2. Settled'
    BY <2>1, SettledStays DEF MInv
  <2>3. Linked'
    BY <2>1, NoChain DEF MInv
  <2>4. ChannelFilled' /\ SideFilled'
    BY <2>1 DEF ChannelFilled, SideFilled
  <2>5. OperationListed(doc, Target(slot))
    <3>1. doc \in Documents /\ k \in Nat \ {0}
      BY DEF MInv, Settled
    <3>2. IsSeq(doc.ops)
      BY <3>1, DocumentAssumption
    <3>3. doc.ops[k] \in ToSet(doc.ops)
      BY <2>1, <3>1, <3>2, SeqLen DEF ToSet
    <3>4. slot \in {o.slot : o \in ToSet(doc.ops)}
      BY <3>3
    <3>5. slot.ref \in DOMAIN doc.at \cup {empty} /\ Target(slot).action \in {"send", "receive"}
      BY <2>1, OperationFound
    <3> HIDE DEF slot
    <3>6. QED
      BY <3>1, <3>4, <3>5, DocumentAssumption DEF Target
  <2>6. Target(slot).channel # <<>>
    BY <2>1, OperationFound
  <2> HIDE DEF slot
  <2>7. /\ {"name", "slot", "channel", "messages", "replyChannel", "replyMessages"} \subseteq DOMAIN work'
        /\ work'.slot = Target(slot) /\ Side' = Target(slot)
    BY <2>1 DEF Side
  <2>8. Prepared'
    BY <2>1, <2>5, <2>6, <2>7 DEF Prepared
  <2>9. QED
    BY <2>2, <2>3, <2>4, <2>8 DEF MInv
<1>3. QED
  BY <1>1, <1>2

LEMMA SideListed ==
  ASSUME Prepared, stage \in ChannelStages \cup {"channel"}
  PROVE  PartListed(doc, Side) /\ Side.channel # <<>>
BY DEF Prepared, Side, OperationListed

LEMMA LinkAsWritten ==
  ASSUME MInv, LinkChannel
  PROVE  MInv'
<1>1. CASE \E why : Refuse(why)
  BY <1>1, RefuseAsWritten
<1>2. CASE ~\E why : Refuse(why)
  <2>1. /\ stage = "channel" /\ stage' \in {"messages", "channelTraits"}
        /\ UNCHANGED <<doc, k, side, work, chain, api, channels, messages>>
    BY <1>2 DEF LinkChannel, Unless, caches
  <2>2. Settled'
    BY <2>1, SettledStays DEF MInv
  <2>3. Linked'
    BY <2>1, NoChain DEF MInv
  <2>4. Prepared'
    BY <2>1, PreparedStays DEF MInv
  <2>5. SideFilled'
    BY <2>1 DEF SideFilled
  <2>6. ChannelFilled'
    <3> DEFINE slot == Side.channel[1]
    <3>1. CASE slot.ref \in DOMAIN channels
      <4>1. ch' = channels[slot.ref] /\ stage' = "messages"
        BY <3>1 DEF LinkChannel
      <4>2. PICK c : c = channels[slot.ref]
        OBVIOUS
      <4>3. ChannelWritten(c)' = ChannelWritten(c) /\ ChannelWritten(c)
        BY <2>1, <3>1, <4>2, WrittenStays DEF MInv, Settled
      <4>4. ChannelWritten(ch)'
        BY <4>1, <4>2, <4>3
      <4>5. QED
        BY <4>1, <4>4 DEF ChannelFilled
    <3>2. CASE slot.ref \notin DOMAIN channels
      <4>1. /\ Problem(slot.ref) = empty /\ Target(slot).ref = empty
            /\ stage' = "channelTraits"
            /\ ch' = [id |-> IF slot.ref = empty THEN work.name \o "." \o side ELSE slot.ref,
                      ref |-> slot.ref,
                      name |-> IF slot.ref = empty THEN inlineName ELSE Target(slot).key,
                      slot |-> Target(slot), fields |-> Target(slot).fields,
                      servers |-> ServersOf(Target(slot)), traitParams |-> {},
                      params |-> <<>>, messages |-> <<>>]
        <5>1. "address" # empty
          BY Zenon DEF empty
        <5>2. QED
          BY <1>2, <3>2, <5>1 DEF LinkChannel, Unless
      <4>2. slot.ref \in DOMAIN doc.at \cup {empty}
        BY <4>1, NoProblem
      <4>3. ChannelListed(Target(slot))
        BY <2>1, <4>1, <4>2, SideListed DEF MInv, PartListed, Target
      <4> HIDE DEF slot
      <4>4. {"slot", "id"} \subseteq DOMAIN ch' /\ ch'.messages = <<>> /\ ch'.slot = Target(slot)
        BY <4>1
      <4>5. QED
        BY <4>1, <4>3, <4>4 DEF ChannelFilled
    <3>3. QED
      BY <3>1, <3>2
  <2>7. QED
    BY <2>2, <2>3, <2>4, <2>5, <2>6 DEF MInv
<1>3. QED
  BY <1>1, <1>2

LEMMA ChannelStep ==
  ASSUME MInv, UNCHANGED <<doc, k, side, work, chain, api, channels, messages>>,
         stage \in {"channelTraits", "parameters"},
         stage' \in {"channelTraits", "parameters", "channelMessages"},
         DOMAIN ch' = DOMAIN ch, ch'.slot = ch.slot, ch'.messages = ch.messages,
         stage' = "channelMessages" => rest' = ch.slot.messages
  PROVE  MInv'
<1>1. Settled'
  BY SettledStays DEF MInv
<1>2. Linked'
  BY NoChain DEF MInv
<1>3. Prepared'
  BY PreparedStays DEF MInv, ChannelStages
<1>4. SideFilled'
  BY DEF SideFilled
<1>5. {"slot", "id"} \subseteq DOMAIN ch /\ ch.messages = <<>> /\ ChannelListed(ch.slot)
  BY DEF MInv, ChannelFilled
<1>6. Filled(<<>>, ch.slot.messages, ch.slot.messages, ChannelMeaning(ch)')
  BY <1>5, FilledNone DEF ChannelListed
<1>7. ChannelFilled'
  BY <1>5, <1>6 DEF ChannelFilled
<1>8. QED
  BY <1>1, <1>2, <1>3, <1>4, <1>7 DEF MInv

LEMMA ChannelStepsAsWritten ==
  ASSUME MInv, Lists, MergeChannelTrait \/ TraitsMerged \/ ParseParameter \/ ParametersParsed
  PROVE  MInv'
<1>1. CASE \E why : Refuse(why)
  BY <1>1, RefuseAsWritten
<1>2. CASE ~\E why : Refuse(why)
  <2>1. CASE MergeChannelTrait
    <3>1. /\ stage = "channelTraits"
          /\ UNCHANGED <<doc, stage, k, side, work, chain, api, channels, messages>>
      BY <1>2, <2>1 DEF MergeChannelTrait, caches
    <3>2. {"slot", "messages"} \subseteq DOMAIN ch
      BY <3>1 DEF MInv, ChannelFilled, Lists, HasList, ChannelStages
    <3>3. DOMAIN ch' = DOMAIN ch /\ ch'.slot = ch.slot /\ ch'.messages = ch.messages
      BY <1>2, <2>1, <3>2 DEF MergeChannelTrait
    <3>4. QED
      BY <3>1, <3>3, ChannelStep
  <2>2. CASE TraitsMerged \/ ParametersParsed
    BY <2>2, ChannelStep DEF TraitsMerged, ParametersParsed, caches
  <2>3. CASE ParseParameter
    <3>1. /\ stage = "parameters"
          /\ UNCHANGED <<doc, stage, k, side, work, chain, api, channels, messages>>
      BY <1>2, <2>3 DEF ParseParameter, Unless
    <3>2. {"slot", "messages"} \subseteq DOMAIN ch
      BY <3>1 DEF MInv, ChannelFilled, Lists, HasList, ChannelStages
    <3>3. DOMAIN ch' = DOMAIN ch /\ ch'.slot = ch.slot /\ ch'.messages = ch.messages
      BY <1>2, <2>3, <3>2 DEF ParseParameter, Unless
    <3>4. QED
      BY <3>1, <3>3, ChannelStep
  <2>4. QED
    BY <2>1, <2>2, <2>3
<1>3. QED
  BY <1>1, <1>2

LEMMA EndChannelAsWritten ==
  ASSUME MInv, EndChannel
  PROVE  MInv'
<1>1. CASE \E why : Refuse(why)
  BY <1>1, RefuseAsWritten
<1>2. CASE ~\E why : Refuse(why)
  <2>1. /\ stage = "channelMessages" /\ rest = <<>> /\ stage' = "messages"
        /\ channels' = IF ch.ref = empty THEN channels ELSE Overlay([r \in {ch.ref} |-> ch], channels)
        /\ UNCHANGED <<doc, k, side, work, ch, chain, api, messages>>
    BY <1>2 DEF EndChannel, Unless
  <2>2. ChannelWritten(ch)
    <3>1. Filled(ch.messages, <<>>, ch.slot.messages, ChannelMeaning(ch))
      BY <2>1 DEF MInv, ChannelFilled
    <3>2. ChannelMeaning(ch) = [i \in DOMAIN ch.slot.messages |-> ChannelMeaning(ch)[i]]
      BY DEF ChannelMeaning
    <3>3. QED
      BY <3>1, <3>2, FilledAll DEF ChannelWritten
  <2>3. \A r \in DOMAIN channels' : ChannelWritten(channels'[r])
    <3>1. \A r \in DOMAIN channels : ChannelWritten(channels[r])
      BY DEF MInv, Settled
    <3>2. CASE ch.ref = empty
      BY <2>1, <3>1, <3>2
    <3>3. CASE ch.ref # empty
      <4> DEFINE new == [r \in {ch.ref} |-> ch]
      <4>1. channels' = Overlay(new, channels) /\ DOMAIN new = {ch.ref} /\ new[ch.ref] = ch
        BY <2>1, <3>3
      <4> HIDE DEF new
      <4>2. /\ DOMAIN Overlay(new, channels) = {ch.ref} \cup DOMAIN channels
            /\ Overlay(new, channels)[ch.ref] = ch
            /\ \A r \in DOMAIN channels \ {ch.ref} : Overlay(new, channels)[r] = channels[r]
        BY <4>1 DEF Overlay
      <4>3. QED
        BY <2>2, <3>1, <4>1, <4>2
    <3>4. QED
      BY <3>2, <3>3
  <2>4. Settled'
    <3>1. References' = References
      BY <2>1, SlotsStay
    <3>2. (\A o \in ToSet(api) : Written(o) /\ ReplyWritten(o))'
      BY <2>1, WrittenStays DEF MInv, Settled
    <3>3. PICK cs : cs = channels'
      OBVIOUS
    <3>4. \A c : ChannelWritten(c)' = ChannelWritten(c)
      BY <2>1, WrittenStays
    <3>5. (\A r \in DOMAIN channels : ChannelWritten(channels[r]))'
      BY <2>3, <3>3, <3>4
    <3>6. \A slot, p, key : MessageAt(slot, p, key)' = MessageAt(slot, p, key)
      BY <2>1, MessageStays
    <3>7. QED
      BY <2>1, <3>1, <3>2, <3>5, <3>6 DEF MInv, Settled
  <2>5. Linked'
    BY <2>1, NoChain DEF MInv
  <2>6. Prepared'
    BY <2>1, PreparedStays DEF MInv, ChannelStages
  <2>7. ChannelFilled' /\ SideFilled'
    BY <2>1, <2>2, WrittenStays DEF ChannelFilled, SideFilled
  <2>8. QED
    BY <2>4, <2>5, <2>6, <2>7 DEF MInv
<1>3. QED
  BY <1>1, <1>2

LEMMA ListedIsSeq ==
  ASSUME IsSeq(Side.messages)
  PROVE  IsSeq(Listed) /\ (Side.messages = <<>> => Listed = <<>>)
<1> DEFINE list == Side.messages
<1>1. Len(list) \in Nat /\ DOMAIN list = 1..Len(list)
  BY SeqLen
<1> HIDE DEF list
<1>2. Listed = [i \in 1..Len(list) |-> [key |-> ToString(i), slot |-> list[i]]]
  BY <1>1 DEF Listed, list
<1>3. DOMAIN Listed = 1..Len(list) /\ \A i \in 1..Len(list) : Listed[i] \in ToSet(Listed)
  BY <1>2 DEF ToSet
<1>4. Listed \in [1..Len(list) -> ToSet(Listed)]
  BY <1>2, <1>3
<1>5. Listed \in Seq(ToSet(Listed))
  BY <1>1, <1>4
<1>6. list = <<>> => Listed = <<>>
  <2>1. SUFFICES ASSUME list = <<>> PROVE Listed = <<>>
    OBVIOUS
  <2>2. Len(list) = 0
    BY <2>1, EmptySeq
  <2>3. Len(Listed) = 0
    BY <1>3, <1>5, <2>2
  <2>4. QED
    BY <1>5, <2>3, EmptySeq
<1>7. QED
  BY <1>5, <1>6 DEF IsSeq, list

LEMMA ChooseAsWritten ==
  ASSUME MInv, Lists, ChooseMessages
  PROVE  MInv'
<1>1. CASE \E why : Refuse(why)
  BY <1>1, RefuseAsWritten
<1>2. CASE ~\E why : Refuse(why)
  <2> DEFINE inherited == IF Side.messages = <<>> THEN ch.messages ELSE <<>>
  <2>1. /\ stage = "messages" /\ stage' = "list" /\ rest' = Listed
        /\ work' = IF side = "operation"
                   THEN [work EXCEPT !.channel = ch, !.messages = inherited]
                   ELSE [work EXCEPT !.replyChannel = ch, !.replyMessages = inherited]
        /\ UNCHANGED <<doc, k, side, ch, chain, api, channels, messages>>
    BY <1>2 DEF ChooseMessages, Unless, caches
  <2>2. Settled'
    BY <2>1, SettledStays DEF MInv
  <2>3. Linked'
    BY <2>1, NoChain DEF MInv
  <2>4. ChannelWritten(ch) /\ ChannelFilled'
    BY <2>1, WrittenStays DEF MInv, ChannelFilled
  <2>5. /\ {"name", "slot", "channel", "messages", "replyChannel", "replyMessages"} \subseteq DOMAIN work
        /\ side \in {"operation", "reply"} /\ OperationListed(doc, work.slot) /\ Side.channel # <<>>
        /\ side = "reply" => work.slot.reply # <<>> /\ Written(work)
    BY <2>1 DEF MInv, Prepared, ChannelStages
  <2> HIDE DEF inherited
  <2>6. /\ DOMAIN work' = DOMAIN work /\ work'.name = work.name /\ work'.slot = work.slot
        /\ side = "operation" => work'.channel = ch /\ work'.messages = inherited
        /\ side # "operation" => /\ work'.channel = work.channel /\ work'.messages = work.messages
                                 /\ work'.replyChannel = ch /\ work'.replyMessages = inherited
    <3>1. CASE side = "operation"
      BY <2>1, <2>5, <3>1
    <3>2. CASE side # "operation"
      BY <2>1, <2>5, <3>2
    <3>3. QED
      BY <3>1, <3>2
  <2>7. Side' = Side /\ place' = place /\ Listed' = Listed
    BY <2>1, <2>6 DEF Side, place, Listed
  <2>8. got' = inherited
    BY <2>1, <2>6 DEF got
  <2>9. IsSeq(Side.messages)
    BY <2>1, SideListed DEF MInv, PartListed, ChannelStages
  <2>10. Prepared'
    <3>1. side = "reply" => Written(work)'
      <4>1. PICK w : w = work'
        OBVIOUS
      <4>2. side = "reply" => Written(w)
        BY <2>5, <2>6, <4>1 DEF Written
      <4>3. Written(w)' = Written(w)
        BY <2>1, WrittenStays
      <4>4. QED
        BY <4>1, <4>2, <4>3
    <3>2. QED
      BY <2>1, <2>5, <2>6, <2>7, <3>1 DEF Prepared
  <2>11. SideFilled'
    <3>1. CASE Side.messages = <<>>
      <4>1. rest' = <<>>
        BY <2>1, <2>9, <3>1, ListedIsSeq
      <4>2. got' = ChannelMeaning(ch)
        BY <2>4, <2>8, <3>1 DEF ChannelWritten, inherited
      <4>3. ChannelMeaning(ch)' = ChannelMeaning(ch)
        BY <2>1, SideStays
      <4>4. QED
        BY <2>1, <2>6, <2>7, <3>1, <4>1, <4>2, <4>3 DEF SideFilled
    <3>2. CASE Side.messages # <<>>
      <4>1. got' = <<>>
        BY <2>8, <3>2 DEF inherited
      <4>2. Filled(<<>>, Listed, Listed, ListMeaning(Side.messages, place)')
        BY <2>9, ListedIsSeq, FilledNone
      <4>3. QED
        BY <2>1, <2>6, <2>7, <3>2, <4>1, <4>2 DEF SideFilled
    <3>3. QED
      BY <3>1, <3>2
  <2>12. QED
    BY <2>2, <2>3, <2>4, <2>10, <2>11 DEF MInv
<1>3. QED
  BY <1>1, <1>2

\* With nothing left to parse, the list of a side is what its document says.
LEMMA SideDone ==
  ASSUME SideFilled, stage = "list", rest = <<>>
  PROVE  /\ side = "operation" => work.messages = SideMeaning(Side, work.channel, place)
         /\ side # "operation" => work.replyMessages = SideMeaning(Side, work.replyChannel, place)
<1>1. got = SideMeaning(Side, ch, place)
  <2>1. CASE Side.messages = <<>>
    BY <2>1 DEF SideFilled, SideMeaning
  <2>2. CASE Side.messages # <<>>
    <3>1. Filled(got, <<>>, Listed, ListMeaning(Side.messages, place))
      BY <2>2 DEF SideFilled
    <3>2. DOMAIN Listed = DOMAIN Side.messages
      BY DEF Listed
    <3>3. ListMeaning(Side.messages, place) =
            [i \in DOMAIN Listed |-> ListMeaning(Side.messages, place)[i]]
      BY <3>2 DEF ListMeaning
    <3>4. got = ListMeaning(Side.messages, place)
      BY <3>1, <3>3, FilledAll
    <3>5. QED
      BY <2>2, <3>4 DEF SideMeaning
  <2>3. QED
    BY <2>1, <2>2
<1>2. QED
  BY <1>1 DEF SideFilled, got

LEMMA EndListAsWritten ==
  ASSUME MInv, Lists, EndList
  PROVE  MInv'
<1>1. CASE \E why : Refuse(why)
  BY <1>1, RefuseAsWritten
<1>2. CASE ~\E why : Refuse(why)
  <2> DEFINE replies == side = "operation" /\ work.slot.reply # <<>>
  <2>1. /\ stage = "list" /\ rest = <<>>
        /\ replies => /\ side' = "reply" /\ stage' = "channel" /\ UNCHANGED <<k, api>>
                      /\ work.slot.reply[1].channel # <<>>
        /\ ~replies => api' = Append(api, work) /\ k' = k + 1 /\ stage' = "begin"
        /\ UNCHANGED <<doc, work, ch, rest, chain, channels, messages>>
    <3>1. "channel" # empty
      BY Zenon DEF empty
    <3>2. QED
      BY <1>2, <3>1 DEF EndList, Unless, caches
  <2>2. /\ {"name", "slot", "channel", "messages", "replyChannel", "replyMessages"} \subseteq DOMAIN work
        /\ side \in {"operation", "reply"} /\ OperationListed(doc, work.slot)
        /\ side = "reply" => work.slot.reply # <<>> /\ Written(work)
    BY <2>1 DEF MInv, Prepared, ChannelStages
  <2>3. Written(work)
    <3>1. CASE side = "operation"
      BY <2>1, <3>1, SideDone DEF MInv, Written, Side, place
    <3>2. CASE side # "operation"
      BY <2>2, <3>2
    <3>3. QED
      BY <3>1, <3>2
  <2>4. ~replies => ReplyWritten(work)
    <3>1. CASE side = "operation"
      BY <3>1 DEF ReplyWritten
    <3>2. CASE side = "reply"
      BY <2>1, <3>2, SideDone DEF MInv, ReplyWritten, Side, place
    <3>3. QED
      BY <2>2, <3>1, <3>2
  <2>5. Linked'
    BY <2>1, NoChain DEF MInv
  <2>6. ChannelFilled' /\ SideFilled'
    BY <2>1 DEF ChannelFilled, SideFilled
  <2>7. CASE replies
    <3>1. Settled'
      BY <2>1, <2>7, SettledStays DEF MInv
    <3>2. Side' = work.slot.reply[1]
      BY <2>1, <2>7 DEF Side
    <3>3. Written(work)'
      BY <2>1, <2>3, WrittenStays
    <3>4. Prepared'
      BY <2>1, <2>2, <2>7, <3>2, <3>3 DEF Prepared
    <3>5. QED
      BY <2>5, <2>6, <3>1, <3>4 DEF MInv
  <2>8. CASE ~replies
    <3>1. Prepared'
      BY <2>1, <2>8 DEF Prepared, ChannelStages
    <3>2. k' \in Nat \ {0}
      BY <2>1, <2>8 DEF MInv, Settled
    <3>3. \A o \in ToSet(api') : Written(o) /\ ReplyWritten(o)
      <4>1. ToSet(Append(api, work)) = ToSet(api) \cup {work}
        BY AppendIsSeq DEF Lists
      <4>2. api' = Append(api, work) /\ Written(work) /\ ReplyWritten(work)
        BY <2>1, <2>3, <2>4, <2>8
      <4>3. \A o \in ToSet(api) : Written(o) /\ ReplyWritten(o)
        BY DEF MInv, Settled
      <4>4. QED
        BY <4>1, <4>2, <4>3
    <3>4. (\A o \in ToSet(api) : Written(o) /\ ReplyWritten(o))'
      <4>1. PICK a : a = api'
        OBVIOUS
      <4>2. \A o : Written(o)' = Written(o) /\ ReplyWritten(o)' = ReplyWritten(o)
        BY <2>1, WrittenStays
      <4>3. QED
        BY <3>3, <4>1, <4>2
    <3>5. (\A r \in DOMAIN channels : ChannelWritten(channels[r]))'
      BY <2>1, WrittenStays DEF MInv, Settled
    <3>6. \A slot, p, key : MessageAt(slot, p, key)' = MessageAt(slot, p, key)
      BY <2>1, MessageStays
    <3>7. References' = References
      BY <2>1, SlotsStay
    <3>8. Settled'
      BY <2>1, <3>2, <3>4, <3>5, <3>6, <3>7 DEF MInv, Settled
    <3>9. QED
      BY <2>5, <2>6, <3>1, <3>8 DEF MInv
  <2>9. QED
    BY <2>7, <2>8
<1>3. QED
  BY <1>1, <1>2

LEMMA NextAsWritten == Lists /\ MInv /\ [Next]_vars => MInv'
<1> SUFFICES ASSUME Lists, MInv, [Next]_vars PROVE MInv'
  OBVIOUS
<1>1. ASSUME \E why : Refuse(why) PROVE MInv'
  BY <1>1, RefuseAsWritten
<1>2. CASE UNCHANGED vars
  <2>1. UNCHANGED <<doc, stage, k, side, work, ch, rest, chain, channels, messages, api>>
    BY <1>2 DEF vars, caches
  <2>2. Settled'
    BY <2>1, SettledStays DEF MInv
  <2>3. Written(work)' = Written(work) /\ ChannelWritten(ch)' = ChannelWritten(ch)
    BY <2>1, WrittenStays
  <2>4. Prepared'
    BY <2>1, <2>3 DEF MInv, Prepared, Side
  <2>5. ChannelMeaning(ch)' = ChannelMeaning(ch)
        /\ ListMeaning(Side.messages, place)' = ListMeaning(Side.messages, place)
    BY <2>1, SideStays DEF Side, place
  <2>6. ChannelFilled' /\ SideFilled'
    BY <2>1, <2>3, <2>5 DEF MInv, ChannelFilled, SideFilled, Side, Listed, got
  <2>7. References' = References
    BY <2>1, SlotsStay
  <2>8. Linked'
    BY <2>1, <2>7 DEF MInv, Linked, Reaches, Met, begun
  <2>9. QED
    BY <2>2, <2>4, <2>6, <2>8 DEF MInv
<1>3. CASE CheckVersion \/ Accept
  BY <1>1, <1>3, IdleAsWritten DEF CheckVersion, Accept, Unless, caches
<1>4. CASE ParseServers
  BY <1>1, <1>4, IdleAsWritten DEF ParseServers, caches
<1>5. QED
  BY <1>2, <1>3, <1>4, BeginAsWritten, LinkAsWritten, ChannelStepsAsWritten, EndChannelAsWritten,
     InlineAsWritten, CachedAsWritten, FollowAsWritten, TargetAsWritten, ChooseAsWritten, EndListAsWritten
     DEF Next

LEMMA AsWritten == Spec => [](Lists /\ MInv)
<1>1. Init => Lists /\ MInv
  BY InitLists, InitAsWritten
<1>2. Lists /\ MInv /\ [Next]_vars => (Lists /\ MInv)'
  BY NextLists, NextAsWritten
<1>3. QED
  BY <1>1, <1>2, PTL DEF Spec

(* Every operation has the messages its document gives it, whoever met     *)
(* them first (parseMessagePointer's cache, parse_operation.go:68-80).     *)
THEOREM MessagesAreAsWritten == Spec => []MessagesAsWritten
<1>1. MInv => MessagesAsWritten
  BY DEF MInv, Settled, Written, ReplyWritten, MessagesAsWritten
<1>2. QED
  BY <1>1, AsWritten, PTL

-----------------------------------------------------------------------------
(* Names of parameters.                                                    *)

\* The keys under which a channel and its traits refer to a parameter.
KeysIn(c, ref) ==
  {p.key : p \in {q \in ToSet(c.slot.params) \cup UNION {ToSet(Target(t).params) : t \in ToSet(c.slot.traits)} :
                    q.slot.ref = ref}}

\* A channel refers to its shared parameters under their keys.
KeysTrue(c) ==
  \A key \in DOMAIN c.params :
    c.params[key] # empty => c.params[key] \in DOMAIN paramName /\ key \in KeysIn(c, c.params[key])

\* The channels of all operations, the one in work included.
workStages == ChannelStages \cup {"channel"}
Known ==
  ParsedChannels
    \cup (IF stage \in workStages THEN {work.channel, work.replyChannel} \ {NoChannel} ELSE {})
    \cup (IF stage \in ChannelStages THEN {ch} ELSE {})

Referred ==
  stage # "refused" =>
    /\ \A c \in Known : KeysTrue(c)
    /\ \A r \in DOMAIN channels : KeysTrue(channels[r])
    /\ \A r \in DOMAIN paramName : \E c \in Known : paramName[r] \in KeysIn(c, r)

Unlinked ==
  stage \in workStages =>
    /\ side = "operation" => work.replyChannel = NoChannel
    /\ stage # "list" => (IF side = "operation" THEN work.channel ELSE work.replyChannel) = NoChannel

Remaining ==
  /\ stage \in ChannelStages => {"slot", "params"} \subseteq DOMAIN ch
  /\ \A r \in DOMAIN channels : {"slot", "params"} \subseteq DOMAIN channels[r]
  /\ stage = "channelTraits" => IsSeq(rest) /\ ToSet(rest) \subseteq ToSet(ch.slot.traits)
  /\ stage = "parameters" => IsSeq(rest) /\ ToSet(rest) \subseteq ToSet(ch.slot.params)

KInv == Referred /\ Unlinked /\ Remaining

LEMMA InitReferred == Init => KInv
<1>1. DOMAIN <<>> = {}
  OBVIOUS
<1>2. QED
  BY <1>1, EmptyIsSeq DEF Init, KInv, Referred, Unlinked, Remaining, Known, ParsedChannels,
     workStages, ChannelStages

LEMMA KeysStay == UNCHANGED doc => \A c, r : KeysIn(c, r)' = KeysIn(c, r)
BY SlotsStay DEF KeysIn

LEMMA TrueStays ==
  ASSUME UNCHANGED doc, DOMAIN paramName \subseteq DOMAIN paramName',
         NEW c, KeysTrue(c), NEW d, d.slot = c.slot, d.params = c.params
  PROVE  KeysTrue(d)'
<1>1. \A r : KeysIn(d, r)' = KeysIn(c, r)
  <2>1. \A r : KeysIn(d, r) = KeysIn(c, r)
    BY DEF KeysIn
  <2>2. QED
    BY <2>1, KeysStay
<1>2. QED
  BY <1>1 DEF KeysTrue

\* What a step must do to keep the names of parameters.
cached == {channels[r] : r \in DOMAIN channels}
AsBefore(d) == \E c \in Known \cup cached : d.slot = c.slot /\ d.params = c.params

LEMMA ReferredStep ==
  ASSUME Referred, stage # "refused", UNCHANGED doc,
         DOMAIN paramName \subseteq DOMAIN paramName',
         \A d \in Known' : AsBefore(d) \/ KeysTrue(d)',
         \A c \in Known : \E d \in Known' : d.slot = c.slot,
         \A r \in DOMAIN channels' : AsBefore(channels'[r]),
         \A r \in DOMAIN paramName' :
           \/ r \in DOMAIN paramName /\ paramName'[r] = paramName[r]
           \/ \E d \in Known' : paramName'[r] \in KeysIn(d, r)
  PROVE  Referred'
<1>1. \A c \in Known \cup cached : KeysTrue(c)
  BY DEF Referred, cached
<1>2. \A d : AsBefore(d) => KeysTrue(d)'
  BY <1>1, TrueStays DEF AsBefore
<1>3. (\A c \in Known : KeysTrue(c))'
  BY <1>2
<1>4. (\A r \in DOMAIN channels : KeysTrue(channels[r]))'
  <2>1. PICK cs : cs = channels'
    OBVIOUS
  <2>2. \A r \in DOMAIN cs : KeysTrue(cs[r])'
    BY <1>2, <2>1
  <2>3. QED
    BY <2>1, <2>2
<1>5. (\A r \in DOMAIN paramName : \E c \in Known : paramName[r] \in KeysIn(c, r))'
  <2>1. \A r \in DOMAIN paramName' : \E d \in Known' : paramName'[r] \in KeysIn(d, r)
    <3>1. SUFFICES ASSUME NEW r \in DOMAIN paramName', r \in DOMAIN paramName, paramName'[r] = paramName[r]
                   PROVE  \E d \in Known' : paramName'[r] \in KeysIn(d, r)
      OBVIOUS
    <3>2. PICK c \in Known : paramName[r] \in KeysIn(c, r)
      BY <3>1 DEF Referred
    <3>3. PICK d \in Known' : d.slot = c.slot
      OBVIOUS
    <3>4. KeysIn(d, r) = KeysIn(c, r)
      BY <3>3 DEF KeysIn
    <3>5. QED
      BY <3>1, <3>2, <3>3, <3>4
  <2>2. QED
    BY <2>1, KeysStay
<1>6. QED
  BY <1>3, <1>4, <1>5 DEF Referred

LEMMA WinsFromKeys == KInv => KeyWinsWhenUnshared
<1> SUFFICES ASSUME KInv, stage = "accepted", NEW c \in ParsedChannels, NEW key \in DOMAIN c.params,
                    c.params[key] # empty, KeysOf(c.params[key]) \subseteq {key}
             PROVE  NameOfParameter(c, key) = key
  BY DEF KeyWinsWhenUnshared
<1> DEFINE ref == c.params[key]
<1>1. Known = ParsedChannels
  BY DEF Known, workStages, ChannelStages
<1>2. ref \in DOMAIN paramName
  BY <1>1 DEF KInv, Referred, KeysTrue
<1>3. PICK d \in ParsedChannels : paramName[ref] \in KeysIn(d, ref)
  BY <1>1, <1>2 DEF KInv, Referred
<1> HIDE DEF ref
<1>4. KeysIn(d, ref) \subseteq KeysOf(ref)
  BY DEF KeysIn, KeysOf
<1>5. paramName[ref] = key
  BY <1>3, <1>4 DEF ref
<1>6. QED
  BY <1>5 DEF NameOfParameter, ref

LEMMA RefuseReferred ==
  ASSUME KInv, NEW why, Refuse(why)
  PROVE  KInv'
BY DEF Refuse, KInv, Referred, Unlinked, Remaining, workStages, ChannelStages, caches

LEMMA HasSlot ==
  ASSUME NEW c, "slot" \in DOMAIN c
  PROVE  c # NoChannel
BY DEF NoChannel

LEMMA IdleReferred ==
  ASSUME KInv, UNCHANGED <<doc, api, channels, paramName>>,
         stage \in {"version", "servers", "begin"}, stage' \in {"servers", "begin", "accepted"}
  PROVE  KInv'
<1>1. Known' = Known
  BY DEF Known, ParsedChannels, workStages, ChannelStages
<1>2. \A r \in DOMAIN channels' : AsBefore(channels'[r])
  BY DEF AsBefore, cached
<1>3. \A d \in Known : AsBefore(d)
  BY DEF AsBefore
<1>4. Referred'
  BY <1>1, <1>2, <1>3, ReferredStep DEF KInv
<1>5. QED
  BY <1>4 DEF KInv, Unlinked, Remaining, workStages, ChannelStages

LEMMA BeginReferred ==
  ASSUME KInv, BeginOperation
  PROVE  KInv'
<1>1. CASE \E why : Refuse(why)
  BY <1>1, RefuseReferred
<1>2. CASE ~\E why : Refuse(why)
  <2>1. /\ stage = "begin" /\ stage' = "channel" /\ side' = "operation"
        /\ UNCHANGED <<doc, api, channels, paramName>>
        /\ work'.channel = NoChannel /\ work'.replyChannel = NoChannel
    BY <1>2 DEF BeginOperation, Unless, caches
  <2>2. Known' = Known
    BY <2>1 DEF Known, ParsedChannels, workStages, ChannelStages
  <2>3. \A r \in DOMAIN channels' : AsBefore(channels'[r])
    BY <2>1 DEF AsBefore, cached
  <2>4. \A d \in Known : AsBefore(d)
    BY DEF AsBefore
  <2>5. Referred'
    BY <2>1, <2>2, <2>3, <2>4, ReferredStep DEF KInv
  <2>6. QED
    BY <2>1, <2>5 DEF KInv, Unlinked, Remaining, workStages, ChannelStages
<1>3. QED
  BY <1>1, <1>2

\* A step that works on the channel.
LEMMA ChannelReferred ==
  ASSUME KInv, stage \in ChannelStages \ {"messages", "list"}, stage' \in ChannelStages \ {"list"},
         UNCHANGED <<doc, work, side, api>>,
         ch'.slot = ch.slot, DOMAIN ch' = DOMAIN ch,
         ch'.params = ch.params \/ KeysTrue(ch)',
         \A r \in DOMAIN channels' :
           channels'[r] = ch \/ (r \in DOMAIN channels /\ channels'[r] = channels[r]),
         DOMAIN paramName \subseteq DOMAIN paramName',
         \A r \in DOMAIN paramName' :
           (r \in DOMAIN paramName /\ paramName'[r] = paramName[r]) \/ paramName'[r] \in KeysIn(ch, r),
         stage' = "channelTraits" => IsSeq(rest') /\ ToSet(rest') \subseteq ToSet(ch.slot.traits),
         stage' = "parameters" => IsSeq(rest') /\ ToSet(rest') \subseteq ToSet(ch.slot.params)
  PROVE  KInv'
<1> DEFINE others == ParsedChannels \cup ({work.channel, work.replyChannel} \ {NoChannel})
<1>1. Known = others \cup {ch} /\ Known' = others \cup {ch'}
  BY DEF Known, ParsedChannels, workStages, ChannelStages
<1> HIDE DEF others
<1>2. \A d \in others : AsBefore(d)
  BY <1>1 DEF AsBefore
<1>3. PICK c : c = ch'
  OBVIOUS
<1>4. AsBefore(c) \/ KeysTrue(c)'
  BY <1>1, <1>3 DEF AsBefore
<1>5. \A d \in Known' : AsBefore(d) \/ KeysTrue(d)'
  BY <1>1, <1>2, <1>3, <1>4
<1>6. \A e \in Known : \E d \in Known' : d.slot = e.slot
  BY <1>1
<1>7. \A r \in DOMAIN channels' : AsBefore(channels'[r])
  BY <1>1 DEF AsBefore, cached
<1>8. \A r \in DOMAIN paramName' :
        \/ r \in DOMAIN paramName /\ paramName'[r] = paramName[r]
        \/ \E d \in Known' : paramName'[r] \in KeysIn(d, r)
  <2>1. \A r : KeysIn(c, r) = KeysIn(ch, r)
    BY <1>3 DEF KeysIn
  <2>2. c \in Known'
    BY <1>1, <1>3
  <2>3. QED
    BY <2>1, <2>2
<1>9. Referred'
  BY <1>5, <1>6, <1>7, <1>8, ReferredStep DEF KInv, ChannelStages
<1>10. Unlinked'
  BY DEF KInv, Unlinked, workStages, ChannelStages
<1>11. \A r \in DOMAIN channels' : {"slot", "params"} \subseteq DOMAIN channels'[r]
  BY DEF KInv, Remaining
<1>12. Remaining'
  BY <1>11 DEF KInv, Remaining, ChannelStages
<1>13. QED
  BY <1>9, <1>10, <1>12 DEF KInv

\* A step that works on the messages of an operation or a reply.
LEMMA SideReferred ==
  ASSUME KInv, stage = "list", stage' = "list",
         UNCHANGED <<doc, side, ch, api, channels, paramName>>,
         work'.channel = work.channel, work'.replyChannel = work.replyChannel
  PROVE  KInv'
<1>1. Known' = Known
  BY DEF Known, ParsedChannels, workStages, ChannelStages
<1>2. \A r \in DOMAIN channels' : AsBefore(channels'[r])
  BY DEF AsBefore, cached
<1>3. \A d \in Known : AsBefore(d)
  BY DEF AsBefore
<1>4. Referred'
  BY <1>1, <1>2, <1>3, ReferredStep DEF KInv
<1>5. QED
  BY <1>4 DEF KInv, Unlinked, Remaining, workStages, ChannelStages

LEMMA GotReferred ==
  ASSUME KInv, MInv, Lists, parsesMessages, NEW m, Got(m),
         UNCHANGED <<doc, stage, side, api, channels, paramName>>
  PROVE  KInv'
<1>1. CASE stage = "channelMessages"
  <2>1. {"slot", "params", "messages"} \subseteq DOMAIN ch
    BY <1>1 DEF KInv, Remaining, Lists, HasList, ChannelStages
  <2>2. ch' = [ch EXCEPT !.messages = Append(@, m)] /\ work' = work
    BY <1>1 DEF Got
  <2>3. ch'.slot = ch.slot /\ DOMAIN ch' = DOMAIN ch /\ ch'.params = ch.params
    BY <2>1, <2>2
  <2>4. QED
    BY <1>1, <2>2, <2>3, ChannelReferred DEF ChannelStages
<1>2. CASE stage = "list"
  <2>1. {"channel", "messages", "replyChannel", "replyMessages"} \subseteq DOMAIN work
    BY <1>2 DEF MInv, Prepared, ChannelStages
  <2>2. ch' = ch /\ work'.channel = work.channel /\ work'.replyChannel = work.replyChannel
    BY <1>2, <2>1 DEF Got
  <2>3. QED
    BY <1>2, <2>2, SideReferred
<1>3. QED
  BY <1>1, <1>2 DEF parsesMessages

LEMMA MessagesReferred ==
  ASSUME KInv, MInv, Lists, ParseInline \/ UseCached \/ ParseTarget \/ FollowReference
  PROVE  KInv'
<1>1. CASE \E why : Refuse(why)
  BY <1>1, RefuseReferred
<1>2. CASE ~\E why : Refuse(why)
  <2>1. CASE ParseInline
    <3>1. parsesMessages /\ (\E m : Got(m)) /\ UNCHANGED <<doc, stage, side, api, channels, paramName>>
      BY <1>2, <2>1 DEF ParseInline, Unless, caches
    <3>2. QED
      BY <3>1, GotReferred
  <2>2. CASE UseCached
    <3>1. parsesMessages /\ (\E m : Got(m)) /\ UNCHANGED <<doc, stage, side, api, channels, paramName>>
      BY <2>2 DEF UseCached, caches
    <3>2. QED
      BY <3>1, GotReferred
  <2>3. CASE ParseTarget
    <3>1. parsesMessages /\ (\E m : Got(m)) /\ UNCHANGED <<doc, stage, side, api, channels, paramName>>
      BY <1>2, <2>3 DEF ParseTarget, Unless
    <3>2. QED
      BY <3>1, GotReferred
  <2>4. CASE FollowReference
    <3>1. /\ parsesMessages
          /\ UNCHANGED <<doc, stage, side, work, ch, api, channels, paramName>>
      BY <1>2, <2>4 DEF FollowReference, Unless, caches
    <3>2. CASE stage = "list"
      BY <3>1, <3>2, SideReferred
    <3>3. CASE stage = "channelMessages"
      BY <3>1, <3>3, ChannelReferred DEF ChannelStages
    <3>4. QED
      BY <3>1, <3>2, <3>3 DEF parsesMessages
  <2>5. QED
    BY <2>1, <2>2, <2>3, <2>4
<1>3. QED
  BY <1>1, <1>2

LEMMA LinkReferred ==
  ASSUME KInv, LinkChannel, MInv
  PROVE  KInv'
<1>1. CASE \E why : Refuse(why)
  BY <1>1, RefuseReferred
<1>2. CASE ~\E why : Refuse(why)
  <2> DEFINE slot == Side.channel[1]
  <2>1. /\ stage = "channel" /\ stage' \in {"messages", "channelTraits"}
        /\ UNCHANGED <<doc, side, work, api, channels, paramName>>
    BY <1>2 DEF LinkChannel, Unless, caches
  <2>2. CASE slot.ref \in DOMAIN channels
    <3>1. ch' = channels[slot.ref] /\ stage' = "messages"
      BY <2>2 DEF LinkChannel
    <3>2. Known' = Known \cup {ch'}
      BY <2>1, <3>1 DEF Known, ParsedChannels, workStages, ChannelStages
    <3>3. AsBefore(channels[slot.ref])
      BY <2>2 DEF AsBefore, cached
    <3>4. \A d \in Known' : AsBefore(d)
      BY <3>1, <3>2, <3>3 DEF AsBefore
    <3>5. \A r \in DOMAIN channels' : AsBefore(channels'[r])
      BY <2>1 DEF AsBefore, cached
    <3>6. Referred'
      BY <2>1, <3>2, <3>4, <3>5, ReferredStep DEF KInv
    <3>7. QED
      BY <2>1, <2>2, <3>1, <3>6 DEF KInv, Unlinked, Remaining, workStages, ChannelStages
  <2>3. CASE slot.ref \notin DOMAIN channels
    <3>1. /\ Problem(slot.ref) = empty /\ Target(slot).ref = empty
          /\ stage' = "channelTraits" /\ rest' = Target(slot).traits
          /\ ch' = [id |-> IF slot.ref = empty THEN work.name \o "." \o side ELSE slot.ref,
                    ref |-> slot.ref,
                    name |-> IF slot.ref = empty THEN inlineName ELSE Target(slot).key,
                    slot |-> Target(slot), fields |-> Target(slot).fields,
                    servers |-> ServersOf(Target(slot)), traitParams |-> {},
                    params |-> <<>>, messages |-> <<>>]
      <4>1. "address" # empty
        BY Zenon DEF empty
      <4>2. QED
        BY <1>2, <2>3, <4>1 DEF LinkChannel, Unless
    <3>2. slot.ref \in DOMAIN doc.at \cup {empty}
      BY <3>1, NoProblem
    <3>3. ChannelListed(Target(slot))
      BY <2>1, <3>1, <3>2, SideListed DEF MInv, PartListed, Target
    <3> HIDE DEF slot
    <3>4. {"slot", "params"} \subseteq DOMAIN ch' /\ ch'.params = <<>> /\ ch'.slot = Target(slot)
      BY <3>1
    <3>5. Known' = Known \cup {ch'}
      BY <2>1, <3>1 DEF Known, ParsedChannels, workStages, ChannelStages
    <3>6. PICK c : c = ch'
      OBVIOUS
    <3>7. KeysTrue(c)'
      <4>1. DOMAIN c.params = {}
        BY <3>4, <3>6
      <4>2. QED
        BY <4>1 DEF KeysTrue
    <3>8. \A d \in Known' : AsBefore(d) \/ KeysTrue(d)'
      BY <3>5, <3>6, <3>7 DEF AsBefore
    <3>9. \A r \in DOMAIN channels' : AsBefore(channels'[r])
      BY <2>1 DEF AsBefore, cached
    <3>10. Referred'
      BY <2>1, <3>5, <3>8, <3>9, ReferredStep DEF KInv
    <3>11. QED
      BY <2>1, <3>1, <3>3, <3>4, <3>10
         DEF KInv, Unlinked, Remaining, workStages, ChannelStages, ChannelListed
  <2>4. QED
    BY <2>2, <2>3
<1>3. QED
  BY <1>1, <1>2

\* A channel trait gives shared parameters the keys it has for them.
LEMMA TraitReferred ==
  ASSUME KInv, Lists, MergeChannelTrait
  PROVE  KInv'
<1>1. CASE \E why : Refuse(why)
  BY <1>1, RefuseReferred
<1>2. CASE ~\E why : Refuse(why)
  <2> DEFINE trait == Target(Head(rest))
  <2>1. /\ stage = "channelTraits" /\ rest # <<>> /\ rest' = Tail(rest)
        /\ UNCHANGED <<doc, stage, side, work, api, channels>>
        /\ \E names \in Renamed(trait.params) : paramName' = Overlay(names, paramName)
    BY <1>2 DEF MergeChannelTrait
  <2>2. {"slot", "params", "messages"} \subseteq DOMAIN ch
    BY <2>1 DEF KInv, Remaining, Lists, HasList, ChannelStages
  <2>3. DOMAIN ch' = DOMAIN ch /\ ch'.slot = ch.slot /\ ch'.params = ch.params
    BY <1>2, <2>2 DEF MergeChannelTrait
  <2>4. IsSeq(rest) /\ ToSet(rest) \subseteq ToSet(ch.slot.traits)
    BY <2>1 DEF KInv, Remaining
  <2>5. IsSeq(rest') /\ ToSet(rest') \subseteq ToSet(ch.slot.traits) /\ Head(rest) \in ToSet(ch.slot.traits)
    BY <2>1, <2>4, TailIsSeq
  <2>6. PICK names \in Renamed(trait.params) : paramName' = Overlay(names, paramName)
    BY <2>1
  <2>7. /\ DOMAIN paramName' = DOMAIN names \cup DOMAIN paramName
        /\ \A r \in DOMAIN names : paramName'[r] = names[r]
        /\ \A r \in DOMAIN paramName \ DOMAIN names : paramName'[r] = paramName[r]
    BY <2>6 DEF Overlay
  <2>8. \A r \in DOMAIN names : \E p \in ToSet(trait.params) : p.slot.ref = r /\ p.key = names[r]
    BY DEF Renamed
  <2>9. \A r \in DOMAIN names : names[r] \in KeysIn(ch, r)
    <3>1. TAKE r \in DOMAIN names
    <3>2. PICK p \in ToSet(trait.params) : p.slot.ref = r /\ p.key = names[r]
      BY <2>8
    <3>3. p \in UNION {ToSet(Target(t).params) : t \in ToSet(ch.slot.traits)}
      BY <2>5
    <3> HIDE DEF trait
    <3>4. QED
      BY <3>2, <3>3 DEF KeysIn
  <2>10. \A r \in DOMAIN paramName' :
           (r \in DOMAIN paramName /\ paramName'[r] = paramName[r]) \/ paramName'[r] \in KeysIn(ch, r)
    BY <2>7, <2>9
  <2>11. QED
    BY <2>1, <2>3, <2>5, <2>7, <2>10, ChannelReferred DEF ChannelStages
<1>3. QED
  BY <1>1, <1>2

\* A channel gives a shared parameter its own key.
LEMMA ParameterReferred ==
  ASSUME KInv, Lists, ParseParameter
  PROVE  KInv'
<1>1. CASE \E why : Refuse(why)
  BY <1>1, RefuseReferred
<1>2. CASE ~\E why : Refuse(why)
  <2> DEFINE p == Head(rest)
             ref == p.slot.ref
             param == [x \in {p.key} |-> ref]
             name == [r \in {ref} |-> p.key]
  <2>1. /\ stage = "parameters" /\ rest # <<>> /\ rest' = Tail(rest)
        /\ ch' = [ch EXCEPT !.params = Overlay(param, @)]
        /\ paramName' = IF ref = empty THEN paramName ELSE Overlay(name, paramName)
        /\ UNCHANGED <<doc, stage, side, work, api, channels>>
    BY <1>2 DEF ParseParameter, Unless
  <2>2. {"slot", "params", "messages"} \subseteq DOMAIN ch
    BY <2>1 DEF KInv, Remaining, Lists, HasList, ChannelStages
  <2>3. DOMAIN ch' = DOMAIN ch /\ ch'.slot = ch.slot /\ ch'.params = Overlay(param, ch.params)
    BY <2>1, <2>2
  <2>4. IsSeq(rest) /\ ToSet(rest) \subseteq ToSet(ch.slot.params)
    BY <2>1 DEF KInv, Remaining
  <2>5. IsSeq(rest') /\ ToSet(rest') \subseteq ToSet(ch.slot.params) /\ p \in ToSet(ch.slot.params)
    BY <2>1, <2>4, TailIsSeq
  <2>6. p.key \in KeysIn(ch, ref)
    BY <2>5 DEF KeysIn
  <2>7. /\ DOMAIN param = {p.key} /\ param[p.key] = ref
        /\ DOMAIN name = {ref} /\ name[ref] = p.key
    OBVIOUS
  <2> HIDE DEF param, name
  <2>8. /\ DOMAIN ch'.params = {p.key} \cup DOMAIN ch.params
        /\ ch'.params[p.key] = ref
        /\ \A key \in DOMAIN ch.params \ {p.key} : ch'.params[key] = ch.params[key]
    BY <2>3, <2>7 DEF Overlay
  <2>9. /\ DOMAIN paramName' = DOMAIN paramName \cup ({ref} \ {empty})
        /\ ref # empty => paramName'[ref] = p.key
        /\ \A r \in DOMAIN paramName \ {ref} : paramName'[r] = paramName[r]
        /\ ref = empty => paramName' = paramName
    <3>1. /\ DOMAIN Overlay(name, paramName) = {ref} \cup DOMAIN paramName
          /\ Overlay(name, paramName)[ref] = p.key
          /\ \A r \in DOMAIN paramName \ {ref} : Overlay(name, paramName)[r] = paramName[r]
      BY <2>7 DEF Overlay
    <3>2. QED
      BY <2>1, <3>1
  <2> HIDE DEF p, ref
  <2>10. KeysTrue(ch)'
    <3>1. PICK c : c = ch'
      OBVIOUS
    <3>2. \A r : KeysIn(c, r)' = KeysIn(ch, r)
      <4>1. \A r : KeysIn(c, r) = KeysIn(ch, r)
        BY <2>3, <3>1 DEF KeysIn
      <4>2. QED
        BY <2>1, <4>1, KeysStay
    <3>3. KeysTrue(ch)
      BY <2>1 DEF KInv, Referred, Known, ChannelStages
    <3>4. \A key \in DOMAIN c.params :
            c.params[key] # empty =>
              c.params[key] \in DOMAIN paramName' /\ key \in KeysIn(ch, c.params[key])
      BY <2>6, <2>8, <2>9, <3>1, <3>3 DEF KeysTrue
    <3>5. KeysTrue(c)'
      BY <3>2, <3>4 DEF KeysTrue
    <3>6. QED
      BY <3>1, <3>5
  <2>11. \A r \in DOMAIN paramName' :
           (r \in DOMAIN paramName /\ paramName'[r] = paramName[r]) \/ paramName'[r] \in KeysIn(ch, r)
    BY <2>6, <2>9
  <2>12. DOMAIN paramName \subseteq DOMAIN paramName'
    BY <2>9
  <2>13. QED
    BY <2>1, <2>3, <2>5, <2>10, <2>11, <2>12, ChannelReferred DEF ChannelStages
<1>3. QED
  BY <1>1, <1>2

LEMMA ListsReferred ==
  ASSUME KInv, MInv, TraitsMerged \/ ParametersParsed
  PROVE  KInv'
<1>1. stage = "channelTraits" => ChannelListed(ch.slot)
  BY DEF MInv, ChannelFilled
<1>2. QED
  BY <1>1, ChannelReferred DEF TraitsMerged, ParametersParsed, caches, ChannelStages, ChannelListed

LEMMA EndChannelReferred ==
  ASSUME KInv, EndChannel
  PROVE  KInv'
<1>1. CASE \E why : Refuse(why)
  BY <1>1, RefuseReferred
<1>2. CASE ~\E why : Refuse(why)
  <2>1. /\ stage = "channelMessages" /\ stage' = "messages"
        /\ channels' = IF ch.ref = empty THEN channels ELSE Overlay([r \in {ch.ref} |-> ch], channels)
        /\ UNCHANGED <<doc, side, work, ch, api, paramName>>
    BY <1>2 DEF EndChannel, Unless
  <2>2. \A r \in DOMAIN channels' :
          channels'[r] = ch \/ (r \in DOMAIN channels /\ channels'[r] = channels[r])
    <3>1. CASE ch.ref = empty
      BY <2>1, <3>1
    <3>2. CASE ch.ref # empty
      <4> DEFINE new == [r \in {ch.ref} |-> ch]
      <4>1. channels' = Overlay(new, channels) /\ DOMAIN new = {ch.ref} /\ new[ch.ref] = ch
        BY <2>1, <3>2
      <4> HIDE DEF new
      <4>2. QED
        BY <4>1 DEF Overlay
    <3>3. QED
      BY <3>1, <3>2
  <2>3. QED
    BY <2>1, <2>2, ChannelReferred DEF ChannelStages
<1>3. QED
  BY <1>1, <1>2

LEMMA ChooseReferred ==
  ASSUME KInv, MInv, ChooseMessages
  PROVE  KInv'
<1>1. CASE \E why : Refuse(why)
  BY <1>1, RefuseReferred
<1>2. CASE ~\E why : Refuse(why)
  <2> DEFINE inherited == IF Side.messages = <<>> THEN ch.messages ELSE <<>>
  <2>1. /\ stage = "messages" /\ stage' = "list"
        /\ work' = IF side = "operation"
                   THEN [work EXCEPT !.channel = ch, !.messages = inherited]
                   ELSE [work EXCEPT !.replyChannel = ch, !.replyMessages = inherited]
        /\ UNCHANGED <<doc, side, ch, api, channels, paramName>>
    BY <1>2 DEF ChooseMessages, Unless, caches
  <2> HIDE DEF inherited
  <2>2. {"name", "slot", "channel", "messages", "replyChannel", "replyMessages"} \subseteq DOMAIN work
    BY <2>1 DEF MInv, Prepared, ChannelStages
  <2>3. /\ side = "operation" => work'.channel = ch /\ work'.replyChannel = work.replyChannel
        /\ side # "operation" => work'.channel = work.channel /\ work'.replyChannel = ch
    <3>1. CASE side = "operation"
      BY <2>1, <2>2, <3>1
    <3>2. CASE side # "operation"
      BY <2>1, <2>2, <3>2
    <3>3. QED
      BY <3>1, <3>2
  <2>4. (IF side = "operation" THEN work.channel ELSE work.replyChannel) = NoChannel
    BY <2>1 DEF KInv, Unlinked, workStages, ChannelStages
  <2>5. ch # NoChannel
    BY <2>1, HasSlot DEF KInv, Remaining, ChannelStages
  <2>6. {work'.channel, work'.replyChannel} \ {NoChannel} =
          ({work.channel, work.replyChannel} \ {NoChannel}) \cup {ch}
    BY <2>3, <2>4, <2>5
  <2>7. Known' = Known
    BY <2>1, <2>6 DEF Known, ParsedChannels, workStages, ChannelStages
  <2>8. \A r \in DOMAIN channels' : AsBefore(channels'[r])
    BY <2>1 DEF AsBefore, cached
  <2>9. \A d \in Known : AsBefore(d)
    BY DEF AsBefore
  <2>10. Referred'
    BY <2>1, <2>7, <2>8, <2>9, ReferredStep DEF KInv
  <2>11. QED
    BY <2>1, <2>3, <2>10 DEF KInv, Unlinked, Remaining, workStages, ChannelStages
<1>3. QED
  BY <1>1, <1>2

LEMMA EndListReferred ==
  ASSUME KInv, MInv, Lists, EndList
  PROVE  KInv'
<1>1. CASE \E why : Refuse(why)
  BY <1>1, RefuseReferred
<1>2. CASE ~\E why : Refuse(why)
  <2> DEFINE replies == side = "operation" /\ work.slot.reply # <<>>
  <2>1. /\ stage = "list"
        /\ replies => /\ side' = "reply" /\ stage' = "channel" /\ api' = api
        /\ ~replies => api' = Append(api, work) /\ stage' = "begin"
        /\ UNCHANGED <<doc, work, ch, channels, paramName>>
    BY <1>2 DEF EndList, Unless, caches
  <2>2. ch \in {work.channel, work.replyChannel}
    BY <2>1 DEF MInv, SideFilled
  <2>3. ch # NoChannel
    BY <2>1, HasSlot DEF KInv, Remaining, ChannelStages
  <2>4. Known = ParsedChannels \cup ({work.channel, work.replyChannel} \ {NoChannel})
    BY <2>1, <2>2, <2>3 DEF Known, workStages, ChannelStages
  <2>5. Known' = Known
    <3>1. CASE replies
      BY <2>1, <2>4, <3>1 DEF Known, ParsedChannels, workStages, ChannelStages
    <3>2. CASE ~replies
      <4>1. ToSet(Append(api, work)) = ToSet(api) \cup {work}
        BY AppendIsSeq DEF Lists
      <4>2. ToSet(api') = ToSet(api) \cup {work}
        <5>1. api' = Append(api, work)
          BY <2>1, <3>2
        <5>2. QED
          BY <4>1, <5>1
      <4>3. ParsedChannels' = ParsedChannels \cup ({work.channel, work.replyChannel} \ {NoChannel})
        BY <4>2 DEF ParsedChannels
      <4>4. Known' = ParsedChannels'
        BY <2>1, <3>2 DEF Known, workStages, ChannelStages
      <4>5. QED
        BY <2>4, <4>3, <4>4
    <3>3. QED
      BY <3>1, <3>2
  <2>6. \A r \in DOMAIN channels' : AsBefore(channels'[r])
    BY <2>1 DEF AsBefore, cached
  <2>7. \A d \in Known : AsBefore(d)
    BY DEF AsBefore
  <2>8. Referred'
    BY <2>1, <2>5, <2>6, <2>7, ReferredStep DEF KInv
  <2>9. Unlinked' /\ Remaining'
    BY <2>1 DEF KInv, Unlinked, Remaining, workStages, ChannelStages
  <2>10. QED
    BY <2>8, <2>9 DEF KInv
<1>3. QED
  BY <1>1, <1>2

LEMMA NextReferred == Lists /\ MInv /\ KInv /\ [Next]_vars => KInv'
<1> SUFFICES ASSUME Lists, MInv, KInv, [Next]_vars PROVE KInv'
  OBVIOUS
<1>1. ASSUME \E why : Refuse(why) PROVE KInv'
  BY <1>1, RefuseReferred
<1>2. CASE UNCHANGED vars
  <2>1. UNCHANGED <<doc, stage, side, work, ch, rest, channels, paramName, api>>
    BY <1>2 DEF vars, caches
  <2>2. Known' = Known
    BY <2>1 DEF Known, ParsedChannels
  <2>3. \A d \in Known : AsBefore(d)
    BY DEF AsBefore
  <2>4. \A r \in DOMAIN channels' : AsBefore(channels'[r])
    BY <2>1 DEF AsBefore, cached
  <2>5. Referred'
    <3>1. CASE stage = "refused"
      BY <2>1, <3>1 DEF Referred
    <3>2. CASE stage # "refused"
      BY <2>1, <2>2, <2>3, <2>4, <3>2, ReferredStep DEF KInv
    <3>3. QED
      BY <3>1, <3>2
  <2>6. QED
    BY <2>1, <2>5 DEF KInv, Unlinked, Remaining
<1>3. CASE CheckVersion \/ Accept
  BY <1>1, <1>3, IdleReferred DEF CheckVersion, Accept, Unless, caches
<1>4. CASE ParseServers
  BY <1>1, <1>4, IdleReferred DEF ParseServers, caches
<1>5. QED
  BY <1>2, <1>3, <1>4, BeginReferred, LinkReferred, TraitReferred, ParameterReferred, ListsReferred,
     EndChannelReferred, MessagesReferred, ChooseReferred, EndListReferred
     DEF Next

(* A parsed parameter has the key it is referred to by, as long as all     *)
(* channels and traits refer to it by one key (parse_operation.go:277).    *)
THEOREM UnsharedKeysWin == Spec => []KeyWinsWhenUnshared
<1>1. Init => Lists /\ MInv /\ KInv
  BY InitLists, InitAsWritten, InitReferred
<1>2. Lists /\ MInv /\ KInv /\ [Next]_vars => (Lists /\ MInv /\ KInv)'
  BY NextLists, NextAsWritten, NextReferred
<1>3. KInv => KeyWinsWhenUnshared
  BY WinsFromKeys
<1>4. QED
  BY <1>1, <1>2, <1>3, PTL DEF Spec

-----------------------------------------------------------------------------
(* What is accepted is valid, and what is refused is refused for a cause.  *)

\* What has been parsed is valid ...
SoFarValid ==
  /\ stage # "version" => doc.version \in {"3.0", "3.1"}
  /\ stage \notin {"version", "servers"} =>
       \A n \in DOMAIN doc.servers : OneHop(doc.servers[n]) /\ Target(doc.servers[n]).host
  /\ \A n \in 1..(k - 1) : OperationValid(doc.ops[n].slot)
  /\ stage = "accepted" => k > Len(doc.ops)

\* ... and so is what is in the caches.
CachesValid ==
  /\ \A r \in DOMAIN channels :
       /\ r # empty /\ r \in DOMAIN doc.at /\ doc.at[r].ref = empty
       /\ channels[r].slot = doc.at[r] /\ ChannelObjectValid(doc.at[r])
  /\ \A p \in DOMAIN messages : ObjectValid(doc.at[p], TRUE)
  /\ DOMAIN paramName \subseteq DOMAIN doc.at

OperationBegun ==
  stage \in workStages =>
    /\ k \in DOMAIN doc.ops /\ OneHop(doc.ops[k].slot) /\ work.slot = Target(doc.ops[k].slot)
    /\ work.slot.action \in {"send", "receive"} /\ TraitsValid(work.slot.fields, work.slot.traits)
    /\ side = "reply" => SideValid(work.slot)

parsingChannel == stage \in {"channelTraits", "parameters", "channelMessages"}
ChannelBegun ==
  /\ stage \in ChannelStages => Direct(Side.channel[1]) /\ ch.slot = Target(Side.channel[1])
  /\ parsingChannel =>
       /\ {"ref", "fields", "traitParams", "params"} \subseteq DOMAIN ch
       /\ ch.ref = Side.channel[1].ref /\ ch.ref \notin DOMAIN channels
       /\ ch.slot.addressed

\* The traits of the channel that are merged.
merged == Len(ch.slot.traits) - Len(rest)
Keys(trait) == {p.key : p \in ToSet(trait.params)}
TraitsMergedValid ==
  stage = "channelTraits" =>
    /\ IsSeq(rest) /\ merged \in Nat /\ \A i \in 1..Len(rest) : rest[i] = ch.slot.traits[merged + i]
    /\ \A i \in 1..merged :
         TraitFits(ch.slot.fields, ch.slot.traits, i) /\ TraitParametersFit(ch.slot.traits, i)
    /\ ch.params = <<>> /\ ch.fields = Merged(ch.slot.fields, ch.slot.traits, merged)
    /\ ch.traitParams = UNION {Keys(Target(ch.slot.traits[i])) : i \in 1..merged}

ChannelValidSoFar ==
  /\ stage \in {"parameters", "channelMessages"} =>
       /\ TraitsValid(ch.slot.fields, ch.slot.traits) /\ TraitParametersValid(ch.slot.traits)
       /\ DOMAIN ch.params \subseteq Keys(ch.slot)
  /\ stage = "parameters" =>
       \A p \in ToSet(ch.slot.params) \ ToSet(rest) : OneHop(p.slot) /\ p.key \in DOMAIN ch.params
  /\ stage = "channelMessages" =>
       /\ ParametersValid(ch.slot) /\ Keys(ch.slot) \subseteq DOMAIN ch.params
       /\ \A m \in ToSet(ch.slot.messages) \ ToSet(rest) : MessageValid(m.slot)
  /\ stage \in {"messages", "list"} => ChannelObjectValid(ch.slot)

ListValidSoFar ==
  stage = "list" =>
    /\ Side.messages # <<>> \/ ch.slot.messages # <<>>
    /\ \A i \in DOMAIN Side.messages :
         Side.messages[i] \in {m.slot : m \in ToSet(rest)} \/ MessageValid(Side.messages[i])

\* Where servers of traits were met: their key stays in the context.
hereSide == [at |-> <<k, side>>, part |-> Side]
Passed(e) ==
  LET ref == e[1][1]
      at == e[1][2] IN
  \/ ref # empty /\ ref \in DOMAIN channels
  \/ ref = empty /\ at[1] \in 1..(k - 1)
  \/ ref = empty /\ stage \in workStages /\ side = "reply" /\ at = <<k, "operation">>
  \/ ref = empty /\ stage \in {"messages", "list"} /\ at = <<k, side>>
  \/ parsingChannel /\ e[1] = Place(hereSide) /\ (stage = "channelTraits" => e[2] \in 1..merged)

ContextKnown ==
  /\ ToSet(chain) \subseteq refs
  /\ refs \subseteq ToSet(chain) \cup {rootKey} \cup (IF parsingChannel THEN {ch.ref} ELSE {})
  /\ stage \in {"version", "servers"} => refs = {}
  /\ rootKey \in refs => \E e \in TraitServers : Passed(e)
  /\ chain # <<>> => chain[1] = begun
  /\ \A i \in 1..(Len(chain) - 1) : chain[i] \in References /\ chain[i + 1] = doc.at[chain[i]].ref

ParsedValid ==
  /\ SoFarValid /\ CachesValid /\ OperationBegun /\ ChannelBegun
  /\ TraitsMergedValid /\ ChannelValidSoFar /\ ListValidSoFar /\ ContextKnown
AInv == (stage # "refused" => ParsedValid) /\ RefusedForCause

-----------------------------------------------------------------------------
(* Traits.                                                                 *)

LEMMA HasMin ==
  ASSUME NEW T, T \subseteq Nat, T # {}
  PROVE  Min(T) \in T /\ \A y \in T : Min(T) <= y
<1> DEFINE R == {ss \in Nat \X Nat : ss[1] < ss[2]}
<1>1. IsWellFoundedOn(R, Nat)
  BY NatLessThanWellFounded DEF OpToRel
<1> HIDE DEF R
<1>2. PICK x \in T : \A y \in T : ~(<<y, x>> \in R)
  BY <1>1, WFMin
<1>3. \A y \in T : x <= y
  <2>1. TAKE y \in T
  <2>2. y \in Nat /\ x \in Nat /\ (y < x => <<y, x>> \in R)
    BY DEF R
  <2>3. QED
    BY <1>2, <2>2
<1>4. QED
  BY <1>3 DEF Min

LEMMA ProblemIs ==
  ASSUME NEW ref
  PROVE  \/ Problem(ref) = empty /\ (ref = empty \/ (ref \in DOMAIN doc.at /\ ref \notin refs))
         \/ Problem(ref) = "depth" /\ ref # empty /\ Cardinality(refs) >= DepthLimit
         \/ Problem(ref) = "recursion" /\ ref # empty /\ ref \in refs
         \/ Problem(ref) = "unresolved" /\ ref # empty /\ ref \notin DOMAIN doc.at
BY Zenon DEF Problem, ProblemWith

LEMMA Words ==
  /\ "depth" # empty /\ "recursion" # empty /\ "unresolved" # empty /\ "chained" # empty
  /\ "override" # empty /\ "address" # empty /\ "messages" # empty /\ "channel" # empty
  /\ "action" # empty /\ "version" # empty /\ "server" # empty
  /\ "schemaFormat" # empty /\ "contentType" # empty
BY Zenon DEF empty

LEMMA FreeTrait ==
  ASSUME NEW fields, NEW slot, TraitProblem(fields, slot) = empty
  PROVE  Direct(slot) /\ (Target(slot).fields \ ignored) \cap fields = {}
<1>1. Problem(slot.ref) = empty /\ ~Chained(slot) /\ (Target(slot).fields \ ignored) \cap fields = {}
  BY Words, Zenon DEF TraitProblem
<1>2. OneHop(slot)
  BY <1>1, Resolved DEF OneHop
<1>3. QED
  BY <1>1, <1>2 DEF Direct, Chained, Target, TargetIn

LEMMA MergedHas ==
  ASSUME NEW own, NEW traits, NEW n, NEW f
  PROVE  f \in Merged(own, traits, n) <=> f \in own \/ \E i \in 1..n : f \in Sets(traits[i])
BY DEF Merged

LEMMA FreeFits ==
  ASSUME NEW own, NEW traits, NEW i, \A j \in 1..(i - 1) : Direct(traits[j]),
         TraitProblem(Merged(own, traits, i - 1), traits[i]) = empty
  PROVE  TraitFits(own, traits, i)
<1>1. /\ Direct(traits[i])
      /\ \A f \in Target(traits[i]).fields \ ignored : f \notin Merged(own, traits, i - 1)
  BY FreeTrait
<1>2. ASSUME NEW f \in Target(traits[i]).fields \ ignored
      PROVE  /\ f \notin own
             /\ f \notin comparedOnly => \A j \in 1..(i - 1) : f \notin Target(traits[j]).fields
  BY <1>1, MergedHas DEF Sets
<1>3. QED
  BY <1>1, <1>2 DEF TraitFits

LEMMA MergesFit ==
  ASSUME NEW own, NEW traits, IsSeq(traits), MergeProblem(own, traits) = empty
  PROVE  TraitsValid(own, traits)
<1> DEFINE problem(i) == TraitProblem(Merged(own, traits, i - 1), traits[i])
           bad == {i \in DOMAIN traits : problem(i) # empty}
<1>1. Len(traits) \in Nat /\ DOMAIN traits = 1..Len(traits)
  BY SeqLen
<1>2. bad = {}
  <2>1. ASSUME bad # {} PROVE FALSE
    <3>1. bad \subseteq Nat
      BY <1>1
    <3>2. problem(Min(bad)) # empty
      BY <2>1, <3>1, HasMin
    <3>3. MergeProblem(own, traits) = problem(Min(bad))
      BY <2>1 DEF MergeProblem
    <3>4. QED
      BY <3>2, <3>3
  <2>2. QED
    BY <2>1
<1>3. \A i \in DOMAIN traits : problem(i) = empty
  BY <1>2
<1>4. \A i \in DOMAIN traits : Direct(traits[i])
  BY <1>3, FreeTrait
<1>5. \A i \in DOMAIN traits : \A j \in 1..(i - 1) : Direct(traits[j])
  BY <1>1, <1>4
<1> HIDE DEF bad
<1>6. QED
  BY <1>3, <1>5, FreeFits DEF TraitsValid

\* Why a trait does not fit, or that its reference cannot be followed.
LEMMA UnfitTrait ==
  ASSUME NEW own, NEW traits, NEW i,
         TraitProblem(Merged(own, traits, i - 1), traits[i]) # empty
  PROVE  \/ ~TraitFits(own, traits, i)
         \/ /\ TraitProblem(Merged(own, traits, i - 1), traits[i]) = Problem(traits[i].ref)
            /\ Problem(traits[i].ref) \in {"recursion", "depth"}
<1> DEFINE slot == traits[i]
           fields == Merged(own, traits, i - 1)
<1>1. CASE Problem(slot.ref) # empty
  <2>1. TraitProblem(fields, slot) = Problem(slot.ref)
    BY <1>1 DEF TraitProblem
  <2>2. Problem(slot.ref) = "unresolved" => ~OneHop(slot)
    BY ProblemIs, Words DEF OneHop
  <2>3. QED
    BY <1>1, <2>1, <2>2, ProblemIs DEF TraitFits, Direct
<1>2. CASE Problem(slot.ref) = empty /\ Chained(slot)
  BY <1>2 DEF TraitFits, Direct, Chained
<1>3. CASE Problem(slot.ref) = empty /\ ~Chained(slot)
  <2>1. PICK f \in Target(slot).fields \ ignored : f \in fields
    BY <1>3 DEF TraitProblem
  <2>2. CASE f \in own
    BY <2>2 DEF TraitFits
  <2>3. CASE f \notin own
    <3>1. PICK j \in 1..(i - 1) : f \in Sets(traits[j])
      BY <2>1, <2>3, MergedHas
    <3>2. f \in Target(traits[j]).fields /\ f \notin comparedOnly
      BY <3>1 DEF Sets
    <3>3. QED
      BY <3>2 DEF TraitFits
  <2>4. QED
    BY <2>2, <2>3
<1>4. QED
  BY <1>1, <1>2, <1>3

LEMMA UnfitTraits ==
  ASSUME NEW own, NEW traits, IsSeq(traits), MergeProblem(own, traits) # empty
  PROVE  \/ ~TraitsValid(own, traits)
         \/ \E i \in DOMAIN traits : /\ MergeProblem(own, traits) = Problem(traits[i].ref)
                                     /\ Problem(traits[i].ref) \in {"recursion", "depth"}
<1> DEFINE problem(i) == TraitProblem(Merged(own, traits, i - 1), traits[i])
           bad == {i \in DOMAIN traits : problem(i) # empty}
<1>1. bad # {} /\ MergeProblem(own, traits) = problem(Min(bad))
  BY DEF MergeProblem
<1>2. bad \subseteq Nat
  BY SeqLen
<1>3. PICK i \in DOMAIN traits : i = Min(bad) /\ problem(i) # empty
  BY <1>1, <1>2, HasMin
<1>4. MergeProblem(own, traits) = problem(i)
  BY <1>1, <1>3
<1> HIDE DEF bad
<1>5. QED
  BY <1>3, <1>4, UnfitTrait DEF TraitsValid

-----------------------------------------------------------------------------
(* Where the parser is in its document.                                    *)

LEMMA ListedDocument ==
  ASSUME Settled
  PROVE  /\ IsSeq(doc.ops) /\ \A p \in DOMAIN doc.at : MessageListed(doc.at[p])
         /\ \A n \in DOMAIN doc.ops :
              LET slot == doc.ops[n].slot IN
              OneHop(slot) /\ Target(slot).action \in {"send", "receive"} => OperationListed(doc, Target(slot))
<1>1. doc \in Documents
  BY DEF Settled
<1>2. /\ IsSeq(doc.ops) /\ \A p \in DOMAIN doc.at : MessageListed(doc.at[p])
      /\ \A o \in {x.slot : x \in ToSet(doc.ops)} :
           o.ref \in DOMAIN doc.at \cup {empty} /\ TargetIn(doc, o).action \in {"send", "receive"} =>
             OperationListed(doc, TargetIn(doc, o))
  BY <1>1, DocumentAssumption
<1>3. \A n \in DOMAIN doc.ops : doc.ops[n].slot \in {x.slot : x \in ToSet(doc.ops)}
  BY DEF ToSet
<1>4. QED
  BY <1>2, <1>3 DEF OneHop, Target

LEMMA SideKnown ==
  ASSUME Prepared, OperationBegun, stage \in workStages
  PROVE  /\ hereSide \in AllSides /\ hereSide.part = Side /\ hereSide.at = <<k, side>>
         /\ ~SideValid(Side) => ~Valid
<1>1. /\ k \in DOMAIN doc.ops /\ OneHop(doc.ops[k].slot) /\ work.slot = Target(doc.ops[k].slot)
      /\ side \in {"operation", "reply"} /\ OperationListed(doc, work.slot)
      /\ side = "reply" => work.slot.reply # <<>>
  BY DEF OperationBegun, Prepared, workStages
<1>2. CASE side = "operation"
  <2>1. Side = Target(doc.ops[k].slot)
    BY <1>1, <1>2 DEF Side
  <2>2. hereSide \in AllSides
    BY <1>1, <1>2, <2>1 DEF hereSide, AllSides
  <2>3. ~SideValid(Side) => ~Valid
    BY <1>1, <2>1 DEF Valid, OperationValid
  <2>4. QED
    BY <2>2, <2>3 DEF hereSide
<1>3. CASE side = "reply"
  <2>1. Side = work.slot.reply[1] /\ work.slot.reply # <<>> /\ IsSeq(work.slot.reply)
    BY <1>1, <1>3 DEF Side, OperationListed
  <2>2. Side \in ToSet(work.slot.reply)
    <3>1. 1 \in DOMAIN work.slot.reply
      BY <2>1, SeqLen, EmptySeq DEF IsSeq
    <3>2. QED
      BY <2>1, <3>1 DEF ToSet
  <2>3. hereSide \in AllSides
    <3> DEFINE replies(n) == {[at |-> <<n, "reply">>, part |-> r] : r \in ToSet(Target(doc.ops[n].slot).reply)}
    <3>1. hereSide \in replies(k)
      BY <1>1, <1>3, <2>2 DEF hereSide
    <3>2. k \in {n \in DOMAIN doc.ops : OneHop(doc.ops[n].slot)}
      BY <1>1
    <3> HIDE DEF replies
    <3>3. hereSide \in UNION {replies(n) : n \in {m \in DOMAIN doc.ops : OneHop(doc.ops[m].slot)}}
      BY <3>1, <3>2
    <3>4. QED
      BY <3>3 DEF AllSides, replies
  <2>4. ~SideValid(Side) => ~Valid
    BY <1>1, <2>1 DEF Valid, OperationValid
  <2>5. QED
    BY <2>3, <2>4 DEF hereSide
<1>4. QED
  BY <1>1, <1>2, <1>3

LEMMA ChannelKnown ==
  ASSUME Prepared, OperationBegun, ChannelBegun, stage \in ChannelStages
  PROVE  /\ hereSide \in ChannelSides /\ ChannelOf(hereSide) = ch.slot
         /\ ChannelListed(ch.slot) /\ ServersListed(doc, ch.slot)
         /\ ~ChannelObjectValid(ch.slot) => ~Valid
<1>1. Direct(Side.channel[1]) /\ ch.slot = Target(Side.channel[1])
  BY DEF ChannelBegun
<1>2. Side.channel # <<>> /\ PartListed(doc, Side)
  BY SideListed
<1>3. hereSide \in AllSides /\ hereSide.part = Side /\ (~SideValid(Side) => ~Valid)
  BY SideKnown DEF workStages
<1>4. ChannelListed(ch.slot) /\ ServersListed(doc, ch.slot)
  BY <1>1, <1>2 DEF PartListed, Direct, OneHop, Target
<1>5. hereSide \in ChannelSides /\ ChannelOf(hereSide) = ch.slot
  BY <1>1, <1>2, <1>3 DEF ChannelSides, ChannelOf
<1>6. ~ChannelObjectValid(ch.slot) => ~SideValid(Side)
  BY <1>1 DEF SideValid, ChannelValid
<1>7. QED
  BY <1>3, <1>4, <1>5, <1>6

\* The message to be parsed is one of the document.
LEMMA MessageKnown ==
  ASSUME MInv, OperationBegun, ChannelBegun, parsesMessages
  PROVE  /\ Head(rest).slot \in AllMessages /\ MessageListed(Head(rest).slot)
         /\ ~MessageValid(Head(rest).slot) => ~Valid
         /\ stage = "channelMessages" => Head(rest) \in ToSet(ch.slot.messages)
<1>1. stage \in {"channelMessages", "list"} /\ rest # <<>>
  BY DEF parsesMessages
<1>2. /\ hereSide \in ChannelSides /\ ChannelOf(hereSide) = ch.slot /\ ChannelListed(ch.slot)
      /\ ~ChannelObjectValid(ch.slot) => ~Valid
  BY <1>1, ChannelKnown DEF MInv, ChannelStages
<1>3. CASE stage = "channelMessages"
  <2>1. Head(rest) \in ToSet(ch.slot.messages)
    <3>1. Filled(ch.messages, rest, ch.slot.messages, ChannelMeaning(ch))
      BY <1>3 DEF MInv, ChannelFilled
    <3>2. QED
      BY <1>1, <3>1, FilledHead DEF ToSet
  <2>2. MessageListed(Head(rest).slot) /\ (~MessageValid(Head(rest).slot) => ~ChannelObjectValid(ch.slot))
    BY <1>2, <2>1 DEF ChannelListed, ChannelObjectValid
  <2>3. Head(rest).slot \in AllMessages
    <3>1. Head(rest) \in ToSet(ChannelOf(hereSide).messages)
      BY <1>2, <2>1
    <3>2. PICK s \in ChannelSides : Head(rest) \in ToSet(ChannelOf(s).messages)
      BY <1>2, <3>1
    <3>3. QED
      BY <3>2 DEF AllMessages
  <2>4. QED
    BY <1>2, <2>1, <2>2, <2>3
<1>4. CASE stage = "list"
  <2>1. /\ hereSide \in AllSides /\ hereSide.part = Side /\ (~SideValid(Side) => ~Valid)
        /\ PartListed(doc, Side)
    BY <1>4, SideKnown, SideListed DEF MInv, workStages, ChannelStages
  <2>2. PICK n \in DOMAIN Side.messages : Head(rest).slot = Side.messages[n]
    <3>1. Filled(got, rest, Listed, ListMeaning(Side.messages, place))
      BY <1>1, <1>4 DEF MInv, SideFilled
    <3>2. Len(got) + 1 \in DOMAIN Listed /\ Head(rest) = Listed[Len(got) + 1]
      BY <1>1, <3>1, FilledHead
    <3>3. QED
      BY <3>2 DEF Listed
  <2>3. Head(rest).slot \in ToSet(Side.messages)
    BY <2>2 DEF ToSet
  <2>4. MessageListed(Head(rest).slot) /\ Head(rest).slot \in AllMessages
    BY <2>1, <2>3 DEF PartListed, AllMessages
  <2>5. ~MessageValid(Head(rest).slot) => ~SideValid(Side)
    BY <2>2 DEF SideValid
  <2>6. QED
    BY <1>4, <2>1, <2>4, <2>5
<1>5. QED
  BY <1>1, <1>3, <1>4

-----------------------------------------------------------------------------
(* Why documents are refused.                                              *)

Cause(why) ==
  \/ ~Valid
  \/ why = "recursion" /\ (TwoTraitServers \/ EnclosesItself)
  \/ why = "depth" /\ TooDeep

LEMMA SmallContext ==
  ASSUME NEW a, refs \subseteq {rootKey, a}
  PROVE  /\ IsFiniteSet(refs) /\ Cardinality(refs) \in Nat /\ Cardinality(refs) <= 2
         /\ rootKey \notin refs => Cardinality(refs) <= 1
<1>1. IsFiniteSet({a}) /\ Cardinality({a}) = 1
  BY FS_Singleton
<1>2. IsFiniteSet({a} \cup {rootKey}) /\ Cardinality({a} \cup {rootKey}) <= 2
  BY <1>1, FS_AddElement
<1>3. refs \in SUBSET ({a} \cup {rootKey})
  OBVIOUS
<1>4. IsFiniteSet(refs) /\ Cardinality(refs) <= Cardinality({a} \cup {rootKey})
  BY <1>2, <1>3, FS_Subset
<1>5. Cardinality(refs) \in Nat /\ Cardinality({a} \cup {rootKey}) \in Nat
  BY <1>2, <1>4, FS_CardinalityType
<1>6. rootKey \notin refs => refs \in SUBSET {a}
  OBVIOUS
<1>7. rootKey \notin refs => Cardinality(refs) <= 1
  BY <1>1, <1>6, FS_Subset
<1>8. QED
  BY <1>2, <1>4, <1>5, <1>7

\* Outside messages only the channel and the servers of traits are open.
LEMMA SmallIsDeep ==
  ASSUME NEW a, refs \subseteq {rootKey, a}, Cardinality(refs) >= DepthLimit
  PROVE  TooDeep
BY SmallContext, DepthAssumption DEF TooDeep

LEMMA OpenReferences ==
  ASSUME ContextKnown, Linked, stage \notin {"channelMessages", "list"} \/ rest = <<>>, stage # "refused"
  PROVE  /\ chain = <<>> /\ refs \subseteq {rootKey, ch.ref}
         /\ ~parsingChannel => refs \subseteq {rootKey}
<1>1. chain = <<>>
  BY DEF Linked
<1>2. ToSet(chain) = {}
  BY <1>1, EmptyIsSeq
<1>3. QED
  BY <1>1, <1>2 DEF ContextKnown

LEMMA VersionCause ==
  ASSUME CheckVersion, stage' = "refused"
  PROVE  Cause(reason')
<1>1. doc.version \notin {"3.0", "3.1"}
  BY DEF CheckVersion, Unless
<1>2. QED
  BY <1>1 DEF Cause, Valid

LEMMA ServersCause ==
  ASSUME ParsedValid, ParseServers, stage' = "refused"
  PROVE  Cause(reason')
<1> DEFINE bad == {ServerProblem(doc.servers[n]) : n \in DOMAIN doc.servers} \ {empty}
<1>1. stage = "servers" /\ \E why \in bad : reason' = why
  BY DEF ParseServers, Refuse
<1>2. PICK n \in DOMAIN doc.servers : ServerProblem(doc.servers[n]) # empty /\ reason' = ServerProblem(doc.servers[n])
  BY <1>1
<1> DEFINE slot == doc.servers[n]
<1>3. refs = {} /\ ~(Cardinality(refs) >= DepthLimit)
  <2>1. refs = {}
    BY <1>1 DEF ParsedValid, ContextKnown
  <2>2. QED
    BY <2>1, FS_EmptySet, DepthAssumption
<1>4. ~OneHop(slot) \/ ~Target(slot).host
  <2>1. CASE Problem(slot.ref) # empty
    BY <1>3, <2>1, ProblemIs DEF OneHop
  <2>2. CASE Problem(slot.ref) = empty
    BY <1>2, <2>2 DEF ServerProblem
  <2>3. QED
    BY <2>1, <2>2
<1>5. QED
  BY <1>4 DEF Cause, Valid

\* A reference met where only a channel is open.
LEMMA ReferenceCause ==
  ASSUME NEW slot, Problem(slot.ref) # empty, NEW a, refs \subseteq {rootKey, a}
  PROVE  \/ ~OneHop(slot)
         \/ Problem(slot.ref) = "recursion" /\ slot.ref = a /\ a # empty
         \/ Cause(Problem(slot.ref))
<1>1. \/ Problem(slot.ref) = "depth" /\ Cardinality(refs) >= DepthLimit
      \/ Problem(slot.ref) = "recursion" /\ slot.ref \in refs /\ slot.ref # empty
      \/ slot.ref # empty /\ slot.ref \notin DOMAIN doc.at
  BY ProblemIs
<1>2. QED
  BY <1>1, SmallIsDeep DEF Cause, OneHop, rootKey

LEMMA OperationCause ==
  ASSUME MInv, ParsedValid, BeginOperation, stage' = "refused"
  PROVE  Cause(reason')
<1> DEFINE slot == doc.ops[k].slot
<1>1. /\ stage = "begin" /\ k <= Len(doc.ops)
      /\ OperationProblem(slot) # empty /\ reason' = OperationProblem(slot)
  BY DEF BeginOperation, Unless, Refuse
<1>2. k \in DOMAIN doc.ops
  BY <1>1, ListedDocument, SeqLen DEF MInv, Settled
<1>3. ~OperationValid(slot) => Cause(reason')
  BY <1>2 DEF Cause, Valid
<1>4. refs \subseteq {rootKey, empty}
  BY <1>1, OpenReferences DEF MInv, ParsedValid, parsingChannel
<1>5. CASE Problem(slot.ref) # empty
  <2>1. reason' = Problem(slot.ref)
    BY <1>1, <1>5 DEF OperationProblem
  <2>2. ~OneHop(slot) => ~OperationValid(slot)
    BY DEF OperationValid
  <2> HIDE DEF slot
  <2>3. QED
    BY <1>3, <1>4, <1>5, <2>1, <2>2, ReferenceCause
<1>6. CASE Problem(slot.ref) = empty /\ Target(slot).action \notin {"send", "receive"}
  BY <1>3, <1>6 DEF OperationValid
<1>7. CASE Problem(slot.ref) = empty /\ Target(slot).action \in {"send", "receive"}
  <2> DEFINE problem == MergeProblem(Target(slot).fields, Target(slot).traits)
  <2>1. OneHop(slot)
    BY <1>7, Resolved DEF OneHop
  <2>2. IsSeq(Target(slot).traits)
    BY <1>2, <1>7, <2>1, ListedDocument DEF MInv, OperationListed
  <2>3. CASE problem # empty
    <3>1. reason' = problem
      BY <1>1, <1>7, <2>3 DEF OperationProblem
    <3>2. ~TraitsValid(Target(slot).fields, Target(slot).traits) => ~OperationValid(slot)
      BY DEF OperationValid
    <3>3. CASE ~TraitsValid(Target(slot).fields, Target(slot).traits)
      BY <1>3, <3>2, <3>3
    <3>4. CASE \E i \in DOMAIN Target(slot).traits :
                 /\ problem = Problem(Target(slot).traits[i].ref)
                 /\ Problem(Target(slot).traits[i].ref) \in {"recursion", "depth"}
      <4>1. PICK i \in DOMAIN Target(slot).traits :
                 /\ problem = Problem(Target(slot).traits[i].ref)
                 /\ Problem(Target(slot).traits[i].ref) \in {"recursion", "depth"}
        BY <3>4
      <4>2. PICK t : t = Target(slot).traits[i]
        OBVIOUS
      <4>3. ~OneHop(t) => ~TraitsValid(Target(slot).fields, Target(slot).traits)
        BY <4>2 DEF TraitsValid, TraitFits, Direct
      <4> HIDE DEF slot, problem
      <4>4. QED
        BY <1>3, <1>4, <2>3, <3>1, <3>2, <4>1, <4>2, <4>3, ReferenceCause
    <3>5. QED
      BY <2>2, <2>3, <3>3, <3>4, UnfitTraits
  <2>4. CASE problem = empty
    <3>1. Target(slot).channel = <<>>
      BY <1>1, <1>7, <2>4 DEF OperationProblem
    <3>2. QED
      BY <1>3, <3>1 DEF OperationValid, SideValid
  <2>5. QED
    BY <2>3, <2>4
<1>8. QED
  BY <1>5, <1>6, <1>7

LEMMA LinkCause ==
  ASSUME MInv, ParsedValid, LinkChannel, stage' = "refused"
  PROVE  Cause(reason')
<1> DEFINE slot == Side.channel[1]
           problem == IF Problem(slot.ref) # empty THEN Problem(slot.ref)
                      ELSE IF Target(slot).ref # empty \/ ~Target(slot).addressed THEN "address" ELSE empty
<1>1. stage = "channel" /\ problem # empty /\ reason' = problem
  <2>1. CASE slot.ref \in DOMAIN channels
    BY <2>1 DEF LinkChannel
  <2>2. CASE slot.ref \notin DOMAIN channels
    BY <2>2 DEF LinkChannel, Unless, Refuse
  <2>3. QED
    BY <2>1, <2>2
<1>2. refs \subseteq {rootKey, empty}
  BY <1>1, OpenReferences DEF MInv, ParsedValid, parsingChannel
<1>3. ~ChannelValid(slot) => Cause(reason')
  <2>1. ~SideValid(Side) => ~Valid
    BY <1>1, SideKnown DEF MInv, ParsedValid, workStages
  <2>2. QED
    BY <2>1 DEF SideValid, Cause
<1> HIDE DEF slot
<1>4. CASE Problem(slot.ref) # empty
  <2>1. reason' = Problem(slot.ref)
    BY <1>1, <1>4
  <2>2. ~OneHop(slot) => ~ChannelValid(slot)
    BY DEF ChannelValid, Direct
  <2>3. QED
    BY <1>2, <1>3, <1>4, <2>1, <2>2, ReferenceCause
<1>5. CASE Problem(slot.ref) = empty
  <2>1. Target(slot).ref # empty \/ ~Target(slot).addressed
    BY <1>1, <1>5
  <2>2. QED
    BY <1>3, <2>1 DEF ChannelValid, Direct, ChannelObjectValid
<1>6. QED
  BY <1>4, <1>5

LEMMA ServerKnown ==
  ASSUME NEW s \in ChannelSides, NEW t \in DOMAIN ChannelOf(s).traits, Direct(ChannelOf(s).traits[t]),
         NEW n \in DOMAIN Target(ChannelOf(s).traits[t]).servers
  PROVE  <<Place(s), t, n>> \in TraitServers
<1> DEFINE named(x, y) == {<<Place(x), y, z>> : z \in DOMAIN Target(ChannelOf(x).traits[y]).servers}
           direct(x) == {y \in DOMAIN ChannelOf(x).traits : Direct(ChannelOf(x).traits[y])}
           all(x) == UNION {named(x, y) : y \in direct(x)}
<1>1. <<Place(s), t, n>> \in named(s, t) /\ t \in direct(s)
  OBVIOUS
<1> HIDE DEF named, direct
<1>2. <<Place(s), t, n>> \in all(s)
  BY <1>1
<1> HIDE DEF all
<1>3. <<Place(s), t, n>> \in UNION {all(x) : x \in ChannelSides}
  BY <1>2
<1>4. QED
  BY <1>3 DEF TraitServers, all, named, direct

\* The trait to be merged.
LEMMA NextTrait ==
  ASSUME MInv, ParsedValid, stage = "channelTraits", rest # <<>>
  PROVE  /\ merged + 1 \in DOMAIN ch.slot.traits /\ Head(rest) = ch.slot.traits[merged + 1]
         /\ merged \in Nat /\ merged + 1 - 1 = merged /\ IsSeq(ch.slot.traits)
         /\ Head(rest) \in ToSet(ch.slot.traits)
<1>1. /\ IsSeq(rest) /\ merged \in Nat
      /\ \A i \in 1..Len(rest) : rest[i] = ch.slot.traits[merged + i]
  BY DEF ParsedValid, TraitsMergedValid
<1>2. IsSeq(ch.slot.traits)
  BY ChannelKnown DEF MInv, ParsedValid, ChannelStages, ChannelListed
<1>3. /\ Len(rest) \in Nat /\ Len(ch.slot.traits) \in Nat
      /\ DOMAIN ch.slot.traits = 1..Len(ch.slot.traits)
  BY <1>1, <1>2, SeqLen
<1>4. Len(rest) # 0 /\ Head(rest) = rest[1]
  BY <1>1, EmptySeq, HeadTailProperties DEF IsSeq
<1>5. merged + 1 \in DOMAIN ch.slot.traits
  BY <1>1, <1>3, <1>4 DEF merged
<1>6. Head(rest) = ch.slot.traits[merged + 1]
  BY <1>1, <1>3, <1>4
<1>7. QED
  BY <1>1, <1>2, <1>5, <1>6 DEF ToSet

\* The servers of a trait are the second when the key of others is still there.
LEMMA SecondServer ==
  ASSUME MInv, ParsedValid, stage = "channelTraits", rest # <<>>, rootKey \in refs,
         Direct(Head(rest)), 1 \in DOMAIN Target(Head(rest)).servers
  PROVE  TwoTraitServers
<1> DEFINE new == <<Place(hereSide), merged + 1, 1>>
<1>1. /\ hereSide \in ChannelSides /\ ChannelOf(hereSide) = ch.slot
      /\ hereSide.part = Side /\ hereSide.at = <<k, side>>
  BY ChannelKnown DEF MInv, ParsedValid, ChannelStages, hereSide
<1>2. new \in TraitServers
  BY <1>1, NextTrait, ServerKnown
<1>3. PICK e \in TraitServers : Passed(e)
  BY DEF ParsedValid, ContextKnown
<1>4. /\ Side.channel[1].ref \notin DOMAIN channels /\ k \in Nat /\ merged \in Nat
  BY NextTrait DEF MInv, Settled, ParsedValid, ChannelBegun, parsingChannel
<1>5. /\ Place(hereSide)[1] = Side.channel[1].ref
      /\ Side.channel[1].ref = empty => Place(hereSide)[2] = <<k, side>>
  BY <1>1 DEF Place
<1>6. new[1] = Place(hereSide) /\ new[2] = merged + 1
  OBVIOUS
<1> HIDE DEF new
<1>7. e # new
  <2>1. SUFFICES ASSUME e = new PROVE FALSE
    OBVIOUS
  <2>2. e[1][1] = Side.channel[1].ref /\ (e[1][1] = empty => e[1][2][1] = k /\ e[1][2][2] = side)
    BY <1>5, <1>6, <2>1
  <2>3. e[2] = merged + 1
    BY <1>6, <2>1
  <2>4. \/ e[1][1] \in DOMAIN channels
        \/ e[1][1] = empty /\ e[1][2][1] \in 1..(k - 1)
        \/ e[1][1] = empty /\ side = "reply" /\ e[1][2] = <<k, "operation">>
        \/ e[2] \in 1..merged
    BY <1>3 DEF Passed
  <2>5. <<k, "operation">>[2] = "operation"
    OBVIOUS
  <2>6. QED
    BY <1>4, <2>2, <2>3, <2>4, <2>5
<1>8. QED
  BY <1>2, <1>3, <1>7 DEF TwoTraitServers

LEMMA ChannelCause ==
  ASSUME MInv, ParsedValid, stage \in ChannelStages
  PROVE  /\ ~ChannelObjectValid(ch.slot) => \A why : Cause(why)
         /\ parsingChannel /\ ch.ref # empty /\ Encloses(ch.ref, ch.slot) => Cause("recursion")
<1>1. hereSide \in ChannelSides /\ ChannelOf(hereSide) = ch.slot /\ hereSide.part = Side
  BY ChannelKnown DEF MInv, ParsedValid, hereSide
<1>2. ~ChannelObjectValid(ch.slot) => ~Valid
  BY ChannelKnown DEF MInv, ParsedValid
<1>3. parsingChannel => ch.ref = hereSide.part.channel[1].ref
  BY <1>1 DEF ParsedValid, ChannelBegun
<1>4. parsingChannel /\ ch.ref # empty /\ Encloses(ch.ref, ch.slot) => EnclosesItself
  BY <1>1, <1>3 DEF EnclosesItself
<1>5. QED
  BY <1>2, <1>4 DEF Cause

LEMMA ServersOfTraitCause ==
  ASSUME MInv, ParsedValid, stage = "channelTraits", rest # <<>>, Direct(Head(rest)),
         TraitServersProblem(Target(Head(rest))) # empty
  PROVE  Cause(TraitServersProblem(Target(Head(rest))))
<1> DEFINE trait == Target(Head(rest))
           problem == TraitServersProblem(trait)
<1>1. refs \subseteq {rootKey, ch.ref}
  BY OpenReferences DEF MInv, ParsedValid
<1>2. (trait.servers # <<>> /\ Len(trait.servers) # 1) \/ problem = "depth" \/ rootKey \in refs
  BY DEF TraitServersProblem
<1>3. IsSeq(trait.servers)
  <2>1. ServersListed(doc, ch.slot) /\ Head(rest) \in ToSet(ch.slot.traits)
    BY ChannelKnown, NextTrait DEF MInv, ParsedValid, ChannelStages
  <2>2. Head(rest).ref \in DOMAIN doc.at \cup {empty} /\ Target(Head(rest)).ref = empty
    BY DEF Direct, OneHop
  <2>3. QED
    BY <2>1, <2>2 DEF ServersListed, Target
<1>4. trait.servers # <<>> /\ Len(trait.servers) \in Nat \ {0} /\ DOMAIN trait.servers = 1..Len(trait.servers)
  <2>1. trait.servers # <<>>
    BY DEF TraitServersProblem
  <2> HIDE DEF trait
  <2>2. QED
    BY <1>3, <2>1, SeqLen, EmptySeq DEF IsSeq
<1>5. CASE Cardinality(refs) >= DepthLimit
  BY <1>1, <1>4, <1>5, SmallIsDeep DEF TraitServersProblem, Cause
<1>6. CASE rootKey \in refs /\ ~(Cardinality(refs) >= DepthLimit)
  <2>1. problem = "recursion"
    BY <1>4, <1>6 DEF TraitServersProblem
  <2>2. TwoTraitServers
    BY <1>4, <1>6, SecondServer
  <2>3. QED
    BY <2>1, <2>2 DEF Cause
<1>7. CASE rootKey \notin refs /\ ~(Cardinality(refs) >= DepthLimit)
  <2>1. Len(trait.servers) # 1
    BY <1>4, <1>7 DEF TraitServersProblem
  <2>2. problem = IF Cardinality(refs) + 1 >= DepthLimit THEN "depth" ELSE "recursion"
    BY <1>4, <1>7, <2>1 DEF TraitServersProblem
  <2>3. CASE Cardinality(refs) + 1 >= DepthLimit
    <3>1. DepthLimit <= 2
      <4>1. Cardinality(refs) \in Nat /\ Cardinality(refs) <= 1
        BY <1>1, <1>7, SmallContext
      <4>2. QED
        BY <2>3, <4>1, DepthAssumption
    <3>2. QED
      BY <2>2, <2>3, <3>1 DEF Cause, TooDeep
  <2>4. CASE ~(Cardinality(refs) + 1 >= DepthLimit)
    <3>1. 1 \in DOMAIN trait.servers /\ 2 \in DOMAIN trait.servers
      <4>1. PICK l : l = Len(trait.servers)
        OBVIOUS
      <4>2. l \in Nat /\ l # 0 /\ l # 1 /\ DOMAIN trait.servers = 1..l
        BY <1>4, <2>1, <4>1
      <4> HIDE DEF trait
      <4>3. QED
        BY <4>2
    <3>2. hereSide \in ChannelSides /\ ChannelOf(hereSide) = ch.slot
      BY ChannelKnown DEF MInv, ParsedValid, ChannelStages
    <3>3. \A n \in {1, 2} : <<Place(hereSide), merged + 1, n>> \in TraitServers
      BY <3>1, <3>2, NextTrait, ServerKnown
    <3>4. <<Place(hereSide), merged + 1, 1>> # <<Place(hereSide), merged + 1, 2>>
      OBVIOUS
    <3>5. TwoTraitServers
      BY <3>3, <3>4 DEF TwoTraitServers
    <3>6. QED
      BY <2>2, <2>4, <3>5 DEF Cause
  <2>5. QED
    BY <2>3, <2>4
<1>8. QED
  BY <1>5, <1>6, <1>7

\* A parameter or a trait that cannot be followed from the channel.
LEMMA FromChannelCause ==
  ASSUME MInv, ParsedValid, stage \in {"channelTraits", "parameters"},
         NEW slot, Problem(slot.ref) # empty,
         ~OneHop(slot) => ~ChannelObjectValid(ch.slot), slot.ref = ch.ref => Encloses(ch.ref, ch.slot)
  PROVE  Cause(Problem(slot.ref))
<1>1. refs \subseteq {rootKey, ch.ref}
  BY OpenReferences DEF MInv, ParsedValid
<1>2. ~ChannelObjectValid(ch.slot) => Cause(Problem(slot.ref))
  BY ChannelCause DEF ChannelStages
<1>3. ch.ref # empty /\ Encloses(ch.ref, ch.slot) => Cause("recursion")
  BY ChannelCause DEF ChannelStages, parsingChannel
<1>4. QED
  BY <1>1, <1>2, <1>3, ReferenceCause

LEMMA TraitCause ==
  ASSUME MInv, ParsedValid, MergeChannelTrait, stage' = "refused"
  PROVE  Cause(reason')
<1> DEFINE slot == Head(rest)
           problem == TraitProblem(ch.fields, slot)
           trait == Target(slot)
           problems ==
             IF problem # empty THEN {problem}
             ELSE IF TraitServersProblem(trait) # empty THEN {TraitServersProblem(trait)}
             ELSE {IF p.key \in ch.traitParams THEN "override" ELSE ParameterProblem(p.slot) :
                     p \in ToSet(trait.params)} \ {empty}
<1>1. stage = "channelTraits" /\ rest # <<>> /\ \E why \in problems : reason' = why
  BY DEF MergeChannelTrait, Refuse
<1> DEFINE traits == ch.slot.traits
           i == merged + 1
<1>2. i \in DOMAIN traits /\ slot = traits[i] /\ i - 1 = merged /\ slot \in ToSet(traits)
  BY <1>1, NextTrait
<1>3. /\ ch.fields = Merged(ch.slot.fields, traits, merged)
      /\ ch.traitParams = UNION {Keys(Target(traits[j])) : j \in 1..merged}
  BY <1>1 DEF ParsedValid, TraitsMergedValid
<1>4. ~ChannelObjectValid(ch.slot) => \A why : Cause(why)
  BY <1>1, ChannelCause DEF ChannelStages
<1>5. CASE problem # empty
  <2>1. reason' = problem
    BY <1>1, <1>5
  <2>2. problem = TraitProblem(Merged(ch.slot.fields, traits, i - 1), traits[i])
    BY <1>2, <1>3
  <2>3. CASE ~TraitFits(ch.slot.fields, traits, i)
    BY <1>2, <1>4, <2>3 DEF ChannelObjectValid, TraitsValid
  <2>4. CASE problem = Problem(slot.ref) /\ Problem(slot.ref) \in {"recursion", "depth"}
    <3>1. ~OneHop(slot) => ~ChannelObjectValid(ch.slot)
      BY <1>2 DEF ChannelObjectValid, TraitsValid, TraitFits, Direct
    <3>2. slot.ref = ch.ref => Encloses(ch.ref, ch.slot)
      BY <1>2 DEF Encloses
    <3>3. Problem(slot.ref) # empty
      BY <1>5, <2>4
    <3> HIDE DEF slot
    <3>4. Cause(Problem(slot.ref))
      BY <1>1, <3>1, <3>2, <3>3, FromChannelCause
    <3>5. QED
      BY <2>1, <2>4, <3>4
  <2>5. QED
    <3>1. \/ ~TraitFits(ch.slot.fields, traits, i)
          \/ problem = Problem(slot.ref) /\ Problem(slot.ref) \in {"recursion", "depth"}
      <4> HIDE DEF traits, i, slot
      <4>1. problem = TraitProblem(Merged(ch.slot.fields, traits, i - 1), traits[i]) /\ slot = traits[i]
        BY <1>2, <2>2
      <4>2. QED
        BY <1>5, <4>1, UnfitTrait
    <3>2. QED
      BY <2>3, <2>4, <3>1
<1>6. CASE problem = empty
  <2>1. Direct(slot)
    BY <1>6, FreeTrait
  <2>2. CASE TraitServersProblem(trait) # empty
    <3>1. reason' = TraitServersProblem(trait)
      BY <1>1, <1>6, <2>2
    <3>2. QED
      BY <1>1, <2>1, <2>2, <3>1, ServersOfTraitCause
  <2>3. CASE TraitServersProblem(trait) = empty
    <3>1. PICK p \in ToSet(trait.params) :
            /\ reason' = IF p.key \in ch.traitParams THEN "override" ELSE ParameterProblem(p.slot)
            /\ reason' # empty
      BY <1>1, <1>6, <2>3
    <3>2. CASE p.key \in ch.traitParams
      <4>1. PICK j \in 1..merged : p.key \in Keys(Target(traits[j]))
        BY <1>3, <3>2
      <4>2. j \in 1..(i - 1) /\ \E q \in ToSet(Target(traits[j]).params) : p.key = q.key
        BY <1>2, <4>1 DEF Keys
      <4>3. ~TraitParametersFit(traits, i)
        BY <1>2, <4>2 DEF TraitParametersFit
      <4>4. QED
        BY <1>2, <1>4, <4>3 DEF ChannelObjectValid, TraitParametersValid
    <3>3. CASE p.key \notin ch.traitParams
      <4>1. reason' = Problem(p.slot.ref) /\ Problem(p.slot.ref) # empty
        BY <3>1, <3>3 DEF ParameterProblem
      <4>2. ~OneHop(p.slot) => ~ChannelObjectValid(ch.slot)
        <5>1. ~OneHop(p.slot) => ~TraitParametersFit(traits, i)
          BY <1>2 DEF TraitParametersFit
        <5>2. QED
          BY <1>2, <5>1 DEF ChannelObjectValid, TraitParametersValid
      <4>3. p.slot.ref = ch.ref => Encloses(ch.ref, ch.slot)
        BY <1>2, <2>1 DEF Encloses
      <4>4. PICK s : s = p.slot
        OBVIOUS
      <4> HIDE DEF traits, i, slot, trait
      <4>5. QED
        BY <1>1, <4>1, <4>2, <4>3, <4>4, FromChannelCause
    <3>4. QED
      BY <3>2, <3>3
  <2>4. QED
    BY <2>2, <2>3
<1>7. QED
  BY <1>5, <1>6

LEMMA ParameterCause ==
  ASSUME MInv, KInv, ParsedValid, ParseParameter, stage' = "refused"
  PROVE  Cause(reason')
<1>1. /\ stage = "parameters" /\ rest # <<>>
      /\ ParameterProblem(Head(rest).slot) # empty /\ reason' = ParameterProblem(Head(rest).slot)
  BY DEF ParseParameter, Unless, Refuse
<1>2. PICK p : p = Head(rest)
  OBVIOUS
<1>3. p \in ToSet(ch.slot.params)
  BY <1>1, <1>2, TailIsSeq DEF KInv, Remaining
<1>4. ~OneHop(p.slot) => ~ChannelObjectValid(ch.slot)
  BY <1>3 DEF ChannelObjectValid, ParametersValid
<1>5. p.slot.ref = ch.ref => Encloses(ch.ref, ch.slot)
  BY <1>3 DEF Encloses
<1>6. reason' = Problem(p.slot.ref) /\ Problem(p.slot.ref) # empty
  BY <1>1, <1>2 DEF ParameterProblem
<1>7. PICK s : s = p.slot
  OBVIOUS
<1>8. QED
  BY <1>1, <1>4, <1>5, <1>6, <1>7, FromChannelCause

LEMMA AddressCause ==
  ASSUME MInv, ParsedValid, EndChannel, stage' = "refused"
  PROVE  Cause(reason')
<1>1. stage = "channelMessages" /\ ~(ToSet(ch.slot.tokens) \subseteq DOMAIN ch.params)
  BY DEF EndChannel, Unless
<1>2. Keys(ch.slot) \subseteq DOMAIN ch.params
  BY <1>1 DEF ParsedValid, ChannelValidSoFar
<1>3. ~AddressValid(ch.slot)
  BY <1>1, <1>2 DEF AddressValid, Keys
<1>4. QED
  BY <1>1, <1>3, ChannelCause DEF ChannelObjectValid, ChannelStages

LEMMA NothingMeant ==
  ASSUME IsSeq(ch.slot.messages), ChannelWritten(ch)
  PROVE  ch.messages = <<>> <=> ch.slot.messages = <<>>
<1>1. DOMAIN ch.messages = DOMAIN ch.slot.messages /\ ch.messages = [i \in DOMAIN ch.slot.messages |-> ch.messages[i]]
  BY DEF ChannelWritten, ChannelMeaning
<1>2. Len(ch.slot.messages) \in Nat /\ DOMAIN ch.slot.messages = 1..Len(ch.slot.messages)
  BY SeqLen
<1>3. ch.slot.messages = <<>> <=> Len(ch.slot.messages) = 0
  BY EmptySeq DEF IsSeq
<1>4. ch.slot.messages = <<>> <=> DOMAIN ch.slot.messages = {}
  <2>1. \A l \in Nat : l = 0 <=> 1..l = {}
    OBVIOUS
  <2>2. QED
    BY <1>2, <1>3, <2>1
<1>5. DOMAIN ch.messages = {} <=> ch.messages = <<>>
  <2>1. DOMAIN ch.messages = {} => ch.messages = <<>>
    <3>1. ASSUME DOMAIN ch.messages = {} PROVE ch.messages = <<>>
      <4>1. ch.messages = [i \in {} |-> ch.messages[i]]
        BY <1>1, <3>1
      <4>2. ch.messages \in Seq({})
        <5>1. ch.messages \in [1..0 -> {}]
          BY <4>1, <3>1, <1>1
        <5>2. QED
          BY <5>1
      <4>3. Len(ch.messages) = 0
        BY <3>1, <4>2, LenProperties
      <4>4. QED
        BY <4>2, <4>3, EmptySeq
    <3>2. QED
      BY <3>1
  <2>2. DOMAIN <<>> = {}
    OBVIOUS
  <2>3. QED
    BY <2>1, <2>2
<1>6. QED
  BY <1>1, <1>4, <1>5

LEMMA ChooseCause ==
  ASSUME MInv, ParsedValid, ChooseMessages, stage' = "refused"
  PROVE  Cause(reason')
<1>1. stage = "messages" /\ Side.messages = <<>> /\ ch.messages = <<>>
  BY DEF ChooseMessages, Unless
<1>2. ChannelWritten(ch) /\ ChannelListed(ch.slot) /\ ch.slot = Target(Side.channel[1])
  BY <1>1, ChannelKnown DEF MInv, ChannelFilled, ParsedValid, ChannelBegun, ChannelStages
<1>3. ch.slot.messages = <<>>
  BY <1>1, <1>2, NothingMeant DEF ChannelListed
<1>4. ~SideValid(Side)
  BY <1>1, <1>2, <1>3 DEF SideValid
<1>5. QED
  BY <1>1, <1>4, SideKnown DEF MInv, ParsedValid, workStages, ChannelStages, Cause

LEMMA ListCause ==
  ASSUME MInv, ParsedValid, EndList, stage' = "refused"
  PROVE  Cause(reason')
<1>1. stage = "list" /\ work.slot.reply # <<>> /\ work.slot.reply[1].channel = <<>>
  BY DEF EndList, Unless
<1>2. k \in DOMAIN doc.ops /\ work.slot = Target(doc.ops[k].slot)
  BY <1>1 DEF ParsedValid, OperationBegun, workStages, ChannelStages
<1>3. QED
  BY <1>1, <1>2 DEF Cause, Valid, OperationValid, SideValid

-----------------------------------------------------------------------------
(* Why messages are refused.                                               *)

LEMMA FitMessage ==
  ASSUME NEW slot, NEW named, IsSeq(slot.traits), MessageProblem(slot, named) = empty
  PROVE  ObjectValid(slot, named)
<1> DEFINE own == slot.fields \cup (IF named THEN {"name"} ELSE {})
<1>1. slot.schemaFormat /\ slot.json /\ MergeProblem(own, slot.traits) = empty
  BY Words DEF MessageProblem
<1> HIDE DEF own
<1>2. TraitsValid(own, slot.traits)
  BY <1>1, MergesFit
<1>3. QED
  BY <1>1, <1>2 DEF ObjectValid, own

LEMMA UnfitMessage ==
  ASSUME NEW slot, NEW named, IsSeq(slot.traits), MessageProblem(slot, named) # empty
  PROVE  \/ ~ObjectValid(slot, named)
         \/ \E t \in ToSet(slot.traits) :
              Direct(t) /\ MessageProblem(slot, named) = Problem(t.ref) /\ Problem(t.ref) \in {"recursion", "depth"}
<1> DEFINE own == slot.fields \cup (IF named THEN {"name"} ELSE {})
<1>1. CASE slot.schemaFormat /\ MergeProblem(own, slot.traits) # empty
  <2>1. MessageProblem(slot, named) = MergeProblem(own, slot.traits)
    BY <1>1 DEF MessageProblem
  <2>2. ~TraitsValid(own, slot.traits) => ~ObjectValid(slot, named)
    BY DEF ObjectValid
  <2> HIDE DEF own
  <2>3. CASE ~TraitsValid(own, slot.traits)
    BY <2>2, <2>3
  <2>4. CASE TraitsValid(own, slot.traits)
    <3>1. PICK i \in DOMAIN slot.traits :
            /\ MergeProblem(own, slot.traits) = Problem(slot.traits[i].ref)
            /\ Problem(slot.traits[i].ref) \in {"recursion", "depth"}
      BY <1>1, <2>4, UnfitTraits
    <3>2. slot.traits[i] \in ToSet(slot.traits) /\ Direct(slot.traits[i])
      BY <2>4 DEF ToSet, TraitsValid, TraitFits
    <3>3. QED
      BY <2>1, <3>1, <3>2
  <2>5. QED
    BY <2>3, <2>4
<1>2. CASE ~(slot.schemaFormat /\ MergeProblem(own, slot.traits) # empty)
  BY <1>2 DEF MessageProblem, ObjectValid
<1>3. QED
  BY <1>1, <1>2

LEMMA Unresolved ==
  ASSUME Linked, At # empty, At \notin DOMAIN doc.at \/ At \in ToSet(chain)
  PROVE  ~Resolves(begun)
<1> DEFINE S == ToSet(chain)
<1>1. S \in SUBSET References /\ begun \in S \cup {At} /\ \A p \in S : doc.at[p].ref \in S \cup {At}
  BY ChainReaches
<1>2. At \in S \/ At \notin DOMAIN doc.at
  OBVIOUS
<1> HIDE DEF S
<1>3. Met(begun, S) \subseteq S \cup {At}
  BY <1>1 DEF Met
<1>4. Met(begun, S) \cap References \subseteq S
  BY <1>2, <1>3 DEF References
<1>5. ASSUME NEW p, Leads(begun, p) PROVE FALSE
  <2>1. p \in Met(begun, S) /\ p \in DOMAIN doc.at \ References
    BY <1>1, <1>4, <1>5 DEF Leads, Reaches
  <2>2. QED
    BY <1>1, <1>2, <1>3, <2>1
<1>6. QED
  BY <1>5 DEF Resolves

\* A chain so long that its references leave no room for another.
LEMMA LongChain ==
  ASSUME ContextKnown, Linked, Cardinality(refs) >= DepthLimit, ~(DepthLimit <= 2)
  PROVE  /\ Len(chain) \in Nat /\ DepthLimit - 2 \in 1..Len(chain) /\ chain # <<>>
         /\ DOMAIN chain = 1..Len(chain)
<1>1. IsSeq(chain)
  BY DEF Linked
<1>2. Len(chain) \in Nat /\ DOMAIN chain = 1..Len(chain) /\ chain \in [1..Len(chain) -> ToSet(chain)]
  BY <1>1, SeqLen
<1>3. IsFiniteSet(ToSet(chain)) /\ Cardinality(ToSet(chain)) \in Nat /\ Cardinality(ToSet(chain)) <= Len(chain)
  <2>1. chain \in Surjection(1..Len(chain), ToSet(chain))
    BY <1>2 DEF Surjection, ToSet
  <2>2. IsFiniteSet(1..Len(chain)) /\ Cardinality(1..Len(chain)) = Len(chain)
    BY <1>2, FS_Interval
  <2>3. QED
    BY <2>1, <2>2, FS_Surjection, FS_CardinalityType
<1> DEFINE a == IF parsingChannel THEN ch.ref ELSE empty
           S == (ToSet(chain) \cup {rootKey}) \cup {a}
<1>4. refs \in SUBSET S
  BY DEF ContextKnown
<1> HIDE DEF a
<1>5. IsFiniteSet(S) /\ Cardinality(S) <= Len(chain) + 2
  <2>1. /\ IsFiniteSet(ToSet(chain) \cup {rootKey})
        /\ Cardinality(ToSet(chain) \cup {rootKey}) <= Cardinality(ToSet(chain)) + 1
    <3> DEFINE C == ToSet(chain)
    <3>1. IsFiniteSet(C) /\ Cardinality(C) \in Nat
      BY <1>3
    <3> HIDE DEF C
    <3>2. /\ IsFiniteSet(C \cup {rootKey})
          /\ Cardinality(C \cup {rootKey}) = IF rootKey \in C THEN Cardinality(C) ELSE Cardinality(C) + 1
      BY <3>1, FS_AddElement
    <3>3. QED
      BY <3>1, <3>2 DEF C
  <2>2. Cardinality(ToSet(chain) \cup {rootKey}) \in Nat
    BY <2>1, FS_CardinalityType
  <2>3. IsFiniteSet(S) /\ Cardinality(S) <= Cardinality(ToSet(chain) \cup {rootKey}) + 1
    BY <2>1, <2>2, FS_AddElement
  <2>4. Cardinality(S) \in Nat
    BY <2>3, FS_CardinalityType
  <2>5. QED
    BY <1>2, <1>3, <2>1, <2>2, <2>3, <2>4
<1>6. Cardinality(refs) <= Cardinality(S) /\ Cardinality(refs) \in Nat /\ Cardinality(S) \in Nat
  BY <1>4, <1>5, FS_Subset, FS_CardinalityType
<1> HIDE DEF S
<1>7. Len(chain) >= DepthLimit - 2
  BY <1>2, <1>5, <1>6, DepthAssumption
<1>8. DepthLimit - 2 \in 1..Len(chain)
  BY <1>2, <1>7, DepthAssumption
<1>9. chain # <<>>
  BY <1>8, <1>2, EmptySeq
<1>10. QED
  BY <1>2, <1>8, <1>9

LEMMA DeepChain ==
  ASSUME MInv, ParsedValid, parsesMessages, Cardinality(refs) >= DepthLimit,
         \/ At # empty
         \/ \E t \in ToSet(doc.at[Last(chain)].traits) : t.ref # empty
  PROVE  TooDeep
<1> SUFFICES ASSUME ~(DepthLimit <= 2) PROVE TooDeep
  BY DEF TooDeep
<1> DEFINE n == DepthLimit - 2
           walk == [i \in 1..n |-> chain[i]]
<1>1. Len(chain) \in Nat /\ n \in 1..Len(chain) /\ chain # <<>> /\ DOMAIN chain = 1..Len(chain)
  BY LongChain DEF MInv, ParsedValid
<1>2. /\ ToSet(chain) \subseteq DOMAIN doc.at /\ begun # empty
      /\ chain[1] = begun
      /\ \A i \in 1..(Len(chain) - 1) : chain[i] \in References /\ chain[i + 1] = doc.at[chain[i]].ref
  BY <1>1 DEF MInv, Linked, ParsedValid, ContextKnown
<1>3. begun \in MessageRefs
  BY MessageKnown DEF MInv, ParsedValid, MessageRefs, begun
<1>4. \A i \in 1..Len(chain) : chain[i] \in DOMAIN doc.at
  BY <1>1, <1>2 DEF ToSet
<1>5. /\ walk \in [1..n -> DOMAIN doc.at] /\ \A i \in 1..n : walk[i] = chain[i]
      /\ 1 \in 1..n /\ n \in 1..n /\ n - 1 = DepthLimit - 3
  BY <1>1, <1>4, DepthAssumption
<1> HIDE DEF walk
<1>6. \A i \in 1..(DepthLimit - 3) : walk[i] \in References /\ walk[i + 1] = doc.at[walk[i]].ref
  <2>1. TAKE i \in 1..(DepthLimit - 3)
  <2>2. i \in 1..(Len(chain) - 1) /\ i \in 1..n /\ i + 1 \in 1..n
    BY <1>1, DepthAssumption
  <2>3. QED
    BY <1>2, <1>5, <2>2
<1>7. walk[n] \in References \/ \E t \in ToSet(doc.at[walk[n]].traits) : t.ref # empty
  <2>1. CASE n = Len(chain)
    <3>1. walk[n] = Last(chain)
      BY <1>5, <2>1 DEF Last
    <3>2. At # empty => walk[n] \in References
      <4>1. At # empty => doc.at[Last(chain)].ref # empty
        BY <1>1 DEF At
      <4>2. QED
        BY <1>1, <1>4, <1>5, <3>1, <4>1 DEF References
    <3>3. QED
      BY <3>1, <3>2
  <2>2. CASE n # Len(chain)
    <3>1. n \in 1..(Len(chain) - 1)
      BY <1>1, <2>2
    <3>2. QED
      BY <1>2, <1>5, <3>1
  <2>3. QED
    BY <2>1, <2>2
<1>8. walk[1] \in MessageRefs
  BY <1>2, <1>3, <1>5
<1>9. QED
  BY <1>5, <1>6, <1>7, <1>8 DEF TooDeep

\* A trait of the message in work that refers to the channel it is in.
LEMMA OwnChannelCause ==
  ASSUME MInv, ParsedValid, parsesMessages, parsingChannel, ch.ref # empty,
         \/ Reaches(begun, ch.ref)
         \/ \E t \in ToSet(MessageObject(Head(rest).slot).traits) : t.ref = ch.ref
  PROVE  Cause("recursion")
<1>1. stage = "channelMessages"
  BY DEF parsesMessages, parsingChannel
<1>2. Head(rest) \in ToSet(ch.slot.messages)
  BY <1>1, MessageKnown DEF MInv, ParsedValid
<1>3. PICK m \in ToSet(ch.slot.messages) : m = Head(rest)
  BY <1>2
<1>4. \/ Reaches(m.slot.ref, ch.ref)
      \/ \E t \in ToSet(MessageObject(m.slot).traits) : t.ref = ch.ref
  BY <1>3 DEF begun
<1>5. Encloses(ch.ref, ch.slot)
  BY <1>3, <1>4 DEF Encloses
<1>6. QED
  BY <1>1, <1>5, ChannelCause DEF ChannelStages

LEMMA MessageCause ==
  ASSUME MInv, ParsedValid, parsesMessages, ~MessageValid(Head(rest).slot), NEW why
  PROVE  Cause(why)
BY MessageKnown DEF MInv, ParsedValid, Cause

LEMMA InlineCause ==
  ASSUME MInv, ParsedValid, ParseInline, stage' = "refused"
  PROVE  Cause(reason')
<1> DEFINE slot == Head(rest).slot
           problem == MessageProblem(slot, slot.name # empty)
           a == IF parsingChannel THEN ch.ref ELSE empty
<1>1. /\ parsesMessages /\ chain = <<>> /\ slot.ref = empty
      /\ problem # empty /\ reason' = problem
  BY DEF ParseInline, Unless, Refuse, parsesMessages
<1>2. IsSeq(slot.traits)
  BY <1>1, MessageKnown DEF MInv, ParsedValid, MessageListed
<1>3. MessageObject(slot) = slot
  BY <1>1 DEF MessageObject
<1>4. CASE ~ObjectValid(slot, slot.name # empty)
  BY <1>1, <1>4, MessageCause DEF MessageValid
<1>5. CASE \E t \in ToSet(slot.traits) :
             Direct(t) /\ problem = Problem(t.ref) /\ Problem(t.ref) \in {"recursion", "depth"}
  <2>1. PICK t \in ToSet(slot.traits) :
             Direct(t) /\ problem = Problem(t.ref) /\ Problem(t.ref) \in {"recursion", "depth"}
    BY <1>5
  <2>2. refs \subseteq {rootKey, a}
    <3>1. ToSet(chain) = {}
      BY <1>1, EmptyIsSeq
    <3>2. QED
      BY <3>1 DEF ParsedValid, ContextKnown, rootKey
  <2>3. ~(~OneHop(t)) /\ Problem(t.ref) # empty
    BY <1>1, <2>1 DEF Direct
  <2>4. CASE Problem(t.ref) = "recursion" /\ t.ref = a /\ a # empty
    <3>1. parsingChannel /\ ch.ref # empty /\ t.ref = ch.ref
      BY <2>4
    <3>2. \E u \in ToSet(MessageObject(Head(rest).slot).traits) : u.ref = ch.ref
      BY <1>3, <3>1
    <3>3. Cause("recursion")
      BY <1>1, <3>1, <3>2, OwnChannelCause
    <3>4. QED
      BY <1>1, <2>1, <2>4, <3>3
  <2>5. CASE Cause(Problem(t.ref))
    BY <1>1, <2>1, <2>5
  <2> HIDE DEF a
  <2>6. QED
    BY <2>2, <2>3, <2>4, <2>5, ReferenceCause
<1> HIDE DEF slot
<1>6. QED
  BY <1>1, <1>2, <1>4, <1>5, UnfitMessage

LEMMA FollowCause ==
  ASSUME MInv, ParsedValid, FollowReference, stage' = "refused"
  PROVE  Cause(reason')
<1>1. parsesMessages /\ At # empty /\ Problem(At) # empty /\ reason' = Problem(At)
  BY DEF FollowReference, Unless, Refuse, parsesMessages
<1>2. Reaches(begun, At) /\ begun # empty
  BY <1>1, ChainReaches DEF MInv
<1>3. ~Resolves(begun) => \A why : Cause(why)
  BY <1>1, <1>2, MessageCause DEF MessageValid, begun
<1>4. CASE At \notin DOMAIN doc.at \/ At \in ToSet(chain)
  BY <1>1, <1>3, <1>4, Unresolved DEF MInv
<1>5. CASE Problem(At) = "depth" /\ Cardinality(refs) >= DepthLimit
  BY <1>1, <1>5, DeepChain DEF Cause
<1>6. CASE Problem(At) = "recursion" /\ At \in refs /\ At \notin ToSet(chain)
  <2>1. parsingChannel /\ ch.ref = At
    BY <1>1, <1>6 DEF ParsedValid, ContextKnown, rootKey
  <2>2. Cause("recursion")
    BY <1>1, <1>2, <2>1, OwnChannelCause
  <2>3. QED
    BY <1>1, <1>6, <2>2
<1>7. QED
  BY <1>1, <1>4, <1>5, <1>6, ProblemIs

LEMMA TargetCause ==
  ASSUME MInv, ParsedValid, ParseTarget, stage' = "refused"
  PROVE  Cause(reason')
<1> DEFINE ptr == Last(chain)
           slot == doc.at[ptr]
           problem == MessageProblem(slot, TRUE)
<1>1. /\ parsesMessages /\ chain # <<>> /\ At = empty
      /\ problem # empty /\ reason' = problem
  BY DEF ParseTarget, Unless, Refuse, parsesMessages
<1>2. begun # empty /\ EndOf(begun) = ptr /\ ptr \in DOMAIN doc.at \ References
  BY <1>1, ChainEnds DEF MInv
<1>3. IsSeq(slot.traits)
  BY <1>1, <1>2, ListedDocument DEF MInv, MessageListed, References
<1>4. MessageObject(Head(rest).slot) = slot
  BY <1>2 DEF MessageObject, begun
<1>5. CASE ~ObjectValid(slot, TRUE)
  BY <1>1, <1>2, <1>5, MessageCause DEF MessageValid, begun
<1>6. CASE \E t \in ToSet(slot.traits) :
             Direct(t) /\ problem = Problem(t.ref) /\ Problem(t.ref) \in {"recursion", "depth"}
  <2>1. PICK t \in ToSet(slot.traits) :
             Direct(t) /\ problem = Problem(t.ref) /\ Problem(t.ref) \in {"recursion", "depth"}
    BY <1>6
  <2>2. \/ Problem(t.ref) = "depth" /\ t.ref # empty /\ Cardinality(refs) >= DepthLimit
        \/ Problem(t.ref) = "recursion" /\ t.ref # empty /\ t.ref \in refs
    <3>1. t.ref # empty => t.ref \in DOMAIN doc.at
      BY <2>1 DEF Direct, OneHop
    <3>2. QED
      BY <1>1, <2>1, <3>1, ProblemIs, Words
  <2>3. CASE Problem(t.ref) = "depth" /\ t.ref # empty /\ Cardinality(refs) >= DepthLimit
    <3>1. TooDeep
      BY <1>1, <2>1, <2>3, DeepChain
    <3>2. QED
      BY <1>1, <2>1, <2>3, <3>1 DEF Cause
  <2>4. CASE Problem(t.ref) = "recursion" /\ t.ref # empty /\ t.ref \in refs
    <3>1. t.ref \notin References
      BY <2>1, <2>4 DEF Direct, Target, TargetIn, References
    <3>2. CASE t.ref \in ToSet(chain)
      <4>1. t.ref = ptr
        BY <1>1, <3>1, <3>2 DEF MInv, Linked
      <4>2. begun \in MessageRefs \ {empty}
        BY <1>1, <1>2, MessageKnown DEF MInv, ParsedValid, MessageRefs, begun
      <4>3. EnclosesItself
        BY <1>2, <2>1, <4>1, <4>2 DEF EnclosesItself
      <4>4. QED
        BY <1>1, <2>1, <2>4, <4>3 DEF Cause
    <3>3. CASE t.ref \notin ToSet(chain)
      <4>1. parsingChannel /\ ch.ref = t.ref
        BY <2>4, <3>3 DEF ParsedValid, ContextKnown, rootKey
      <4>2. \E u \in ToSet(MessageObject(Head(rest).slot).traits) : u.ref = ch.ref
        BY <1>4, <2>1, <4>1
      <4>3. Cause("recursion")
        BY <1>1, <2>4, <4>1, <4>2, OwnChannelCause
      <4>4. QED
        BY <1>1, <2>1, <2>4, <4>3
    <3>4. QED
      BY <3>2, <3>3
  <2>5. QED
    BY <2>2, <2>3, <2>4
<1> HIDE DEF slot
<1>7. QED
  BY <1>1, <1>3, <1>5, <1>6, UnfitMessage

LEMMA DocStays == [Next]_vars => UNCHANGED doc
<1>1. \A why : Refuse(why) => UNCHANGED doc
  BY DEF Refuse
<1>2. UNCHANGED vars => UNCHANGED doc
  BY DEF vars
<1>3. CheckVersion \/ ParseServers \/ BeginOperation \/ Accept => UNCHANGED doc
  BY <1>1 DEF CheckVersion, ParseServers, BeginOperation, Accept, Unless
<1>4. LinkChannel \/ MergeChannelTrait \/ TraitsMerged \/ ParseParameter \/ ParametersParsed \/ EndChannel
        => UNCHANGED doc
  BY <1>1 DEF LinkChannel, MergeChannelTrait, TraitsMerged, ParseParameter, ParametersParsed, EndChannel, Unless
<1>5. ParseInline \/ UseCached \/ FollowReference \/ ParseTarget \/ ChooseMessages \/ EndList => UNCHANGED doc
  BY <1>1 DEF ParseInline, UseCached, FollowReference, ParseTarget, ChooseMessages, EndList, Unless
<1>6. QED
  BY <1>2, <1>3, <1>4, <1>5 DEF Next

LEMMA NextCause ==
  ASSUME MInv, KInv, ParsedValid, Next, stage # "refused", stage' = "refused"
  PROVE  Cause(reason')
<1>1. ~Accept /\ ~TraitsMerged /\ ~ParametersParsed /\ ~UseCached
  BY DEF Accept, TraitsMerged, ParametersParsed, UseCached
<1>2. QED
  BY <1>1, VersionCause, ServersCause, OperationCause, LinkCause, TraitCause, ParameterCause,
     AddressCause, InlineCause, FollowCause, TargetCause, ChooseCause, ListCause DEF Next

-----------------------------------------------------------------------------
(* What is said of a document is said of it in every state.                *)

LEMMA FitsStay ==
  ASSUME UNCHANGED doc
  PROVE  /\ \A slot : OneHop(slot)' = OneHop(slot) /\ Direct(slot)' = Direct(slot)
         /\ \A own, traits, i : TraitFits(own, traits, i)' = TraitFits(own, traits, i)
         /\ \A own, traits : TraitsValid(own, traits)' = TraitsValid(own, traits)
         /\ \A m, named : ObjectValid(m, named)' = ObjectValid(m, named)
         /\ \A slot : MessageValid(slot)' = MessageValid(slot)
<1>1. /\ \A slot : OneHop(slot)' = OneHop(slot) /\ Target(slot)' = Target(slot)
      /\ \A slot : Direct(slot)' = Direct(slot)
  BY SlotsStay DEF OneHop, Direct
<1>2. \A own, traits, i : TraitFits(own, traits, i)' = TraitFits(own, traits, i)
  BY <1>1 DEF TraitFits
<1>3. \A own, traits : TraitsValid(own, traits)' = TraitsValid(own, traits)
  BY <1>2 DEF TraitsValid
<1>4. \A m, named : ObjectValid(m, named)' = ObjectValid(m, named)
  BY <1>3 DEF ObjectValid
<1>5. \A ref : Resolves(ref)' = Resolves(ref) /\ EndOf(ref)' = EndOf(ref)
  <2>1. \A ref, p : Leads(ref, p)' = Leads(ref, p)
    BY SlotsStay DEF Leads, Reaches, Met
  <2>2. QED
    BY <2>1, EndStays DEF Resolves
<1>6. \A slot : MessageValid(slot)' = MessageValid(slot)
  BY <1>4, <1>5 DEF MessageValid
<1>7. QED
  BY <1>1, <1>2, <1>3, <1>4, <1>6

LEMMA ValidStays ==
  ASSUME UNCHANGED doc
  PROVE  /\ \A c : ChannelObjectValid(c)' = ChannelObjectValid(c)
         /\ \A traits, i : TraitParametersFit(traits, i)' = TraitParametersFit(traits, i)
         /\ \A part : SideValid(part)' = SideValid(part)
         /\ \A slot : OperationValid(slot)' = OperationValid(slot)
         /\ Valid' = Valid
<1> USE FitsStay, SlotsStay
<1>1. \A traits, i : TraitParametersFit(traits, i)' = TraitParametersFit(traits, i)
  BY DEF TraitParametersFit
<1>2. \A traits : TraitParametersValid(traits)' = TraitParametersValid(traits)
  BY <1>1 DEF TraitParametersValid
<1>3. \A c : ParametersValid(c)' = ParametersValid(c) /\ AddressValid(c)' = AddressValid(c)
  BY DEF ParametersValid, AddressValid
<1>4. \A c : ChannelObjectValid(c)' = ChannelObjectValid(c)
  BY <1>2, <1>3 DEF ChannelObjectValid
<1>5. \A slot : ChannelValid(slot)' = ChannelValid(slot)
  <2>1. TAKE slot
  <2>2. PICK c : c = Target(slot)
    OBVIOUS
  <2>3. Target(slot)' = c /\ Direct(slot)' = Direct(slot) /\ ChannelObjectValid(c)' = ChannelObjectValid(c)
    BY <1>4, <2>2
  <2>4. ChannelObjectValid(Target(slot))' = ChannelObjectValid(c)
    BY <2>3
  <2>5. QED
    BY <2>2, <2>3, <2>4 DEF ChannelValid
<1>6. \A part : SideValid(part)' = SideValid(part)
  BY <1>5 DEF SideValid
<1>7. \A slot : OperationValid(slot)' = OperationValid(slot)
  BY <1>6 DEF OperationValid
<1>8. Valid' = Valid
  BY <1>7 DEF Valid
<1>9. QED
  BY <1>1, <1>4, <1>6, <1>7, <1>8

LEMMA SidesStay ==
  ASSUME UNCHANGED doc
  PROVE  /\ AllSides' = AllSides /\ ChannelSides' = ChannelSides
         /\ \A s : ChannelOf(s)' = ChannelOf(s)
         /\ \A s : Place(s)' = Place(s)
         /\ TraitServers' = TraitServers /\ AllMessages' = AllMessages /\ MessageRefs' = MessageRefs
<1> USE FitsStay, SlotsStay
<1>1. AllSides' = AllSides
  <2> DEFINE found == {n \in DOMAIN doc.ops : OneHop(doc.ops[n].slot)}
             own == {[at |-> <<n, "operation">>, part |-> Target(doc.ops[n].slot)] : n \in found}
             replies(n) == {[at |-> <<n, "reply">>, part |-> r] : r \in ToSet(Target(doc.ops[n].slot).reply)}
  <2>1. found' = found
    OBVIOUS
  <2>2. own' = own
    BY <2>1
  <2>3. \A n : replies(n)' = replies(n)
    OBVIOUS
  <2>4. AllSides = own \cup UNION {replies(n) : n \in found}
    BY DEF AllSides
  <2>5. AllSides' = own' \cup UNION {replies(n)' : n \in found'}
    BY DEF AllSides
  <2> HIDE DEF found, own, replies
  <2>6. QED
    BY <2>1, <2>2, <2>3, <2>4, <2>5
<1>2. ChannelSides' = ChannelSides
  BY <1>1 DEF ChannelSides
<1>3. \A s : ChannelOf(s)' = ChannelOf(s)
  BY DEF ChannelOf
<1>4. \A s : Place(s)' = Place(s)
  BY DEF Place
<1>5. TraitServers' = TraitServers
  <2> DEFINE named(x, y) == {<<Place(x), y, z>> : z \in DOMAIN Target(ChannelOf(x).traits[y]).servers}
             direct(x) == {y \in DOMAIN ChannelOf(x).traits : Direct(ChannelOf(x).traits[y])}
             all(x) == UNION {named(x, y) : y \in direct(x)}
  <2>1. \A x, y : named(x, y)' = named(x, y)
    BY <1>3, <1>4
  <2>2. \A x : direct(x)' = direct(x)
    BY <1>3
  <2>3. \A x : all(x)' = all(x)
    <3> HIDE DEF named, direct
    <3>1. QED
      BY <2>1, <2>2
  <2>4. TraitServers = UNION {all(s) : s \in ChannelSides}
    BY DEF TraitServers
  <2>5. TraitServers' = UNION {all(s)' : s \in ChannelSides'}
    BY DEF TraitServers
  <2> HIDE DEF named, direct, all
  <2>6. QED
    BY <1>2, <2>3, <2>4, <2>5
<1>6. AllMessages' = AllMessages
  <2> DEFINE own == UNION {ToSet(s.part.messages) : s \in AllSides}
             all == UNION {ToSet(ChannelOf(s).messages) : s \in ChannelSides}
  <2>1. own' = own /\ all' = all
    BY <1>1, <1>2, <1>3
  <2>2. AllMessages = own \cup {m.slot : m \in all}
    BY DEF AllMessages
  <2>3. AllMessages' = own' \cup {m.slot : m \in all'}
    BY DEF AllMessages
  <2> HIDE DEF own, all
  <2>4. QED
    BY <2>1, <2>2, <2>3
<1>7. MessageRefs' = MessageRefs
  BY <1>6 DEF MessageRefs
<1>8. QED
  BY <1>1, <1>2, <1>3, <1>4, <1>5, <1>6, <1>7

LEMMA CauseStays ==
  ASSUME UNCHANGED doc
  PROVE  \A why : Cause(why)' = Cause(why)
<1> USE SidesStay, FitsStay, SlotsStay
<1>1. TwoTraitServers' = TwoTraitServers
  BY DEF TwoTraitServers
<1>2. \A ref, p : Reaches(ref, p)' = Reaches(ref, p)
  BY DEF Reaches, Met
<1>3. \A slot : MessageObject(slot)' = MessageObject(slot)
  BY EndStays DEF MessageObject
<1>4. \A ref, c : Encloses(ref, c)' = Encloses(ref, c)
  <2>1. TAKE ref, c
  <2> DEFINE byTrait(t) == Direct(t) /\ \E p \in ToSet(Target(t).params) : p.slot.ref = ref
             byMessage(m) == Reaches(m.slot.ref, ref) \/ \E t \in ToSet(MessageObject(m.slot).traits) : t.ref = ref
  <2>2. \A t : byTrait(t)' = byTrait(t)
    OBVIOUS
  <2>3. \A m : byMessage(m)' = byMessage(m)
    BY <1>2, <1>3
  <2>4. Encloses(ref, c) = (\/ \E p \in ToSet(c.params) : p.slot.ref = ref
                            \/ \E t \in ToSet(c.traits) : t.ref = ref \/ byTrait(t)
                            \/ \E m \in ToSet(c.messages) : byMessage(m))
    BY DEF Encloses
  <2>5. Encloses(ref, c)' = (\/ \E p \in ToSet(c.params) : p.slot.ref = ref
                             \/ \E t \in ToSet(c.traits) : t.ref = ref \/ byTrait(t)'
                             \/ \E m \in ToSet(c.messages) : byMessage(m)')
    BY DEF Encloses
  <2> HIDE DEF byTrait, byMessage
  <2>6. QED
    BY <2>2, <2>3, <2>4, <2>5
<1>5. \A s : Encloses(s.part.channel[1].ref, ChannelOf(s))' = Encloses(s.part.channel[1].ref, ChannelOf(s))
  <2>1. TAKE s
  <2>2. PICK c : c = ChannelOf(s)
    OBVIOUS
  <2>3. QED
    BY <1>4, <2>2
<1>6. EnclosesItself' = EnclosesItself
  BY <1>5, EndStays DEF EnclosesItself
<1>7. TooDeep' = TooDeep
  BY DEF TooDeep
<1>8. QED
  BY <1>1, <1>6, <1>7, ValidStays DEF Cause

-----------------------------------------------------------------------------
(* Every step that is not a refusal keeps the invariant.                   *)

LEMMA SoFarStays ==
  ASSUME SoFarValid, UNCHANGED <<doc, k>>, stage \notin {"version", "servers"},
         stage' \notin {"version", "servers"}, stage' = "accepted" => k > Len(doc.ops)
  PROVE  SoFarValid'
BY FitsStay, SlotsStay, ValidStays DEF SoFarValid

LEMMA CachesStay ==
  ASSUME CachesValid, UNCHANGED <<doc, channels, messages>>, DOMAIN paramName' \subseteq DOMAIN doc.at
  PROVE  CachesValid'
BY FitsStay, ValidStays DEF CachesValid

LEMMA BegunStays ==
  ASSUME OperationBegun, UNCHANGED <<doc, k, side>>, stage \in workStages, work'.slot = work.slot
  PROVE  OperationBegun' /\ Side' = Side
<1>1. Side' = Side
  BY DEF Side
<1>2. PICK slot : slot = work.slot
  OBVIOUS
<1>3. OperationBegun'
  BY <1>2, FitsStay, SlotsStay, ValidStays DEF OperationBegun
<1>4. QED
  BY <1>1, <1>3

LEMMA ChannelStays ==
  ASSUME ChannelBegun, UNCHANGED doc, Side' = Side, stage \in ChannelStages,
         ch'.slot = ch.slot,
         parsingChannel' => /\ parsingChannel /\ ch'.ref = ch.ref /\ DOMAIN channels' = DOMAIN channels
                            /\ DOMAIN ch' = DOMAIN ch
  PROVE  ChannelBegun'
<1>1. PICK slot : slot = Side.channel[1]
  OBVIOUS
<1>2. Direct(slot)' = Direct(slot) /\ Target(slot)' = Target(slot)
  BY FitsStay, SlotsStay
<1>3. Direct(slot) /\ ch.slot = Target(slot)
  BY <1>1 DEF ChannelBegun
<1>4. Side'.channel[1] = slot
  BY <1>1
<1>5. Direct(Side.channel[1])' /\ ch'.slot = Target(Side.channel[1])'
  BY <1>2, <1>3, <1>4
<1>6. QED
  BY <1>1, <1>4, <1>5 DEF ChannelBegun

LEMMA PassedStays ==
  ASSUME UNCHANGED <<k, side>>, Side' = Side, DOMAIN channels \subseteq DOMAIN channels',
         stage \in workStages => stage' \in workStages,
         stage \in {"messages", "list"} => stage' \in {"messages", "list"},
         parsingChannel =>
           parsingChannel' /\ (stage' = "channelTraits" =>
                                 stage = "channelTraits" /\ 1..merged \subseteq 1..(merged'))
  PROVE  \A e : Passed(e) => Passed(e)'
<1>1. \A s : Place(s)' = Place(s)
  BY DEF Place
<1>2. hereSide' = hereSide
  BY DEF hereSide
<1>3. \A e : parsingChannel /\ e[1] = Place(hereSide) /\ (stage = "channelTraits" => e[2] \in 1..merged)
          => (parsingChannel /\ e[1] = Place(hereSide) /\ (stage = "channelTraits" => e[2] \in 1..merged))'
  BY <1>1, <1>2
<1>4. QED
  BY <1>3 DEF Passed

\* The key of trait servers stays for those that put it there.
LEMMA KeyStays ==
  ASSUME UNCHANGED doc, ContextKnown, rootKey \in refs' => rootKey \in refs,
         \A e : Passed(e) => Passed(e)'
  PROVE  rootKey \in refs' => \E e \in TraitServers' : Passed(e)'
BY SidesStay DEF ContextKnown

LEMMA ContextStays ==
  ASSUME UNCHANGED <<doc, chain>>, chain = <<>>, ContextKnown, refs' \subseteq refs,
         parsingChannel => (parsingChannel' /\ ch'.ref = ch.ref) \/ ch.ref \notin refs' \/ ch.ref = empty,
         stage' \notin {"version", "servers"}, \A e : Passed(e) => Passed(e)'
  PROVE  ContextKnown'
<1>1. ToSet(chain) = {}
  BY EmptyIsSeq
<1>2. rootKey \in refs' => \E e \in TraitServers' : Passed(e)'
  BY KeyStays
<1>3. refs' \subseteq {rootKey} \cup (IF parsingChannel THEN {ch.ref} ELSE {})'
  BY <1>1 DEF ContextKnown, rootKey
<1>4. Len(chain) = 0
  BY EmptySeq
<1>5. QED
  BY <1>1, <1>2, <1>3, <1>4 DEF ContextKnown

LEMMA InitIsValid == Init => AInv
<1> SUFFICES ASSUME Init PROVE AInv
  OBVIOUS
<1>1. stage = "version" /\ k = 1 /\ refs = {} /\ chain = <<>> /\ channels = <<>> /\ messages = <<>> /\ paramName = <<>>
  BY DEF Init
<1>2. DOMAIN <<>> = {} /\ 1 - 1 = 0 /\ 1..0 = {} /\ ToSet(<<>>) = {} /\ Len(<<>>) = 0
  BY EmptyIsSeq, EmptySeq
<1>3. SoFarValid /\ CachesValid
  BY <1>1, <1>2 DEF SoFarValid, CachesValid
<1>4. OperationBegun /\ ChannelBegun /\ TraitsMergedValid /\ ChannelValidSoFar /\ ListValidSoFar
  BY <1>1 DEF OperationBegun, ChannelBegun, TraitsMergedValid, ChannelValidSoFar, ListValidSoFar,
     workStages, ChannelStages, parsingChannel
<1>5. ContextKnown
  BY <1>1, <1>2 DEF ContextKnown
<1>6. QED
  BY <1>1, <1>3, <1>4, <1>5 DEF AInv, ParsedValid, RefusedForCause

\* Between the operations nothing is in work.
LEMMA IdleStaysValid ==
  ASSUME MInv, ParsedValid, CheckVersion \/ ParseServers \/ Accept, stage' # "refused"
  PROVE  ParsedValid'
<1>1. /\ stage \in {"version", "servers", "begin"} /\ stage' \in {"servers", "begin", "accepted"}
      /\ stage' = "servers" => doc.version \in {"3.0", "3.1"}
      /\ stage' = "accepted" => k > Len(doc.ops) /\ stage = "begin"
      /\ stage' = "begin" => stage = "servers" /\ ParseServers
      /\ stage' = "servers" => stage = "version"
      /\ UNCHANGED <<doc, k, side, work, ch, rest, chain, refs, channels, messages, paramName>>
  <2>1. CASE CheckVersion
    BY <2>1, Words DEF CheckVersion, Unless, Refuse, caches
  <2>2. CASE ParseServers
    BY <2>2 DEF ParseServers, Refuse, caches
  <2>3. CASE Accept
    BY <2>3 DEF Accept, caches
  <2>4. QED
    BY <2>1, <2>2, <2>3
<1>2. chain = <<>>
  BY <1>1 DEF MInv, Linked
<1>3. CASE stage' = "servers"
  <2>1. stage = "version"
    BY <1>1, <1>3
  <2>2. SoFarValid'
    BY <1>1, <1>3, <2>1, FitsStay, SlotsStay, ValidStays DEF ParsedValid, SoFarValid
  <2>3. refs' = {} /\ ToSet(chain) = {} /\ Len(chain) = 0
    BY <1>1, <1>2, <2>1, EmptyIsSeq, EmptySeq DEF ParsedValid, ContextKnown
  <2>4. ContextKnown'
    BY <1>1, <1>2, <2>3 DEF ContextKnown
  <2>5. QED
    BY <1>1, <1>3, <2>2, <2>4, CachesStay
       DEF ParsedValid, OperationBegun, ChannelBegun, TraitsMergedValid, ChannelValidSoFar, ListValidSoFar,
           workStages, ChannelStages, parsingChannel, CachesValid
<1>4. CASE stage' \in {"begin", "accepted"}
  <2>1. SoFarValid'
    <3>1. CASE stage' = "begin"
      <4>1. ParseServers
        BY <1>1, <3>1
      <4>2. \A n \in DOMAIN doc.servers : ServerProblem(doc.servers[n]) = empty
        BY <3>1, <4>1 DEF ParseServers, Refuse
      <4>3. \A n \in DOMAIN doc.servers : OneHop(doc.servers[n]) /\ Target(doc.servers[n]).host
        <5>1. TAKE n \in DOMAIN doc.servers
        <5>2. PICK slot : slot = doc.servers[n]
          OBVIOUS
        <5>3. ServerProblem(slot) = empty
          BY <4>2, <5>2
        <5>4. Problem(slot.ref) = empty /\ Target(slot).host
          BY <5>3, Words DEF ServerProblem
        <5>5. QED
          BY <5>2, <5>4, Resolved DEF OneHop
      <4>4. QED
        BY <1>1, <3>1, <4>3, FitsStay, SlotsStay, ValidStays DEF ParsedValid, SoFarValid
    <3>2. CASE stage' = "accepted"
      BY <1>1, <3>2, SoFarStays DEF ParsedValid
    <3>3. QED
      BY <1>4, <3>1, <3>2
  <2>2. \A e : Passed(e) => Passed(e)'
    BY <1>1 DEF Passed, workStages, ChannelStages, parsingChannel
  <2>3. ContextKnown'
    BY <1>1, <1>2, <1>4, <2>2, ContextStays DEF ParsedValid, parsingChannel
  <2>4. QED
    BY <1>1, <1>4, <2>1, <2>3, CachesStay
       DEF ParsedValid, OperationBegun, ChannelBegun, TraitsMergedValid, ChannelValidSoFar, ListValidSoFar,
           workStages, ChannelStages, parsingChannel, CachesValid
<1>5. QED
  BY <1>1, <1>3, <1>4

LEMMA BeginStaysValid ==
  ASSUME MInv, ParsedValid, BeginOperation, stage' # "refused"
  PROVE  ParsedValid'
<1> DEFINE slot == doc.ops[k].slot
<1>1. /\ stage = "begin" /\ k <= Len(doc.ops) /\ OperationProblem(slot) = empty
      /\ stage' = "channel" /\ side' = "operation" /\ work'.slot = Target(slot)
      /\ UNCHANGED <<doc, k, ch, rest, chain, refs, channels, messages, paramName>>
  BY DEF BeginOperation, Unless, Refuse, caches
<1>2. chain = <<>>
  BY <1>1 DEF MInv, Linked
<1>3. k \in DOMAIN doc.ops
  BY <1>1, ListedDocument, SeqLen DEF MInv, Settled
<1>4. OneHop(slot) /\ Target(slot).action \in {"send", "receive"}
  BY <1>1, OperationFound DEF OneHop
<1>5. TraitsValid(Target(slot).fields, Target(slot).traits)
  <2>1. IsSeq(Target(slot).traits)
    BY <1>3, <1>4, ListedDocument DEF MInv, OperationListed
  <2>2. MergeProblem(Target(slot).fields, Target(slot).traits) = empty
    <3> HIDE DEF slot
    <3>1. PICK problem : problem = MergeProblem(Target(slot).fields, Target(slot).traits)
      OBVIOUS
    <3>2. OperationProblem(slot) = empty => problem = empty
      BY <3>1, Words, Zenon DEF OperationProblem
    <3>3. QED
      BY <1>1, <3>1, <3>2
  <2>3. QED
    BY <2>1, <2>2, MergesFit
<1>6. OperationBegun'
  <2>1. PICK t, s : t = Target(slot) /\ s = slot
    OBVIOUS
  <2>2. /\ TraitsValid(t.fields, t.traits)' = TraitsValid(t.fields, t.traits)
        /\ OneHop(s)' = OneHop(s) /\ Target(s)' = Target(s)
    BY <1>1, FitsStay, SlotsStay
  <2>3. work'.slot = t /\ t = Target(s) /\ doc'.ops[k'].slot = s
    BY <1>1, <2>1
  <2> HIDE DEF slot
  <2>4. TraitsValid(work.slot.fields, work.slot.traits)'
    BY <1>5, <2>1, <2>2, <2>3
  <2>5. (OneHop(doc.ops[k].slot) /\ work.slot = Target(doc.ops[k].slot))'
    BY <1>4, <2>1, <2>2, <2>3
  <2>6. QED
    BY <1>1, <1>3, <1>4, <2>1, <2>3, <2>4, <2>5 DEF OperationBegun
<1>7. \A e : Passed(e) => Passed(e)'
  BY <1>1 DEF Passed, workStages, ChannelStages, parsingChannel
<1>8. ContextKnown'
  BY <1>1, <1>2, <1>7, ContextStays DEF ParsedValid, parsingChannel
<1>9. SoFarValid'
  BY <1>1, SoFarStays DEF ParsedValid
<1>10. QED
  BY <1>1, <1>6, <1>8, <1>9, CachesStay
     DEF ParsedValid, ChannelBegun, TraitsMergedValid, ChannelValidSoFar, ListValidSoFar,
         ChannelStages, parsingChannel, CachesValid

LEMMA LinkStaysValid ==
  ASSUME MInv, ParsedValid, LinkChannel, stage' # "refused"
  PROVE  ParsedValid'
<1> DEFINE slot == Side.channel[1]
<1>1. /\ stage = "channel" /\ stage' \in {"messages", "channelTraits"}
      /\ UNCHANGED <<doc, k, side, work, chain, channels, messages, paramName>>
  BY DEF LinkChannel, Unless, Refuse, caches
<1>2. chain = <<>> /\ refs \subseteq {rootKey}
  BY <1>1, OpenReferences DEF MInv, ParsedValid, parsingChannel
<1>3. OperationBegun' /\ Side' = Side
  BY <1>1, BegunStays DEF ParsedValid, workStages
<1>4. \A e : Passed(e) => Passed(e)'
  BY <1>1, <1>3, PassedStays DEF parsingChannel, workStages, ChannelStages
<1>5. SoFarValid' /\ CachesValid'
  BY <1>1, SoFarStays, CachesStay DEF ParsedValid, CachesValid
<1>6. CASE slot.ref \in DOMAIN channels
  <2>1. ch' = channels[slot.ref] /\ stage' = "messages" /\ refs' = refs
    BY <1>6 DEF LinkChannel, caches
  <2>2. /\ slot.ref # empty /\ slot.ref \in DOMAIN doc.at /\ doc.at[slot.ref].ref = empty
        /\ ch'.slot = doc.at[slot.ref] /\ ChannelObjectValid(doc.at[slot.ref])
    BY <1>6, <2>1 DEF ParsedValid, CachesValid
  <2> HIDE DEF slot
  <2>3. Direct(slot) /\ ch'.slot = Target(slot) /\ ChannelObjectValid(Target(slot))
    BY <2>2 DEF Direct, OneHop, Target, TargetIn
  <2>4. PICK s, c : s = slot /\ c = Target(slot)
    OBVIOUS
  <2>5. Direct(s)' = Direct(s) /\ Target(s)' = Target(s) /\ ChannelObjectValid(c)' = ChannelObjectValid(c)
    BY <1>1, FitsStay, SlotsStay, ValidStays
  <2>6. Side'.channel[1] = s
    BY <1>3, <2>4 DEF slot
  <2>7. ChannelBegun'
    BY <2>1, <2>3, <2>4, <2>5, <2>6 DEF ChannelBegun, parsingChannel
  <2>8. ChannelValidSoFar'
    BY <2>1, <2>3, <2>4, <2>5 DEF ChannelValidSoFar
  <2>9. ContextKnown'
    BY <1>1, <1>2, <1>4, <2>1, ContextStays DEF ParsedValid, parsingChannel
  <2>10. QED
    BY <1>3, <1>5, <2>1, <2>7, <2>8, <2>9 DEF ParsedValid, TraitsMergedValid, ListValidSoFar
<1>7. CASE slot.ref \notin DOMAIN channels
  <2>1. /\ Problem(slot.ref) = empty /\ Target(slot).ref = empty /\ Target(slot).addressed
        /\ stage' = "channelTraits" /\ rest' = Target(slot).traits
        /\ refs' = refs \cup ({slot.ref} \ {empty})
        /\ ch' = [id |-> IF slot.ref = empty THEN work.name \o "." \o side ELSE slot.ref,
                  ref |-> slot.ref,
                  name |-> IF slot.ref = empty THEN inlineName ELSE Target(slot).key,
                  slot |-> Target(slot), fields |-> Target(slot).fields,
                  servers |-> ServersOf(Target(slot)), traitParams |-> {},
                  params |-> <<>>, messages |-> <<>>]
    BY <1>7, Words DEF LinkChannel, Unless, Refuse
  <2>2. slot.ref \in DOMAIN doc.at \cup {empty}
    BY <2>1, NoProblem
  <2>3. ChannelListed(Target(slot))
    BY <1>1, <2>1, <2>2, SideListed DEF MInv, PartListed, Target
  <2> HIDE DEF slot
  <2>4. PICK s, c : s = slot /\ c = Target(slot)
    OBVIOUS
  <2>5. /\ {"ref", "fields", "traitParams", "params"} \subseteq DOMAIN ch'
        /\ ch'.ref = s.ref /\ ch'.slot = c /\ ch'.fields = c.fields /\ ch'.traitParams = {} /\ ch'.params = <<>>
    BY <2>1, <2>4
  <2>6. Direct(s) /\ Direct(s)' = Direct(s) /\ Target(s)' = c
    BY <1>1, <2>1, <2>2, <2>4, FitsStay, SlotsStay DEF Direct, OneHop
  <2>7. Side'.channel[1] = s
    BY <1>3, <2>4 DEF slot
  <2>8. ChannelBegun'
    BY <1>1, <1>7, <2>1, <2>4, <2>5, <2>6, <2>7 DEF ChannelBegun, slot
  <2>9. TraitsMergedValid'
    <3>1. IsSeq(c.traits) /\ Len(c.traits) \in Nat
      BY <2>3, <2>4, SeqLen DEF ChannelListed
    <3>2. rest' = c.traits
      BY <2>1, <2>4
    <3>3. merged' = 0
      BY <2>5, <3>1, <3>2 DEF merged
    <3>4. Merged(c.fields, c.traits, 0)' = c.fields
      BY DEF Merged
    <3>5. \A i \in 1..Len(c.traits) : 0 + i = i
      BY <3>1
    <3>6. PICK z : z = 0
      OBVIOUS
    <3>7. QED
      BY <2>5, <3>1, <3>2, <3>3, <3>4, <3>5 DEF TraitsMergedValid
  <2>10. ContextKnown'
    <3>1. ToSet(chain) = {} /\ Len(chain) = 0
      BY <1>2, EmptyIsSeq, EmptySeq
    <3>2. rootKey \in refs' => \E e \in TraitServers' : Passed(e)'
      BY <1>1, <1>4, <2>1, KeyStays DEF ParsedValid, rootKey
    <3>3. refs' \subseteq {rootKey} \cup {ch'.ref}
      BY <1>2, <2>1, <2>4, <2>5
    <3>4. QED
      BY <1>1, <1>2, <2>1, <3>1, <3>2, <3>3 DEF ContextKnown, parsingChannel
  <2>11. QED
    BY <1>3, <1>5, <2>1, <2>8, <2>9, <2>10 DEF ParsedValid, ChannelValidSoFar, ListValidSoFar
<1>8. QED
  BY <1>6, <1>7

LEMMA TraitStaysValid ==
  ASSUME MInv, ParsedValid, MergeChannelTrait, stage' # "refused"
  PROVE  ParsedValid'
<1> DEFINE slot == Head(rest)
           trait == Target(slot)
           problem == TraitProblem(ch.fields, slot)
           problems ==
             IF problem # empty THEN {problem}
             ELSE IF TraitServersProblem(trait) # empty THEN {TraitServersProblem(trait)}
             ELSE {IF p.key \in ch.traitParams THEN "override" ELSE ParameterProblem(p.slot) :
                     p \in ToSet(trait.params)} \ {empty}
<1>1. /\ stage = "channelTraits" /\ rest # <<>> /\ problems = {} /\ rest' = Tail(rest)
      /\ ch' = [ch EXCEPT !.fields = @ \cup Sets(slot), !.servers = @ \o trait.servers,
                          !.traitParams = @ \cup {p.key : p \in ToSet(trait.params)}]
      /\ refs' = IF trait.servers = <<>> THEN refs ELSE refs \cup {rootKey}
      /\ \E names \in Renamed(trait.params) : paramName' = Overlay(names, paramName)
      /\ UNCHANGED <<doc, stage, k, side, work, chain, channels, messages>>
  BY DEF MergeChannelTrait, Refuse
<1>2. problem = empty
  BY <1>1
<1>3. Direct(slot)
  BY <1>2, FreeTrait
<1>4. \A p \in ToSet(trait.params) : p.key \notin ch.traitParams /\ OneHop(p.slot)
  <2>1. TAKE p \in ToSet(trait.params)
  <2>2. (IF p.key \in ch.traitParams THEN "override" ELSE ParameterProblem(p.slot)) = empty
    BY <1>1, <1>2, Words
  <2>3. p.key \notin ch.traitParams /\ ParameterProblem(p.slot) = empty
    BY <2>2, Words
  <2>4. PICK s : s = p.slot
    OBVIOUS
  <2>5. OneHop(s)
    <3>1. CASE s.ref \in DOMAIN paramName
      BY <3>1 DEF OneHop, ParsedValid, CachesValid
    <3>2. CASE s.ref \notin DOMAIN paramName
      BY <2>3, <2>4, <3>2, NoProblem DEF ParameterProblem, OneHop
    <3>3. QED
      BY <3>1, <3>2
  <2>6. QED
    BY <2>3, <2>4, <2>5
<1> DEFINE traits == ch.slot.traits
           i == merged + 1
<1>5. /\ i \in DOMAIN traits /\ slot = traits[i] /\ i - 1 = merged /\ merged \in Nat
      /\ IsSeq(traits) /\ slot \in ToSet(traits)
  BY <1>1, NextTrait
<1>6. TraitsMergedValid /\ ChannelBegun /\ ContextKnown
  BY DEF ParsedValid
<1> HIDE DEF slot
<1>7. /\ DOMAIN ch' = DOMAIN ch /\ ch'.slot = ch.slot /\ ch'.ref = ch.ref /\ ch'.params = ch.params
      /\ ch'.fields = ch.fields \cup Sets(slot)
      /\ ch'.traitParams = ch.traitParams \cup Keys(trait)
  <2>1. {"ref", "fields", "traitParams", "params"} \subseteq DOMAIN ch
    BY <1>1, <1>6 DEF ChannelBegun, parsingChannel
  <2>2. QED
    BY <1>1, <2>1 DEF Keys
<1>8. merged' = i /\ IsSeq(rest') /\ \A j \in 1..Len(rest') : rest'[j] = traits[i + j]
  <2>1. IsSeq(rest) /\ \A j \in 1..Len(rest) : rest[j] = traits[merged + j]
    BY <1>1, <1>6 DEF TraitsMergedValid
  <2>2. /\ Len(rest) \in Nat \ {0} /\ Len(rest') = Len(rest) - 1
        /\ \A j \in 1..Len(rest') : rest'[j] = rest[j + 1]
    BY <1>1, <2>1, HeadTailProperties, EmptySeq, SeqLen DEF IsSeq
  <2>3. IsSeq(rest')
    BY <1>1, <2>1, TailIsSeq
  <2>4. merged' = i
    BY <1>5, <1>7, <2>2, SeqLen DEF merged
  <2>5. ASSUME NEW j \in 1..Len(rest') PROVE rest'[j] = traits[i + j]
    <3>1. j + 1 \in 1..Len(rest) /\ merged + (j + 1) = i + j
      BY <1>5, <2>2
    <3>2. QED
      BY <2>1, <2>2, <3>1
  <2>6. QED
    BY <2>3, <2>4, <2>5
<1>9. TraitFits(ch.slot.fields, traits, i) /\ TraitParametersFit(traits, i)
  <2>1. \A j \in 1..(i - 1) : Direct(traits[j])
    BY <1>1, <1>5, <1>6 DEF TraitsMergedValid, TraitFits
  <2>2. TraitProblem(Merged(ch.slot.fields, traits, i - 1), traits[i]) = empty
    BY <1>1, <1>2, <1>5, <1>6 DEF TraitsMergedValid
  <2>3. TraitFits(ch.slot.fields, traits, i)
    <3> HIDE DEF traits, i
    <3>1. QED
      BY <2>1, <2>2, FreeFits
  <2>4. ch.traitParams = UNION {Keys(Target(traits[j])) : j \in 1..merged}
    BY <1>1, <1>6 DEF TraitsMergedValid
  <2>5. \A j \in 1..(i - 1) : \A q \in ToSet(Target(traits[j]).params) : q.key \in ch.traitParams
    <3>1. TAKE j \in 1..(i - 1)
    <3>2. TAKE q \in ToSet(Target(traits[j]).params)
    <3>3. j \in 1..merged /\ q.key \in Keys(Target(traits[j]))
      BY <1>5 DEF Keys
    <3>4. QED
      BY <2>4, <3>3
  <2>6. TraitParametersFit(traits, i)
    BY <1>4, <1>5, <2>5 DEF TraitParametersFit
  <2>7. QED
    BY <2>3, <2>6
<1>10. TraitsMergedValid'
  <2>1. PICK own, ts, n : own = ch.slot.fields /\ ts = traits /\ n = i
    OBVIOUS
  <2>2. n \in Nat /\ 1..n = 1..merged \cup {n}
    BY <1>5, <2>1
  <2>3. \A j \in 1..n : TraitFits(own, ts, j) /\ TraitParametersFit(ts, j)
    BY <1>1, <1>6, <1>9, <2>1, <2>2 DEF TraitsMergedValid
  <2>4. \A j \in 1..n : (TraitFits(own, ts, j) /\ TraitParametersFit(ts, j))'
    BY <1>1, <2>3, FitsStay, ValidStays
  <2>5. ch'.fields = Merged(own, ts, n)
    <3>1. ch'.fields = Merged(own, ts, merged) \cup Sets(ts[n])
      BY <1>1, <1>5, <1>6, <1>7, <2>1 DEF TraitsMergedValid
    <3>2. QED
      BY <2>2, <3>1 DEF Merged
  <2>6. ch'.traitParams = UNION {Keys(Target(ts[j])) : j \in 1..n}
    <3>1. ch'.traitParams = (UNION {Keys(Target(ts[j])) : j \in 1..merged}) \cup Keys(Target(ts[n]))
      BY <1>1, <1>5, <1>6, <1>7, <2>1 DEF TraitsMergedValid
    <3>2. QED
      BY <2>2, <3>1
  <2>7. Merged(own, ts, n)' = Merged(own, ts, n)
    BY <1>1, SlotsStay DEF Merged
  <2>8. \A t : Keys(Target(t))' = Keys(Target(t))
    BY <1>1, SlotsStay DEF Keys
  <2>9. ch'.slot.fields = own /\ ch'.slot.traits = ts /\ merged' = n
    BY <1>7, <1>8, <2>1
  <2> HIDE DEF traits, i
  <2>10. \A j \in 1..Len(rest') : rest'[j] = ts[n + j]
    BY <1>8, <2>1
  <2>11. ch'.params = <<>>
    BY <1>1, <1>6, <1>7 DEF TraitsMergedValid
  <2>12. (\A j \in 1..merged : TraitFits(ch.slot.fields, ch.slot.traits, j) /\ TraitParametersFit(ch.slot.traits, j))'
    BY <2>4, <2>9
  <2>13. ch'.fields = Merged(ch.slot.fields, ch.slot.traits, merged)'
    BY <2>5, <2>7, <2>9
  <2>14. ch'.traitParams = (UNION {Keys(Target(ch.slot.traits[j])) : j \in 1..merged})'
    BY <2>6, <2>8, <2>9
  <2>15. QED
    BY <1>8, <2>2, <2>9, <2>10, <2>11, <2>12, <2>13, <2>14 DEF TraitsMergedValid
<1>11. OperationBegun' /\ Side' = Side
  BY <1>1, BegunStays DEF ParsedValid, workStages, ChannelStages
<1>12. \A e : Passed(e) => Passed(e)'
  <2>1. 1..merged \subseteq 1..(merged')
    BY <1>5, <1>8
  <2>2. QED
    BY <1>1, <1>11, <2>1, PassedStays DEF parsingChannel, workStages, ChannelStages
<1>13. ContextKnown'
  <2>1. chain = <<>> /\ ToSet(chain) = {} /\ Len(chain) = 0
    BY <1>1, EmptyIsSeq, EmptySeq DEF MInv, Linked
  <2>2. refs' \subseteq {rootKey} \cup {ch'.ref}
    BY <1>1, <1>6, <1>7, <2>1 DEF ContextKnown, parsingChannel
  <2>3. rootKey \in refs' => \E e \in TraitServers' : Passed(e)'
    <3>1. CASE trait.servers = <<>>
      BY <1>1, <1>6, <1>12, <3>1, KeyStays
    <3>2. CASE trait.servers # <<>>
      <4>1. ServersListed(doc, ch.slot) /\ ChannelOf(hereSide) = ch.slot /\ hereSide \in ChannelSides
        BY <1>1, ChannelKnown DEF MInv, ParsedValid, ChannelStages
      <4>2. IsSeq(trait.servers)
        BY <1>3, <1>5, <4>1 DEF ServersListed, Direct, OneHop, Target
      <4>3. 1 \in DOMAIN trait.servers
        <5> HIDE DEF trait
        <5>1. QED
          BY <3>2, <4>2, SeqLen, EmptySeq DEF IsSeq
      <4> DEFINE e == <<Place(hereSide), i, 1>>
      <4>4. e \in TraitServers
        BY <1>3, <1>5, <4>1, <4>3, ServerKnown
      <4>5. e[1] = Place(hereSide) /\ e[2] = i
        OBVIOUS
      <4> HIDE DEF e, i
      <4>6. e[1] = Place(hereSide)' /\ e[2] \in 1..(merged')
        <5>1. hereSide' = hereSide
          BY <1>1, <1>11 DEF hereSide
        <5>2. Place(hereSide)' = Place(hereSide)
          BY <5>1 DEF Place
        <5>3. i \in 1..i
          BY <1>5 DEF i
        <5>4. QED
          BY <1>8, <4>5, <5>2, <5>3
      <4>7. PICK x : x = e
        OBVIOUS
      <4>8. x[1] = Place(hereSide)' /\ x[2] \in 1..(merged') /\ parsingChannel'
        BY <1>1, <4>6, <4>7 DEF parsingChannel
      <4>9. Passed(x)'
        BY <4>8 DEF Passed
      <4>10. x \in TraitServers'
        BY <1>1, <4>4, <4>7, SidesStay
      <4>11. QED
        BY <4>9, <4>10
    <3>3. QED
      BY <3>1, <3>2
  <2>4. QED
    BY <1>1, <2>1, <2>2, <2>3 DEF ContextKnown, parsingChannel
<1>14. DOMAIN paramName' \subseteq DOMAIN doc.at
  <2>1. PICK names \in Renamed(trait.params) : paramName' = Overlay(names, paramName)
    BY <1>1
  <2>2. DOMAIN paramName' = DOMAIN names \cup DOMAIN paramName
    BY <2>1 DEF Overlay
  <2>3. \A r \in DOMAIN names : \E p \in ToSet(trait.params) : p.slot.ref = r /\ r # empty
    BY DEF Renamed
  <2>4. DOMAIN names \subseteq DOMAIN doc.at
    BY <1>4, <2>3 DEF OneHop
  <2>5. QED
    BY <2>2, <2>4 DEF ParsedValid, CachesValid
<1>15. SoFarValid' /\ CachesValid'
  BY <1>1, <1>14, SoFarStays, CachesStay DEF ParsedValid
<1>16. ChannelBegun'
  BY <1>1, <1>6, <1>7, <1>11, ChannelStays DEF ChannelStages, parsingChannel
<1>17. ChannelValidSoFar' /\ ListValidSoFar'
  BY <1>1 DEF ChannelValidSoFar, ListValidSoFar
<1>18. QED
  BY <1>10, <1>11, <1>13, <1>15, <1>16, <1>17 DEF ParsedValid

\* What the steps in a channel share.
LEMMA InChannelStays ==
  ASSUME MInv, ParsedValid, parsingChannel, parsingChannel', stage # "channelTraits" \/ stage' # "channelTraits",
         stage' # "channelTraits", ch'.slot = ch.slot, ch'.ref = ch.ref, DOMAIN ch' = DOMAIN ch,
         UNCHANGED <<doc, k, side, work, channels, messages>>, DOMAIN paramName' \subseteq DOMAIN doc.at
  PROVE  /\ SoFarValid' /\ CachesValid' /\ OperationBegun' /\ ChannelBegun' /\ TraitsMergedValid' /\ ListValidSoFar'
         /\ Side' = Side /\ \A e : Passed(e) => Passed(e)'
<1>1. stage \in ChannelStages /\ stage \in workStages /\ stage' \in workStages
  BY DEF parsingChannel, ChannelStages, workStages
<1>2. OperationBegun' /\ Side' = Side
  BY <1>1, BegunStays DEF ParsedValid
<1>3. ChannelBegun'
  BY <1>1, <1>2, ChannelStays DEF ParsedValid
<1>4. \A e : Passed(e) => Passed(e)'
  BY <1>1, <1>2, PassedStays DEF parsingChannel
<1>5. SoFarValid' /\ CachesValid'
  BY SoFarStays, CachesStay DEF ParsedValid, parsingChannel
<1>6. TraitsMergedValid' /\ ListValidSoFar'
  BY DEF TraitsMergedValid, ListValidSoFar, parsingChannel
<1>7. QED
  BY <1>2, <1>3, <1>4, <1>5, <1>6

LEMMA TraitsMergedStaysValid ==
  ASSUME MInv, ParsedValid, TraitsMerged
  PROVE  ParsedValid'
<1>1. /\ stage = "channelTraits" /\ rest = <<>> /\ stage' = "parameters" /\ rest' = ch.slot.params
      /\ UNCHANGED <<doc, k, side, work, ch, chain, refs, channels, messages, paramName>>
  BY DEF TraitsMerged, caches
<1>2. /\ SoFarValid' /\ CachesValid' /\ OperationBegun' /\ ChannelBegun' /\ TraitsMergedValid' /\ ListValidSoFar'
      /\ Side' = Side /\ \A e : Passed(e) => Passed(e)'
  BY <1>1, InChannelStays DEF parsingChannel, ParsedValid, CachesValid
<1>3. merged = Len(ch.slot.traits) /\ IsSeq(ch.slot.traits) /\ DOMAIN ch.slot.traits = 1..merged
  <2>1. IsSeq(ch.slot.traits)
    BY <1>1 DEF MInv, ChannelFilled, ChannelListed
  <2>2. Len(rest) = 0
    BY <1>1, EmptySeq
  <2>3. QED
    BY <2>1, <2>2, SeqLen DEF merged
<1>4. /\ TraitsValid(ch.slot.fields, ch.slot.traits) /\ TraitParametersValid(ch.slot.traits)
      /\ ch.params = <<>>
  BY <1>1, <1>3 DEF ParsedValid, TraitsMergedValid, TraitsValid, TraitParametersValid
<1>5. ChannelValidSoFar'
  <2>1. DOMAIN ch.params = {}
    BY <1>4
  <2>2. PICK c : c = ch
    OBVIOUS
  <2>3. \A traits : TraitParametersValid(traits)' = TraitParametersValid(traits)
    BY <1>1, ValidStays DEF TraitParametersValid
  <2>4. (TraitsValid(ch.slot.fields, ch.slot.traits) /\ TraitParametersValid(ch.slot.traits))'
    BY <1>1, <1>4, <2>2, <2>3, FitsStay
  <2>5. QED
    BY <1>1, <2>1, <2>4 DEF ChannelValidSoFar
<1>6. ContextKnown'
  <2>1. chain = <<>>
    BY <1>1 DEF MInv, Linked
  <2>2. QED
    BY <1>1, <1>2, <2>1, ContextStays DEF ParsedValid, parsingChannel
<1>7. QED
  BY <1>2, <1>5, <1>6 DEF ParsedValid

LEMMA ParameterStaysValid ==
  ASSUME MInv, KInv, ParsedValid, ParseParameter, stage' # "refused"
  PROVE  ParsedValid'
<1> DEFINE p == Head(rest)
           param == [x \in {p.key} |-> p.slot.ref]
           name == [r \in {p.slot.ref} |-> p.key]
<1>1. /\ stage = "parameters" /\ rest # <<>> /\ ParameterProblem(p.slot) = empty /\ rest' = Tail(rest)
      /\ ch' = [ch EXCEPT !.params = Overlay(param, @)]
      /\ paramName' = IF p.slot.ref = empty THEN paramName ELSE Overlay(name, paramName)
      /\ UNCHANGED <<doc, stage, k, side, work, chain, refs, channels, messages>>
  BY DEF ParseParameter, Unless, Refuse
<1>2. {"ref", "slot", "params"} \subseteq DOMAIN ch
  BY <1>1 DEF ParsedValid, ChannelBegun, parsingChannel, KInv, Remaining, ChannelStages
<1>3. IsSeq(rest) /\ ToSet(rest) \subseteq ToSet(ch.slot.params) /\ ToSet(rest) = {p} \cup ToSet(rest')
  BY <1>1, TailIsSeq DEF KInv, Remaining
<1>4. DOMAIN param = {p.key} /\ DOMAIN name = {p.slot.ref}
  OBVIOUS
<1>5. OneHop(p.slot)
  <2>1. PICK s : s = p.slot
    OBVIOUS
  <2> HIDE DEF p
  <2>2. CASE s.ref \in DOMAIN paramName
    BY <2>1, <2>2 DEF OneHop, ParsedValid, CachesValid
  <2>3. CASE s.ref \notin DOMAIN paramName
    BY <1>1, <2>1, <2>3, NoProblem DEF ParameterProblem, OneHop
  <2>4. QED
    BY <2>1, <2>2, <2>3
<1> HIDE DEF param, name
<1>6. /\ DOMAIN ch' = DOMAIN ch /\ ch'.slot = ch.slot /\ ch'.ref = ch.ref
      /\ DOMAIN ch'.params = {p.key} \cup DOMAIN ch.params
  BY <1>1, <1>2, <1>4 DEF Overlay
<1>7. DOMAIN paramName' \subseteq DOMAIN doc.at
  BY <1>1, <1>4, <1>5 DEF Overlay, OneHop, ParsedValid, CachesValid
<1>8. /\ SoFarValid' /\ CachesValid' /\ OperationBegun' /\ ChannelBegun' /\ TraitsMergedValid' /\ ListValidSoFar'
      /\ Side' = Side /\ \A e : Passed(e) => Passed(e)'
  BY <1>1, <1>6, <1>7, InChannelStays DEF parsingChannel
<1>9. ContextKnown'
  <2>1. chain = <<>>
    BY <1>1 DEF MInv, Linked
  <2>2. QED
    BY <1>1, <1>6, <1>8, <2>1, ContextStays DEF ParsedValid, parsingChannel
<1>10. ChannelValidSoFar'
  <2> HIDE DEF p
  <2>1. PICK c : c = ch.slot
    OBVIOUS
  <2>2. \A traits : TraitParametersValid(traits)' = TraitParametersValid(traits)
    BY <1>1, ValidStays DEF TraitParametersValid
  <2>3. (TraitsValid(ch.slot.fields, ch.slot.traits) /\ TraitParametersValid(ch.slot.traits))'
    BY <1>1, <1>6, <2>1, <2>2, FitsStay DEF ParsedValid, ChannelValidSoFar
  <2>4. DOMAIN ch'.params \subseteq Keys(c)
    <3>1. p.key \in Keys(c)
      BY <1>3, <2>1 DEF Keys
    <3>2. QED
      BY <1>1, <1>6, <2>1, <3>1 DEF ParsedValid, ChannelValidSoFar
  <2>5. Keys(c)' = Keys(c) /\ \A s : OneHop(s)' = OneHop(s)
    BY <1>1, FitsStay DEF Keys
  <2>6. \A q \in ToSet(c.params) \ ToSet(rest') : OneHop(q.slot) /\ q.key \in DOMAIN ch'.params
    BY <1>1, <1>3, <1>5, <1>6, <2>1 DEF ParsedValid, ChannelValidSoFar
  <2>7. QED
    BY <1>1, <1>6, <2>1, <2>3, <2>4, <2>5, <2>6 DEF ChannelValidSoFar
<1>11. QED
  BY <1>8, <1>9, <1>10 DEF ParsedValid

LEMMA ParametersParsedStaysValid ==
  ASSUME MInv, ParsedValid, ParametersParsed
  PROVE  ParsedValid'
<1>1. /\ stage = "parameters" /\ rest = <<>> /\ stage' = "channelMessages" /\ rest' = ch.slot.messages
      /\ UNCHANGED <<doc, k, side, work, ch, chain, refs, channels, messages, paramName>>
  BY DEF ParametersParsed, caches
<1>2. /\ SoFarValid' /\ CachesValid' /\ OperationBegun' /\ ChannelBegun' /\ TraitsMergedValid' /\ ListValidSoFar'
      /\ Side' = Side /\ \A e : Passed(e) => Passed(e)'
  BY <1>1, InChannelStays DEF parsingChannel, ParsedValid, CachesValid
<1>3. ContextKnown'
  <2>1. chain = <<>>
    BY <1>1 DEF MInv, Linked
  <2>2. QED
    BY <1>1, <1>2, <2>1, ContextStays DEF ParsedValid, parsingChannel
<1>4. ChannelValidSoFar'
  <2>1. PICK c : c = ch.slot
    OBVIOUS
  <2>2. \A traits : TraitParametersValid(traits)' = TraitParametersValid(traits)
    BY <1>1, ValidStays DEF TraitParametersValid
  <2>3. (TraitsValid(ch.slot.fields, ch.slot.traits) /\ TraitParametersValid(ch.slot.traits))'
    BY <1>1, <2>1, <2>2, FitsStay DEF ParsedValid, ChannelValidSoFar
  <2>4. ToSet(rest) = {}
    BY <1>1, EmptyIsSeq
  <2>5. ParametersValid(c) /\ Keys(c) \subseteq DOMAIN ch.params /\ DOMAIN ch.params \subseteq Keys(c)
    BY <1>1, <2>1, <2>4 DEF ParsedValid, ChannelValidSoFar, ParametersValid, Keys
  <2>6. Keys(c)' = Keys(c) /\ ParametersValid(c)' = ParametersValid(c)
    BY <1>1, FitsStay DEF Keys, ParametersValid
  <2>7. QED
    BY <1>1, <2>1, <2>3, <2>5, <2>6 DEF ChannelValidSoFar
<1>5. QED
  BY <1>2, <1>3, <1>4 DEF ParsedValid

LEMMA EndChannelStaysValid ==
  ASSUME MInv, ParsedValid, EndChannel, stage' # "refused"
  PROVE  ParsedValid'
<1>1. /\ stage = "channelMessages" /\ rest = <<>> /\ stage' = "messages"
      /\ ToSet(ch.slot.tokens) \subseteq DOMAIN ch.params
      /\ channels' = IF ch.ref = empty THEN channels ELSE Overlay([r \in {ch.ref} |-> ch], channels)
      /\ refs' = IF ch.ref = empty THEN refs ELSE refs \ {ch.ref}
      /\ UNCHANGED <<doc, k, side, work, ch, rest, chain, messages, paramName>>
  BY Words DEF EndChannel, Unless, Refuse
<1>2. ChannelObjectValid(ch.slot)
  <2>1. ToSet(rest) = {}
    BY <1>1, EmptyIsSeq
  <2>2. ch.slot.addressed
    BY <1>1 DEF ParsedValid, ChannelBegun, parsingChannel
  <2>3. AddressValid(ch.slot)
    BY <1>1 DEF ParsedValid, ChannelValidSoFar, AddressValid, Keys
  <2>4. QED
    BY <1>1, <2>1, <2>2, <2>3 DEF ParsedValid, ChannelValidSoFar, ChannelObjectValid
<1>3. OperationBegun' /\ Side' = Side
  BY <1>1, BegunStays DEF ParsedValid, workStages, ChannelStages
<1>4. ChannelBegun'
  BY <1>1, <1>3, ChannelStays DEF ParsedValid, ChannelStages, parsingChannel
<1>5. ch.ref = Side.channel[1].ref /\ Direct(Side.channel[1]) /\ ch.slot = Target(Side.channel[1])
  BY <1>1 DEF ParsedValid, ChannelBegun, parsingChannel, ChannelStages
<1>6. /\ DOMAIN channels' = DOMAIN channels \cup ({ch.ref} \ {empty})
      /\ \A r \in DOMAIN channels' \ {ch.ref} : channels'[r] = channels[r]
      /\ ch.ref # empty => channels'[ch.ref] = ch
      /\ ch.ref = empty => channels' = channels
  <2> DEFINE new == [r \in {ch.ref} |-> ch]
  <2>1. channels' = IF ch.ref = empty THEN channels ELSE Overlay(new, channels)
    BY <1>1
  <2>2. DOMAIN new = {ch.ref} /\ new[ch.ref] = ch
    OBVIOUS
  <2> HIDE DEF new
  <2>3. QED
    BY <2>1, <2>2 DEF Overlay
<1>7. CachesValid'
  <2>1. \A r \in DOMAIN channels' :
          /\ r # empty /\ r \in DOMAIN doc.at /\ doc.at[r].ref = empty
          /\ channels'[r].slot = doc.at[r] /\ ChannelObjectValid(doc.at[r])
    <3>1. TAKE r \in DOMAIN channels'
    <3>2. CASE r = ch.ref /\ ch.ref # empty
      <4>1. r \in DOMAIN doc.at /\ ch.slot = doc.at[r] /\ doc.at[r].ref = empty
        BY <1>5, <3>2 DEF Direct, OneHop, Target, TargetIn
      <4>2. QED
        BY <1>2, <1>6, <3>2, <4>1
    <3>3. CASE ~(r = ch.ref /\ ch.ref # empty)
      <4>1. r \in DOMAIN channels /\ channels'[r] = channels[r]
        BY <1>6, <3>3
      <4>2. QED
        BY <4>1 DEF ParsedValid, CachesValid
    <3>4. QED
      BY <3>2, <3>3
  <2>2. \A c : ChannelObjectValid(c)' = ChannelObjectValid(c)
    BY <1>1, ValidStays
  <2>3. PICK cs : cs = channels'
    OBVIOUS
  <2>4. QED
    BY <1>1, <2>1, <2>2, FitsStay DEF ParsedValid, CachesValid
<1>8. \A e : Passed(e) => Passed(e)'
  <2>1. TAKE e
  <2>2. CASE parsingChannel /\ e[1] = Place(hereSide)
    <3>1. hereSide.part = Side /\ hereSide.at = <<k, side>>
      BY DEF hereSide
    <3>2. e[1][1] = ch.ref /\ (ch.ref = empty => e[1][2] = <<k, side>>)
      BY <1>5, <2>2, <3>1 DEF Place
    <3>3. QED
      BY <1>1, <1>6, <3>2 DEF Passed
  <2>3. CASE ~(parsingChannel /\ e[1] = Place(hereSide))
    BY <1>1, <1>6, <2>3 DEF Passed, workStages, ChannelStages
  <2>4. QED
    BY <2>2, <2>3
<1>9. ContextKnown'
  <2>1. chain = <<>>
    BY <1>1 DEF MInv, Linked
  <2>2. QED
    BY <1>1, <1>8, <2>1, ContextStays DEF ParsedValid
<1>10. SoFarValid'
  BY <1>1, SoFarStays DEF ParsedValid
<1>11. ChannelValidSoFar'
  <2>1. PICK c : c = ch.slot
    OBVIOUS
  <2>2. QED
    BY <1>1, <1>2, <2>1, ValidStays DEF ChannelValidSoFar
<1>12. TraitsMergedValid' /\ ListValidSoFar'
  BY <1>1 DEF TraitsMergedValid, ListValidSoFar
<1>13. QED
  BY <1>3, <1>4, <1>7, <1>9, <1>10, <1>11, <1>12 DEF ParsedValid

\* A valid message is got, however it was found.
LEMMA GotStaysValid ==
  ASSUME MInv, Lists, ParsedValid, parsesMessages, MessageValid(Head(rest).slot), NEW m, Got(m),
         rest' = Tail(rest), refs' = refs \ ToSet(chain), chain' = <<>>,
         UNCHANGED <<doc, stage, k, side, channels, paramName>>, CachesValid'
  PROVE  ParsedValid'
<1>1. stage \in {"channelMessages", "list"} /\ rest # <<>>
  BY DEF parsesMessages
<1>2. /\ ch'.slot = ch.slot /\ DOMAIN ch' = DOMAIN ch
      /\ stage = "channelMessages" => ch'.ref = ch.ref /\ ch'.params = ch.params
      /\ work'.slot = work.slot
  <2>1. /\ stage = "channelMessages" => {"slot", "ref", "params"} \subseteq DOMAIN ch
        /\ "slot" \in DOMAIN work
    BY <1>1 DEF MInv, ChannelFilled, Prepared, ParsedValid, ChannelBegun, parsingChannel, ChannelStages
  <2>2. CASE stage = "channelMessages"
    BY <2>1, <2>2 DEF Got
  <2>3. CASE stage # "channelMessages"
    <3>1. ch' = ch
      BY <2>3 DEF Got
    <3>2. work'.slot = work.slot
      <4>1. CASE side = "operation"
        BY <2>1, <2>3, <4>1 DEF Got
      <4>2. CASE side # "operation"
        BY <2>1, <2>3, <4>2 DEF Got
      <4>3. QED
        BY <4>1, <4>2
    <3>3. QED
      BY <2>3, <3>1, <3>2
  <2>4. QED
    BY <2>2, <2>3
<1>3. OperationBegun' /\ Side' = Side
  BY <1>1, <1>2, BegunStays DEF ParsedValid, workStages, ChannelStages
<1>4. ChannelBegun'
  BY <1>1, <1>2, <1>3, ChannelStays DEF ParsedValid, ChannelStages, parsingChannel
<1>5. \A e : Passed(e) => Passed(e)'
  BY <1>1, <1>3, PassedStays DEF parsingChannel
<1>6. SoFarValid'
  BY <1>1, SoFarStays DEF ParsedValid
<1>7. ToSet(rest) = {Head(rest)} \cup ToSet(rest')
  <2>1. IsSeq(rest)
    BY <1>1 DEF MInv, ChannelFilled, SideFilled, Filled
  <2>2. QED
    BY <1>1, <2>1, TailIsSeq
<1>8. ContextKnown'
  <2>1. ToSet(chain') = {} /\ Len(chain') = 0
    BY EmptyIsSeq, EmptySeq
  <2>2. rootKey \in refs' => \E e \in TraitServers' : Passed(e)'
    BY <1>5, KeyStays DEF ParsedValid
  <2>3. refs' \subseteq {rootKey} \cup (IF parsingChannel THEN {ch.ref} ELSE {})'
    BY <1>1, <1>2 DEF ParsedValid, ContextKnown, parsingChannel
  <2>4. QED
    BY <1>1, <2>1, <2>2, <2>3 DEF ContextKnown
<1>9. ChannelValidSoFar'
  <2>1. PICK c : c = ch.slot
    OBVIOUS
  <2>2. CASE stage = "channelMessages"
    <3>1. \A traits : TraitParametersValid(traits)' = TraitParametersValid(traits)
      BY ValidStays DEF TraitParametersValid
    <3>2. (TraitsValid(ch.slot.fields, ch.slot.traits) /\ TraitParametersValid(ch.slot.traits))'
      BY <1>2, <2>1, <2>2, <3>1, FitsStay DEF ParsedValid, ChannelValidSoFar
    <3>3. \A x \in ToSet(c.messages) \ ToSet(rest') : MessageValid(x.slot)
      BY <1>7, <2>1, <2>2 DEF ParsedValid, ChannelValidSoFar
    <3>4. Keys(c)' = Keys(c) /\ ParametersValid(c)' = ParametersValid(c)
      BY FitsStay DEF Keys, ParametersValid
    <3>5. \A x : MessageValid(x.slot)' = MessageValid(x.slot)
      <4>1. TAKE x
      <4>2. PICK s : s = x.slot
        OBVIOUS
      <4>3. QED
        BY <4>2, FitsStay
    <3>6. ParametersValid(c) /\ Keys(c) \subseteq DOMAIN ch.params /\ DOMAIN ch.params \subseteq Keys(c)
      BY <2>1, <2>2 DEF ParsedValid, ChannelValidSoFar
    <3>7. QED
      BY <1>2, <2>1, <2>2, <3>2, <3>3, <3>4, <3>5, <3>6 DEF ChannelValidSoFar
  <2>3. CASE stage = "list"
    BY <1>2, <2>1, <2>3, ValidStays DEF ParsedValid, ChannelValidSoFar
  <2>4. QED
    BY <1>1, <2>2, <2>3
<1>10. ListValidSoFar'
  <2>1. CASE stage = "channelMessages"
    BY <2>1 DEF ListValidSoFar
  <2>2. CASE stage = "list"
    <3>1. PICK part : part = Side
      OBVIOUS
    <3>2. \A i \in DOMAIN part.messages :
            part.messages[i] \in {x.slot : x \in ToSet(rest')} \/ MessageValid(part.messages[i])
      BY <1>7, <2>2, <3>1 DEF ParsedValid, ListValidSoFar
    <3>3. \A i : MessageValid(part.messages[i])' = MessageValid(part.messages[i])
      <4>1. TAKE i
      <4>2. PICK s : s = part.messages[i]
        OBVIOUS
      <4>3. QED
        BY <4>2, FitsStay
    <3>4. part.messages # <<>> \/ ch'.slot.messages # <<>>
      BY <1>2, <2>2, <3>1 DEF ParsedValid, ListValidSoFar
    <3>5. Side' = part
      BY <1>3, <3>1
    <3>6. QED
      BY <3>2, <3>3, <3>4, <3>5 DEF ListValidSoFar
  <2>3. QED
    BY <1>1, <2>1, <2>2
<1>11. TraitsMergedValid'
  BY <1>1 DEF TraitsMergedValid
<1>12. QED
  BY <1>3, <1>4, <1>6, <1>8, <1>9, <1>10, <1>11 DEF ParsedValid

LEMMA InlineStaysValid ==
  ASSUME MInv, Lists, ParsedValid, ParseInline, stage' # "refused"
  PROVE  ParsedValid'
<1> DEFINE slot == Head(rest).slot
           m == [MessageAt(slot, inlineId, empty) EXCEPT
                   !.spec = inlineSpec, !.name = IF @ = empty THEN inlineSpec ELSE @]
<1>1. /\ parsesMessages /\ chain = <<>> /\ slot.ref = empty
      /\ MessageProblem(slot, slot.name # empty) = empty /\ Got(m) /\ rest' = Tail(rest)
      /\ UNCHANGED <<doc, stage, k, side, chain, refs, channels, messages, paramName>>
  BY DEF ParseInline, Unless, Refuse, caches
<1> HIDE DEF m
<1>2. IsSeq(slot.traits)
  BY <1>1, MessageKnown DEF MInv, ParsedValid, MessageListed
<1>3. MessageValid(slot)
  <2> HIDE DEF slot
  <2>1. QED
    BY <1>1, <1>2, FitMessage DEF MessageValid
<1>4. refs' = refs \ ToSet(chain)
  BY <1>1, EmptyIsSeq
<1>5. CachesValid'
  BY <1>1, CachesStay DEF ParsedValid, CachesValid
<1>6. QED
  BY <1>1, <1>3, <1>4, <1>5, GotStaysValid

LEMMA CachedStaysValid ==
  ASSUME MInv, Lists, ParsedValid, UseCached
  PROVE  ParsedValid'
<1>1. /\ parsesMessages /\ At # empty /\ At \in DOMAIN messages /\ Got(messages[At])
      /\ refs' = refs \ ToSet(chain) /\ chain' = <<>> /\ rest' = Tail(rest)
      /\ UNCHANGED <<doc, stage, k, side, channels, messages, paramName>>
  BY DEF UseCached, caches
<1>2. At \in DOMAIN doc.at \ References /\ ObjectValid(doc.at[At], TRUE)
  BY <1>1 DEF MInv, Settled, ParsedValid, CachesValid
<1>3. begun # empty /\ EndOf(begun) = At /\ Leads(begun, At)
  BY <1>1, <1>2, ChainMeets, ChainReaches DEF MInv, Leads
<1>4. MessageValid(Head(rest).slot)
  BY <1>2, <1>3 DEF MessageValid, Resolves, begun
<1>5. CachesValid'
  BY <1>1, CachesStay DEF ParsedValid, CachesValid
<1>6. QED
  BY <1>1, <1>4, <1>5, GotStaysValid

LEMMA TargetStaysValid ==
  ASSUME MInv, Lists, ParsedValid, ParseTarget, stage' # "refused"
  PROVE  ParsedValid'
<1> DEFINE ptr == Last(chain)
           slot == doc.at[ptr]
           m == MessageAt(slot, ptr, slot.key)
           new == [r \in {ptr} |-> m]
<1>1. /\ parsesMessages /\ chain # <<>> /\ At = empty
      /\ MessageProblem(slot, TRUE) = empty
      /\ messages' = Overlay(new, messages) /\ Got(m)
      /\ refs' = refs \ ToSet(chain) /\ chain' = <<>> /\ rest' = Tail(rest)
      /\ UNCHANGED <<doc, stage, k, side, channels, paramName>>
  BY DEF ParseTarget, Unless, Refuse
<1>2. begun # empty /\ EndOf(begun) = ptr /\ ptr \in DOMAIN doc.at \ References
  BY <1>1, ChainEnds DEF MInv
<1>3. IsSeq(slot.traits)
  BY <1>2, ListedDocument DEF MInv, MessageListed, References
<1>4. ObjectValid(slot, TRUE)
  <2> HIDE DEF slot
  <2>1. QED
    BY <1>1, <1>3, FitMessage
<1>5. Leads(begun, ptr)
  BY <1>1, <1>2 DEF MInv, Linked, Leads
<1>6. MessageValid(Head(rest).slot)
  BY <1>2, <1>4, <1>5 DEF MessageValid, Resolves, begun
<1>7. CachesValid'
  <2>1. DOMAIN new = {ptr}
    OBVIOUS
  <2> HIDE DEF new
  <2>2. DOMAIN messages' = DOMAIN messages \cup {ptr}
    BY <1>1, <2>1 DEF Overlay
  <2>3. \A p \in DOMAIN messages' : ObjectValid(doc.at[p], TRUE)
    BY <1>4, <2>2 DEF ParsedValid, CachesValid
  <2>4. \A p : ObjectValid(doc.at[p], TRUE)' = ObjectValid(doc.at[p], TRUE)
    <3>1. TAKE p
    <3>2. PICK x : x = doc.at[p]
      OBVIOUS
    <3>3. QED
      BY <1>1, <3>2, FitsStay
  <2>5. QED
    BY <1>1, <2>3, <2>4, ValidStays DEF ParsedValid, CachesValid
<1> HIDE DEF m
<1>8. QED
  BY <1>1, <1>6, <1>7, GotStaysValid

\* A step that changes nothing but the context.
LEMMA PartsStay ==
  ASSUME ParsedValid, UNCHANGED <<doc, stage, k, side, work, ch, rest, channels, messages, paramName>>
  PROVE  /\ SoFarValid' /\ CachesValid' /\ OperationBegun' /\ ChannelBegun' /\ TraitsMergedValid'
         /\ ChannelValidSoFar' /\ ListValidSoFar' /\ \A e : Passed(e)' = Passed(e)
<1>1. PICK w, c, part : w = work.slot /\ c = ch.slot /\ part = Side
  OBVIOUS
<1>2. w' = w /\ Side' = part
  BY <1>1 DEF Side
<1>3. SoFarValid' /\ CachesValid'
  BY FitsStay, SlotsStay, ValidStays DEF ParsedValid, SoFarValid, CachesValid
<1>4. OperationBegun'
  BY <1>1, FitsStay, SlotsStay, ValidStays DEF ParsedValid, OperationBegun
<1>5. ChannelBegun'
  <2>1. PICK slot : slot = part.channel[1]
    OBVIOUS
  <2>2. Direct(slot)' = Direct(slot) /\ Target(slot)' = Target(slot)
    BY FitsStay, SlotsStay
  <2>3. Side'.channel[1] = slot /\ Side.channel[1] = slot
    BY <1>1, <1>2, <2>1
  <2>4. QED
    BY <2>2, <2>3 DEF ParsedValid, ChannelBegun, parsingChannel
<1>6. TraitsMergedValid'
  <2>1. \A t : Keys(Target(t))' = Keys(Target(t))
    BY SlotsStay DEF Keys
  <2>2. \A own, traits, n : Merged(own, traits, n)' = Merged(own, traits, n)
    BY SlotsStay DEF Merged
  <2>3. merged' = merged
    BY DEF merged
  <2>4. PICK own, traits, n : own = c.fields /\ traits = c.traits /\ n = merged
    OBVIOUS
  <2>5. \A i : /\ TraitFits(own, traits, i)' = TraitFits(own, traits, i)
               /\ TraitParametersFit(traits, i)' = TraitParametersFit(traits, i)
    BY FitsStay, ValidStays
  <2>6. QED
    BY <1>1, <2>1, <2>2, <2>3, <2>4, <2>5 DEF ParsedValid, TraitsMergedValid
<1>7. ChannelValidSoFar'
  <2>1. \A traits : TraitParametersValid(traits)' = TraitParametersValid(traits)
    BY ValidStays DEF TraitParametersValid
  <2>2. PICK own, traits : own = c.fields /\ traits = c.traits
    OBVIOUS
  <2>3. \A x : MessageValid(x.slot)' = MessageValid(x.slot) /\ OneHop(x.slot)' = OneHop(x.slot)
    <3>1. TAKE x
    <3>2. PICK s : s = x.slot
      OBVIOUS
    <3>3. QED
      BY <3>2, FitsStay
  <2>4. Keys(c)' = Keys(c) /\ ParametersValid(c)' = ParametersValid(c)
    BY FitsStay DEF Keys, ParametersValid
  <2>5. QED
    BY <1>1, <2>1, <2>2, <2>3, <2>4, FitsStay, ValidStays DEF ParsedValid, ChannelValidSoFar
<1>8. ListValidSoFar'
  <2>1. \A i : MessageValid(part.messages[i])' = MessageValid(part.messages[i])
    <3>1. TAKE i
    <3>2. PICK s : s = part.messages[i]
      OBVIOUS
    <3>3. QED
      BY <3>2, FitsStay
  <2>2. QED
    BY <1>1, <1>2, <2>1 DEF ParsedValid, ListValidSoFar
<1>9. \A e : Passed(e)' = Passed(e)
  BY <1>1, <1>2 DEF Passed, Place, hereSide, parsingChannel, merged
<1>10. QED
  BY <1>3, <1>4, <1>5, <1>6, <1>7, <1>8, <1>9

LEMMA FollowStaysValid ==
  ASSUME MInv, ParsedValid, FollowReference, stage' # "refused"
  PROVE  ParsedValid'
<1>1. /\ parsesMessages /\ At # empty /\ Problem(At) = empty
      /\ chain' = Append(chain, At) /\ refs' = refs \cup {At}
      /\ UNCHANGED <<doc, stage, k, side, work, ch, rest, channels, messages, paramName>>
  BY DEF FollowReference, Unless, Refuse, caches
<1>2. /\ SoFarValid' /\ CachesValid' /\ OperationBegun' /\ ChannelBegun' /\ TraitsMergedValid'
      /\ ChannelValidSoFar' /\ ListValidSoFar' /\ \A e : Passed(e)' = Passed(e)
  BY <1>1, PartsStay
<1>3. IsSeq(chain) /\ ToSet(chain') = ToSet(chain) \cup {At}
  BY <1>1, AppendIsSeq DEF MInv, Linked
<1>4. /\ Len(chain) \in Nat /\ Len(chain') = Len(chain) + 1
      /\ \A i \in 1..Len(chain) : chain'[i] = chain[i]
      /\ chain'[Len(chain) + 1] = At
  <2>1. chain \in Seq(ToSet(chain) \cup {At}) /\ At \in ToSet(chain) \cup {At}
    BY <1>3 DEF IsSeq
  <2>2. QED
    BY <1>1, <1>3, <2>1, AppendProperties, SeqLen
<1>5. begun' = begun /\ References' = References
  BY <1>1, SlotsStay DEF begun
<1>6. chain = <<>> <=> Len(chain) = 0
  BY <1>3, EmptySeq DEF IsSeq
<1>7. chain'[1] = begun
  <2>1. CASE chain = <<>>
    BY <1>4, <1>6, <2>1 DEF At, begun
  <2>2. CASE chain # <<>>
    <3>1. 1 \in 1..Len(chain)
      BY <1>4, <1>6, <2>2
    <3>2. QED
      BY <1>4, <2>2, <3>1 DEF ParsedValid, ContextKnown
  <2>3. QED
    BY <2>1, <2>2
<1>8. \A i \in 1..Len(chain) : chain'[i] \in References /\ chain'[i + 1] = doc.at[chain'[i]].ref
  <2>1. TAKE i \in 1..Len(chain)
  <2>2. chain[i] \in References
    <3>1. chain[i] \in ToSet(chain)
      BY <1>3, SeqLen DEF ToSet
    <3>2. QED
      BY <1>1, <3>1, ChainReaches DEF MInv
  <2>3. CASE i = Len(chain)
    <3>1. chain # <<>> /\ Last(chain) = chain[i]
      BY <1>4, <1>6, <2>3 DEF Last
    <3>2. At = doc.at[chain[i]].ref
      BY <3>1 DEF At
    <3>3. QED
      BY <1>4, <2>2, <2>3, <3>2
  <2>4. CASE i # Len(chain)
    <3>1. i \in 1..(Len(chain) - 1) /\ i + 1 \in 1..Len(chain)
      BY <1>4, <2>4
    <3>2. chain[i + 1] = doc.at[chain[i]].ref
      BY <3>1 DEF ParsedValid, ContextKnown
    <3>3. QED
      BY <1>4, <2>2, <3>1, <3>2
  <2>5. QED
    BY <2>3, <2>4
<1>9. rootKey \in refs' => \E e \in TraitServers' : Passed(e)'
  BY <1>1, <1>2, KeyStays DEF ParsedValid, rootKey
<1>10. /\ ToSet(chain') \subseteq refs'
       /\ refs' \subseteq ToSet(chain') \cup {rootKey} \cup (IF parsingChannel THEN {ch.ref} ELSE {})'
  BY <1>1, <1>3 DEF ParsedValid, ContextKnown, parsingChannel
<1>11. stage \notin {"version", "servers"}
  BY <1>1 DEF parsesMessages
<1>12. Len(chain') - 1 = Len(chain)
  BY <1>4
<1>13. ContextKnown'
  BY <1>1, <1>5, <1>7, <1>8, <1>9, <1>10, <1>11, <1>12 DEF ContextKnown
<1>14. QED
  BY <1>2, <1>13 DEF ParsedValid

LEMMA ChooseStaysValid ==
  ASSUME MInv, ParsedValid, ChooseMessages, stage' # "refused"
  PROVE  ParsedValid'
<1> DEFINE inherited == IF Side.messages = <<>> THEN ch.messages ELSE <<>>
<1>1. /\ stage = "messages" /\ stage' = "list" /\ rest' = Listed
      /\ Side.messages # <<>> \/ ch.messages # <<>>
      /\ work' = IF side = "operation"
                 THEN [work EXCEPT !.channel = ch, !.messages = inherited]
                 ELSE [work EXCEPT !.replyChannel = ch, !.replyMessages = inherited]
      /\ UNCHANGED <<doc, k, side, ch, chain, refs, channels, messages, paramName>>
  BY Words DEF ChooseMessages, Unless, Refuse, caches
<1> HIDE DEF inherited
<1>2. work'.slot = work.slot
  <2>1. "slot" \in DOMAIN work
    BY <1>1 DEF MInv, Prepared, ChannelStages
  <2>2. CASE side = "operation"
    BY <1>1, <2>1, <2>2
  <2>3. CASE side # "operation"
    BY <1>1, <2>1, <2>3
  <2>4. QED
    BY <2>2, <2>3
<1>3. OperationBegun' /\ Side' = Side
  BY <1>1, <1>2, BegunStays DEF ParsedValid, workStages, ChannelStages
<1>4. ChannelBegun'
  BY <1>1, <1>3, ChannelStays DEF ParsedValid, ChannelStages, parsingChannel
<1>5. \A e : Passed(e) => Passed(e)'
  BY <1>1, <1>3, PassedStays DEF parsingChannel, workStages, ChannelStages
<1>6. ContextKnown'
  <2>1. chain = <<>>
    BY <1>1 DEF MInv, Linked
  <2>2. QED
    BY <1>1, <1>5, <2>1, ContextStays DEF ParsedValid, parsingChannel
<1>7. SoFarValid' /\ CachesValid'
  BY <1>1, SoFarStays, CachesStay DEF ParsedValid, CachesValid
<1>8. ChannelValidSoFar'
  <2>1. PICK c : c = ch.slot
    OBVIOUS
  <2>2. QED
    BY <1>1, <2>1, ValidStays DEF ParsedValid, ChannelValidSoFar
<1>9. Side.messages # <<>> \/ ch.slot.messages # <<>>
  <2>1. ChannelWritten(ch) /\ ChannelListed(ch.slot)
    BY <1>1, ChannelKnown DEF MInv, ChannelFilled, ParsedValid, ChannelStages
  <2>2. QED
    BY <1>1, <2>1, NothingMeant DEF ChannelListed
<1>10. ListValidSoFar'
  <2>1. \A i \in DOMAIN Side.messages : Side.messages[i] \in {x.slot : x \in ToSet(rest')}
    <3>1. TAKE i \in DOMAIN Side.messages
    <3>2. i \in DOMAIN Listed /\ Listed[i].slot = Side.messages[i]
      BY DEF Listed
    <3>3. Listed[i] \in ToSet(Listed)
      BY <3>2 DEF ToSet
    <3>4. QED
      BY <1>1, <3>2, <3>3
  <2>2. QED
    BY <1>1, <1>3, <1>9, <2>1 DEF ListValidSoFar
<1>11. QED
  BY <1>1, <1>3, <1>4, <1>6, <1>7, <1>8, <1>10 DEF ParsedValid, TraitsMergedValid

LEMMA EndListStaysValid ==
  ASSUME MInv, ParsedValid, EndList, stage' # "refused"
  PROVE  ParsedValid'
<1> DEFINE replies == side = "operation" /\ work.slot.reply # <<>>
<1>1. /\ stage = "list" /\ rest = <<>>
      /\ replies => side' = "reply" /\ stage' = "channel" /\ k' = k
      /\ ~replies => k' = k + 1 /\ stage' = "begin" /\ side' = side
      /\ UNCHANGED <<doc, work, ch, rest, chain, refs, channels, messages, paramName>>
  BY DEF EndList, Unless, Refuse, caches
<1>2. /\ k \in DOMAIN doc.ops /\ OneHop(doc.ops[k].slot) /\ work.slot = Target(doc.ops[k].slot)
      /\ work.slot.action \in {"send", "receive"} /\ TraitsValid(work.slot.fields, work.slot.traits)
      /\ side = "reply" => SideValid(work.slot)
      /\ k \in Nat \ {0} /\ side \in {"operation", "reply"}
  BY <1>1 DEF ParsedValid, OperationBegun, workStages, ChannelStages, MInv, Prepared, Settled
<1>3. SideValid(Side)
  <2>1. Side.channel # <<>> /\ Direct(Side.channel[1]) /\ ch.slot = Target(Side.channel[1])
    BY <1>1 DEF MInv, Prepared, ParsedValid, ChannelBegun, ChannelStages
  <2>2. ChannelObjectValid(ch.slot)
    BY <1>1 DEF ParsedValid, ChannelValidSoFar
  <2>3. ToSet(rest) = {}
    BY <1>1, EmptyIsSeq
  <2>4. \A i \in DOMAIN Side.messages : MessageValid(Side.messages[i])
    BY <1>1, <2>3 DEF ParsedValid, ListValidSoFar
  <2>5. Side.messages # <<>> \/ ch.slot.messages # <<>>
    BY <1>1 DEF ParsedValid, ListValidSoFar
  <2>6. QED
    BY <2>1, <2>2, <2>4, <2>5 DEF SideValid, ChannelValid
<1>4. SideValid(work.slot)
  BY <1>2, <1>3 DEF Side
<1>5. chain = <<>>
  BY <1>1 DEF MInv, Linked
<1>6. CachesValid'
  BY <1>1, CachesStay DEF ParsedValid, CachesValid
<1>7. ChannelBegun' /\ TraitsMergedValid' /\ ChannelValidSoFar' /\ ListValidSoFar'
  BY <1>1 DEF ChannelBegun, TraitsMergedValid, ChannelValidSoFar, ListValidSoFar, parsingChannel, ChannelStages
<1>8. CASE replies
  <2>1. OperationBegun'
    <3>1. PICK w, s : w = work.slot /\ s = doc.ops[k].slot
      OBVIOUS
    <3>2. /\ OneHop(s)' = OneHop(s) /\ Target(s)' = Target(s) /\ SideValid(w)' = SideValid(w)
          /\ TraitsValid(w.fields, w.traits)' = TraitsValid(w.fields, w.traits)
      BY <1>1, FitsStay, SlotsStay, ValidStays
    <3>3. QED
      BY <1>1, <1>2, <1>4, <1>8, <3>1, <3>2 DEF OperationBegun
  <2>2. SoFarValid'
    BY <1>1, <1>8, SoFarStays DEF ParsedValid
  <2>3. \A e : Passed(e) => Passed(e)'
    BY <1>1, <1>8 DEF Passed, parsingChannel, workStages, ChannelStages
  <2>4. ContextKnown'
    BY <1>1, <1>5, <1>8, <2>3, ContextStays DEF ParsedValid, parsingChannel
  <2>5. QED
    BY <1>6, <1>7, <2>1, <2>2, <2>4 DEF ParsedValid
<1>9. CASE ~replies
  <2>1. OperationValid(doc.ops[k].slot)
    <3>1. work.slot.reply # <<>> => SideValid(work.slot.reply[1])
      BY <1>2, <1>3, <1>9 DEF Side
    <3>2. QED
      BY <1>2, <1>4, <3>1 DEF OperationValid
  <2>2. SoFarValid'
    <3>1. k' - 1 = k /\ 1..k = 1..(k - 1) \cup {k}
      BY <1>1, <1>2, <1>9
    <3>2. \A n \in 1..(k' - 1) : OperationValid(doc.ops[n].slot)
      BY <2>1, <3>1 DEF ParsedValid, SoFarValid
    <3>3. \A n : OperationValid(doc.ops[n].slot)' = OperationValid(doc.ops[n].slot)
      <4>1. TAKE n
      <4>2. PICK s : s = doc.ops[n].slot
        OBVIOUS
      <4>3. QED
        BY <1>1, <4>2, ValidStays
    <3>4. PICK kk : kk = k'
      OBVIOUS
    <3>5. (\A n \in 1..(k - 1) : OperationValid(doc.ops[n].slot))'
      BY <1>1, <3>2, <3>3
    <3>6. QED
      BY <1>1, <1>9, <3>5, FitsStay, SlotsStay DEF ParsedValid, SoFarValid
  <2>3. \A e : Passed(e) => Passed(e)'
    <3>1. k' = k + 1 /\ stage' = "begin" /\ DOMAIN channels' = DOMAIN channels
      BY <1>1, <1>9
    <3>2. 1..(k - 1) \subseteq 1..(k' - 1) /\ k \in 1..(k' - 1)
      BY <1>2, <3>1
    <3>3. \A x : <<k, x>>[1] = k
      OBVIOUS
    <3>4. TAKE e
    <3>5. HAVE Passed(e)
    <3>6. \/ e[1][1] # empty /\ e[1][1] \in DOMAIN channels
          \/ e[1][1] = empty /\ e[1][2][1] \in 1..(k - 1)
          \/ e[1][1] = empty /\ e[1][2][1] = k
      BY <1>1, <3>3, <3>5 DEF Passed, parsingChannel
    <3>7. QED
      BY <3>1, <3>2, <3>6 DEF Passed
  <2>4. ContextKnown'
    BY <1>1, <1>5, <1>9, <2>3, ContextStays DEF ParsedValid, parsingChannel
  <2>5. OperationBegun'
    BY <1>1, <1>9 DEF OperationBegun, workStages, ChannelStages
  <2>6. QED
    BY <1>6, <1>7, <2>2, <2>4, <2>5 DEF ParsedValid
<1>10. QED
  BY <1>8, <1>9

LEMMA NextValid == Lists /\ MInv /\ KInv /\ AInv /\ [Next]_vars => AInv'
<1> SUFFICES ASSUME Lists, MInv, KInv, AInv, [Next]_vars PROVE AInv'
  OBVIOUS
<1>1. UNCHANGED doc /\ \A why : Cause(why)' = Cause(why)
  BY DocStays, CauseStays
<1>2. RefusedForCause <=> (stage = "refused" => Cause(reason))
  BY DEF RefusedForCause, Cause
<1>3. RefusedForCause' <=> (stage' = "refused" => Cause(reason)')
  BY DEF RefusedForCause, Cause
<1>4. PICK why : why = reason'
  OBVIOUS
<1>5. CASE UNCHANGED vars
  <2>1. UNCHANGED <<doc, stage, k, side, work, ch, rest, chain, refs, channels, messages, paramName, reason>>
    BY <1>5 DEF vars, caches
  <2>2. stage # "refused" => ParsedValid'
    <3>1. SUFFICES ASSUME stage # "refused" PROVE ParsedValid'
      OBVIOUS
    <3>2. ParsedValid
      BY <3>1 DEF AInv
    <3>3. /\ SoFarValid' /\ CachesValid' /\ OperationBegun' /\ ChannelBegun' /\ TraitsMergedValid'
          /\ ChannelValidSoFar' /\ ListValidSoFar' /\ \A e : Passed(e)' = Passed(e)
      BY <2>1, <3>2, PartsStay
    <3>4. References' = References /\ begun' = begun /\ TraitServers' = TraitServers
      BY <2>1, SlotsStay, SidesStay DEF begun
    <3>5. ContextKnown'
      BY <2>1, <3>2, <3>3, <3>4 DEF ParsedValid, ContextKnown, parsingChannel
    <3>6. QED
      BY <3>3, <3>5 DEF ParsedValid
  <2>3. RefusedForCause'
    BY <1>1, <1>2, <1>3, <2>1 DEF AInv
  <2>4. QED
    BY <2>1, <2>2, <2>3 DEF AInv
<1>6. CASE Next
  <2>1. stage # "refused"
    BY <1>6 DEF Next, CheckVersion, ParseServers, BeginOperation, Accept, LinkChannel, MergeChannelTrait,
       TraitsMerged, ParseParameter, ParametersParsed, EndChannel, ParseInline, UseCached,
       FollowReference, ParseTarget, ChooseMessages, EndList, parsesMessages
  <2>2. ParsedValid
    BY <2>1 DEF AInv
  <2>3. CASE stage' = "refused"
    <3>1. Cause(why)
      BY <1>4, <1>6, <2>1, <2>2, <2>3, NextCause
    <3>2. Cause(reason)'
      BY <1>1, <1>4, <3>1 DEF Cause
    <3>3. QED
      BY <1>3, <2>3, <3>2 DEF AInv
  <2>4. CASE stage' # "refused"
    <3>1. ParsedValid'
      BY <1>6, <2>2, <2>4, IdleStaysValid, BeginStaysValid, LinkStaysValid, TraitStaysValid,
         TraitsMergedStaysValid, ParameterStaysValid, ParametersParsedStaysValid, EndChannelStaysValid,
         InlineStaysValid, CachedStaysValid, FollowStaysValid, TargetStaysValid, ChooseStaysValid,
         EndListStaysValid DEF Next
    <3>2. QED
      BY <1>3, <2>4, <3>1 DEF AInv
  <2>5. QED
    BY <2>3, <2>4
<1>7. QED
  BY <1>5, <1>6

(* An accepted document is valid, and a refused one is invalid, refers     *)
(* back to itself, names a second server in channel traits, or follows a   *)
(* very long chain, whatever order Parse took and whatever it had cached   *)
(* (Parse, parser.go 115; the caches of parse_operation.go; traits.go 177). *)
THEOREM AcceptedWhenValid == Spec => []AcceptedIffValid
<1>1. Init => Lists /\ MInv /\ KInv /\ AInv
  BY InitLists, InitAsWritten, InitReferred, InitIsValid
<1>2. Lists /\ MInv /\ KInv /\ AInv /\ [Next]_vars => (Lists /\ MInv /\ KInv /\ AInv)'
  BY NextLists, NextAsWritten, NextReferred, NextValid
<1>3. MInv /\ AInv => AcceptedIffValid
  <2> SUFFICES ASSUME MInv, AInv, stage = "accepted" PROVE Valid
    BY DEF AcceptedIffValid, AcceptedIsValid, AInv
  <2>1. SoFarValid /\ k > Len(doc.ops)
    BY DEF AInv, ParsedValid, SoFarValid
  <2>2. DOMAIN doc.ops = 1..Len(doc.ops) /\ Len(doc.ops) \in Nat /\ k \in Nat
    BY ListedDocument, SeqLen DEF MInv, Settled
  <2>3. \A n \in DOMAIN doc.ops : n \in 1..(k - 1)
    BY <2>1, <2>2
  <2>4. QED
    BY <2>1, <2>3 DEF SoFarValid, Valid
<1>4. QED
  BY <1>1, <1>2, <1>3, PTL DEF Spec

-----------------------------------------------------------------------------
(* Names.                                                                  *)

\* The name a schema has is its own; one that has none found no candidate free.
NamedSo(ref, name) ==
  IF ref \in DOMAIN refNames THEN refNames[ref] = name ELSE Free(ref) = {}

Typed(ref) == refNames[ref] \in DOMAIN types /\ types[refNames[ref]] = Schema(ref)
Made(ref) == [name |-> refNames[ref], is |-> Schema(ref)] \in fresh

\* While a message is named its envelope is among its types, and a schema
\* whose name was just taken too.
Drafted ==
  phase = "naming" =>
    /\ Head(left).id \notin DOMAIN built
    /\ [name |-> Ident(Head(left).name), is |-> Envelope(Head(left).id)] \in fresh
    /\ \A t \in fresh : t.is.kind = "schema" => NamedSo(t.is.of, t.name)

Names ==
  /\ \A a \in DOMAIN built : built[a] \in DOMAIN types /\ types[built[a]] = Envelope(a)
  /\ \A r \in DOMAIN refNames : refNames[r] \in reserved
  /\ \A r, s \in DOMAIN refNames : r # s => refNames[r] # refNames[s]
  /\ \A n \in DOMAIN types : types[n].kind = "schema" => NamedSo(types[n].of, n)
  /\ \A r \in DOMAIN refNames : Typed(r) \/ (phase = "naming" /\ Made(r))

NInv == phase # "failed" => Drafted /\ Names

LEMMA InitNames == BInit => NInv
<1>1. DOMAIN <<>> = {}
  OBVIOUS
<1>2. QED
  BY <1>1 DEF BInit, NInv, Drafted, Names

LEMMA OneTypeFromNames == NInv => OneTypePerThing
<1> SUFFICES ASSUME NInv, phase # "failed" PROVE OneTypePerThing
  BY DEF OneTypePerThing
<1>1. \A a, b : Envelope(a) = Envelope(b) => a = b
  BY DEF Envelope
<1>2. \A a \in DOMAIN built : types[built[a]] = Envelope(a)
  BY DEF NInv, Names
<1>3. \A a, b \in DOMAIN built : a # b => built[a] # built[b]
  BY <1>1, <1>2
<1>4. phase # "naming" => \A r \in DOMAIN refNames : types[refNames[r]] = Schema(r)
  BY DEF NInv, Names, Typed
<1>5. QED
  BY <1>2, <1>3, <1>4 DEF OneTypePerThing, NInv, Names

\* What was stored, named and drafted does not depend on anything else.
LEMMA NamesStay ==
  ASSUME NInv, UNCHANGED <<draft, storage>>, phase # "failed",
         phase' # "naming" \/ (phase = "naming" /\ UNCHANGED left),
         phase = "naming" => phase' \in {"naming", "failed"}
  PROVE  NInv'
<1>1. Drafted /\ Names /\ UNCHANGED <<naming, fresh, built, types, reserved, refNames>>
  BY DEF NInv, draft, storage
<1>2. \A r : Free(r)' = Free(r)
  BY <1>1 DEF Free
<1>3. \A r, n : NamedSo(r, n)' <=> NamedSo(r, n)
  BY <1>1, <1>2 DEF NamedSo
<1>4. \A r : (Typed(r)' <=> Typed(r)) /\ (Made(r)' <=> Made(r))
  BY <1>1 DEF Typed, Made
<1>5. phase' # "failed" => Names'
  BY <1>1, <1>3, <1>4 DEF Names
<1>6. Drafted'
  BY <1>1, <1>3 DEF Drafted
<1>7. QED
  BY <1>5, <1>6 DEF NInv

\* More reserved names leave fewer free.
LEMMA ReservedGrows ==
  ASSUME reserved \subseteq reserved'
  PROVE  \A r : Free(r)' \subseteq Free(r)
BY DEF Free

LEMMA FailNames == NInv /\ Fail => NInv'
BY DEF NInv, Fail

LEMMA ReserveNames ==
  ASSUME NInv, phase \notin {"naming", "failed"}, phase' \notin {"naming"},
         UNCHANGED <<built, types, refNames>>, reserved \subseteq reserved'
  PROVE  NInv'
<1>1. Names
  BY DEF NInv
<1>2. \A r : Free(r)' \subseteq Free(r)
  BY ReservedGrows
<1>3. \A r, n : NamedSo(r, n) => NamedSo(r, n)'
  BY <1>2 DEF NamedSo
<1>4. \A r : Typed(r)' <=> Typed(r)
  BY DEF Typed
<1>5. Names'
  BY <1>1, <1>3, <1>4 DEF Names
<1>6. QED
  BY <1>5 DEF NInv, Drafted

LEMMA BeginMessageNames == NInv /\ BeginMessage => NInv'
<1> SUFFICES ASSUME NInv, BeginMessage PROVE NInv'
  OBVIOUS
<1> DEFINE m == Head(left)
<1>1. CASE Fail
  BY <1>1, FailNames
<1>2. CASE ~Fail
  <2>1. /\ phase = "message" /\ phase' = "naming" /\ fresh' = OwnTypes(m)
        /\ m.id \notin DOMAIN built
        /\ reserved \subseteq reserved' /\ UNCHANGED <<left, built, types, refNames>>
    BY <1>2 DEF BeginMessage
  <2>2. Names
    BY <2>1 DEF NInv
  <2>3. \A r, n : NamedSo(r, n) => NamedSo(r, n)'
    BY <2>1, ReservedGrows DEF NamedSo
  <2>4. \A r : Typed(r)' <=> Typed(r)
    BY <2>1 DEF Typed
  <2>5. Names'
    BY <2>1, <2>2, <2>3, <2>4 DEF Names
  <2>6. /\ [name |-> Ident(m.name), is |-> Envelope(m.id)] \in OwnTypes(m)
        /\ \A t \in OwnTypes(m) : t.is.kind # "schema"
    BY DEF OwnTypes, Envelope, Payload
  <2>7. Drafted'
    BY <2>1, <2>6 DEF Drafted
  <2>8. QED
    BY <2>5, <2>7 DEF NInv
<1>3. QED
  BY <1>1, <1>2

LEMMA NameRefNames == NInv /\ NameRef => NInv'
<1> SUFFICES ASSUME NInv, NameRef PROVE NInv'
  OBVIOUS
<1>0. PICK ref : ref = Head(naming)
  OBVIOUS
<1>1. /\ phase = "naming" /\ UNCHANGED <<phase, left, built, types>>
      /\ KeepName(ref) \/ TakeName(ref)
  BY <1>0 DEF NameRef
<1>2. Drafted /\ Names
  BY <1>1 DEF NInv
<1>3. CASE KeepName(ref)
  <2> DEFINE kept == [name |-> IF ref \in DOMAIN refNames THEN refNames[ref] ELSE Ident(ref),
                      is |-> Schema(ref)]
  <2>1. /\ fresh \subseteq fresh' /\ fresh' \subseteq fresh \cup {kept}
        /\ UNCHANGED <<reserved, refNames>>
        /\ ref \in DOMAIN refNames \/ Free(ref) = {}
    BY <1>3 DEF KeepName
  <2>2. \A r : Free(r)' = Free(r)
    BY <2>1 DEF Free
  <2>3. \A r, n : NamedSo(r, n)' <=> NamedSo(r, n)
    BY <2>1, <2>2 DEF NamedSo
  <2>4. \A r : (Typed(r)' <=> Typed(r)) /\ (Made(r) => Made(r)')
    BY <1>1, <2>1 DEF Typed, Made
  <2>5. kept.is.of = ref /\ NamedSo(ref, kept.name)
    BY <2>1 DEF NamedSo, Schema
  <2>6. Names'
    BY <1>1, <1>2, <2>1, <2>3, <2>4 DEF Names
  <2> HIDE DEF kept
  <2>7. Drafted'
    BY <1>1, <1>2, <2>1, <2>3, <2>5 DEF Drafted
  <2>8. QED
    BY <2>6, <2>7 DEF NInv
<1>4. CASE TakeName(ref)
  <2> DEFINE new(name) == [r \in {ref} |-> name]
  <2>1. PICK i \in Free(ref) :
          /\ refNames' = Overlay(new(Tails[ref][i]), refNames)
          /\ reserved' = reserved \cup {Tails[ref][i]}
          /\ fresh' = fresh \cup {[name |-> Tails[ref][i], is |-> Schema(ref)]}
    BY <1>4 DEF TakeName
  <2>0. PICK name : name = Tails[ref][i]
    OBVIOUS
  <2>2. ref \notin DOMAIN refNames /\ name \notin reserved /\ Free(ref) # {}
    BY <1>4, <2>0, <2>1 DEF TakeName, Free
  <2>3. /\ DOMAIN refNames' = DOMAIN refNames \cup {ref} /\ refNames'[ref] = name
        /\ \A r \in DOMAIN refNames : refNames'[r] = refNames[r]
    BY <2>0, <2>1, <2>2 DEF Overlay
  <2>4. reserved \subseteq reserved' /\ name \in reserved' /\ fresh \subseteq fresh'
    BY <2>0, <2>1
  <2>5. [name |-> name, is |-> Schema(ref)] \in fresh' /\ fresh' \subseteq fresh \cup {[name |-> name, is |-> Schema(ref)]}
    BY <2>0, <2>1
  <2> HIDE DEF new
  <2>6. \A r, n : r # ref /\ NamedSo(r, n) => NamedSo(r, n)'
    BY <2>3, <2>4, ReservedGrows DEF NamedSo
  <2>7. \A n : ~NamedSo(ref, n)
    BY <2>2 DEF NamedSo
  <2>8. NamedSo(ref, name)'
    <3>1. refNames'[ref] = name /\ ref \in DOMAIN refNames'
      BY <2>3
    <3>2. QED
      BY <3>1 DEF NamedSo
  <2>9. \A n \in DOMAIN types : types[n].kind = "schema" => NamedSo(types[n].of, n)'
    BY <1>1, <1>2, <2>6, <2>7 DEF Names
  <2>10. \A r \in DOMAIN refNames' : Typed(r)' \/ Made(r)'
    <3>1. \A r \in DOMAIN refNames : Typed(r) \/ Made(r)
      BY <1>2 DEF Names
    <3>2. \A r \in DOMAIN refNames : Typed(r) => Typed(r)'
      BY <1>1, <2>3 DEF Typed
    <3>3. \A r \in DOMAIN refNames : Made(r) => Made(r)'
      BY <2>3, <2>4 DEF Made
    <3>4. Made(ref)'
      BY <2>3, <2>5 DEF Made
    <3>5. QED
      BY <2>3, <3>1, <3>2, <3>3, <3>4
  <2>11. /\ \A r \in DOMAIN refNames' : refNames'[r] \in reserved'
         /\ \A r, s \in DOMAIN refNames' : r # s => refNames'[r] # refNames'[s]
    BY <1>2, <2>2, <2>3, <2>4 DEF Names
  <2>12. Names'
    BY <1>1, <1>2, <2>9, <2>10, <2>11 DEF Names
  <2>13. \A t \in fresh' : t.is.kind = "schema" => NamedSo(t.is.of, t.name)'
    <3>1. \A t \in fresh : t.is.kind = "schema" => NamedSo(t.is.of, t.name)
      BY <1>1, <1>2 DEF Drafted
    <3>2. \A t \in fresh : t.is.kind = "schema" => NamedSo(t.is.of, t.name)'
      BY <2>6, <2>7, <3>1
    <3>3. \A t : t = [name |-> name, is |-> Schema(ref)] => t.is.of = ref /\ t.name = name
      BY DEF Schema
    <3>4. QED
      BY <2>5, <2>8, <3>2, <3>3
  <2>14. Drafted'
    BY <1>1, <1>2, <2>4, <2>13 DEF Drafted
  <2>15. QED
    BY <2>12, <2>14 DEF NInv
<1>5. QED
  BY <1>1, <1>3, <1>4

\* What FreshTypes stores: each type of the draft under its own name.
LEMMA FreshOnce ==
  ASSUME ~Collide
  PROVE  /\ DOMAIN FreshTypes = {t.name : t \in fresh}
         /\ \A t \in fresh : FreshTypes[t.name] = t.is /\ t.name \notin DOMAIN types
<1>1. \A t, u \in fresh : t.name = u.name => t = u
  BY DEF Collide
<1>2. ASSUME NEW t \in fresh PROVE FreshTypes[t.name] = t.is
  <2>1. (CHOOSE u \in fresh : u.name = t.name) = t
    BY <1>1
  <2>2. QED
    BY <2>1 DEF FreshTypes
<1>3. QED
  BY <1>2 DEF FreshTypes, Collide

LEMMA SaveMessageNames == NInv /\ SaveMessage => NInv'
<1> SUFFICES ASSUME NInv, SaveMessage PROVE NInv'
  OBVIOUS
<1> DEFINE m == Head(left)
           one == [x \in {m.id} |-> Ident(m.name)]
<1>1. CASE Collide
  BY <1>1, FailNames DEF SaveMessage
<1>2. CASE ~Collide
  <2>1. /\ phase = "naming" /\ phase' = "message" /\ UNCHANGED <<reserved, refNames>>
        /\ types' = Overlay(FreshTypes, types)
        /\ built' = Overlay(one, built)
    BY <1>2 DEF SaveMessage
  <2>2. Drafted /\ Names
    BY <2>1 DEF NInv
  <2>3. /\ DOMAIN types' = DOMAIN types \cup {t.name : t \in fresh}
        /\ \A n \in DOMAIN types : types'[n] = types[n]
        /\ \A t \in fresh : types'[t.name] = t.is
    <3>1. /\ DOMAIN FreshTypes = {t.name : t \in fresh}
          /\ \A t \in fresh : FreshTypes[t.name] = t.is /\ t.name \notin DOMAIN types
      BY <1>2, FreshOnce
    <3>2. QED
      BY <2>1, <3>1 DEF Overlay
  <2>4. /\ DOMAIN built' = DOMAIN built \cup {m.id} /\ built'[m.id] = Ident(m.name)
        /\ \A a \in DOMAIN built : a # m.id => built'[a] = built[a]
    BY <2>1 DEF Overlay
  <2>5. \A a \in DOMAIN built' : built'[a] \in DOMAIN types' /\ types'[built'[a]] = Envelope(a)
    <3>1. m.id \notin DOMAIN built
      BY <2>1, <2>2 DEF Drafted
    <3>2. Ident(m.name) \in DOMAIN types' /\ types'[Ident(m.name)] = Envelope(m.id)
      <4>1. PICK t \in fresh : t = [name |-> Ident(m.name), is |-> Envelope(m.id)]
        BY <2>1, <2>2 DEF Drafted
      <4>2. t.name = Ident(m.name) /\ t.is = Envelope(m.id)
        BY <4>1
      <4>3. QED
        BY <2>3, <4>2
    <3>3. \A a \in DOMAIN built : built[a] \in DOMAIN types' /\ types'[built[a]] = Envelope(a)
      BY <2>2, <2>3 DEF Names
    <3>4. QED
      BY <2>4, <3>1, <3>2, <3>3
  <2>6. \A r : Free(r)' = Free(r)
    BY <2>1 DEF Free
  <2>7. \A r, n : NamedSo(r, n)' <=> NamedSo(r, n)
    BY <2>1, <2>6 DEF NamedSo
  <2>8. \A n \in DOMAIN types' : types'[n].kind = "schema" => NamedSo(types'[n].of, n)
    BY <2>1, <2>2, <2>3 DEF Names, Drafted
  <2>9. \A r \in DOMAIN refNames : Typed(r)'
    <3>1. \A r \in DOMAIN refNames : Typed(r) => Typed(r)'
      BY <2>1, <2>3 DEF Typed
    <3>2. \A r \in DOMAIN refNames : Made(r) => Typed(r)'
      <4>1. SUFFICES ASSUME NEW r \in DOMAIN refNames, Made(r) PROVE Typed(r)'
        OBVIOUS
      <4>2. PICK t \in fresh : t = [name |-> refNames[r], is |-> Schema(r)]
        BY <4>1 DEF Made
      <4>3. t.name = refNames[r] /\ t.is = Schema(r)
        BY <4>2
      <4>4. QED
        BY <2>1, <2>3, <4>3 DEF Typed
    <3>3. QED
      BY <2>2, <3>1, <3>2 DEF Names
  <2>10. Names'
    BY <2>1, <2>2, <2>5, <2>7, <2>8, <2>9 DEF Names
  <2>11. QED
    BY <2>1, <2>10 DEF NInv, Drafted
<1>3. QED
  BY <1>1, <1>2

LEMMA EndNames == NInv /\ (EndSingle \/ EndShared \/ EndSum) => NInv'
<1> SUFFICES ASSUME NInv, EndSingle \/ EndShared \/ EndSum PROVE NInv'
  OBVIOUS
<1>1. CASE Fail
  BY <1>1, FailNames
<1>2. CASE ~Fail /\ (EndSingle \/ EndShared)
  <2>1. /\ phase = "message" /\ phase' = "operation" /\ UNCHANGED <<draft, storage>>
    BY <1>2 DEF EndSingle, EndShared, Finished, Ending, draft, storage
  <2>2. QED
    BY <2>1, NamesStay
<1>3. CASE ~Fail /\ EndSum
  <2> DEFINE iface == Interface(op)
             one == [n \in {iface} |-> SumOf(op.name)]
  <2>1. /\ phase = "message" /\ phase' = "operation"
        /\ iface \notin DOMAIN types
        /\ types' = Overlay(one, types) /\ UNCHANGED <<built, reserved, refNames>>
    BY <1>3 DEF EndSum, Finished, Ending
  <2>2. Names
    BY <2>1 DEF NInv
  <2>3. /\ DOMAIN types' = DOMAIN types \cup {iface}
        /\ \A n \in DOMAIN types : types'[n] = types[n]
        /\ types'[iface].kind # "schema"
    BY <2>1 DEF Overlay, SumOf
  <2> HIDE DEF iface, one
  <2>4. \A r : Free(r)' = Free(r)
    BY <2>1 DEF Free
  <2>5. \A r, n : NamedSo(r, n)' <=> NamedSo(r, n)
    BY <2>1, <2>4 DEF NamedSo
  <2>6. \A n \in DOMAIN types' : types'[n].kind = "schema" => NamedSo(types'[n].of, n)
    BY <2>2, <2>3 DEF Names
  <2>7. \A r : Typed(r) => Typed(r)'
    BY <2>1, <2>3 DEF Typed
  <2>8. \A a \in DOMAIN built : built[a] \in DOMAIN types' /\ types'[built[a]] = Envelope(a)
    BY <2>2, <2>3 DEF Names
  <2>9. \A r \in DOMAIN refNames : Typed(r)'
    BY <2>1, <2>2, <2>7 DEF Names
  <2>10. Names'
    BY <2>1, <2>2, <2>5, <2>6, <2>8, <2>9 DEF Names
  <2>11. QED
    BY <2>1, <2>10 DEF NInv, Drafted
<1>4. QED
  BY <1>1, <1>2, <1>3

LEMMA NextNames == NInv /\ [BNext]_<<vars, gvars>> => NInv'
<1> SUFFICES ASSUME NInv, [BNext]_<<vars, gvars>> PROVE NInv'
  OBVIOUS
<1>1. CASE UNCHANGED gvars
  <2>1. UNCHANGED <<phase, left, draft, storage>>
    BY <1>1 DEF gvars
  <2>2. CASE phase = "failed"
    BY <2>1, <2>2 DEF NInv
  <2>3. CASE phase # "failed"
    BY <2>1, <2>3, NamesStay
  <2>4. QED
    BY <2>2, <2>3
<1>2. CASE Start
  <2>1. phase = "wait" /\ phase' = "operation" /\ UNCHANGED <<draft, storage>>
    BY <1>2 DEF Start
  <2>2. QED
    BY <2>1, NamesStay
<1>3. CASE BeginBuild
  <2>1. /\ phase = "operation" /\ phase' = "message" /\ reserved \subseteq reserved'
        /\ UNCHANGED <<built, types, refNames>>
    BY <1>3 DEF BeginBuild
  <2>2. QED
    BY <2>1, ReserveNames
<1>4. CASE ReuseMessage
  <2>1. phase = "message" /\ UNCHANGED <<phase, draft, storage>>
    BY <1>4 DEF ReuseMessage
  <2>2. QED
    BY <2>1, NamesStay
<1>5. CASE EndBuild
  <2>1. phase = "operation" /\ phase' = "built" /\ UNCHANGED <<draft, storage>>
    BY <1>5 DEF EndBuild
  <2>2. QED
    BY <2>1, NamesStay
<1>6. QED
  BY <1>1, <1>2, <1>3, <1>4, <1>5, BeginMessageNames, NameRefNames, SaveMessageNames, EndNames
     DEF BNext

LEMMA NamesKept == BSpec => []NInv
<1>1. BInit => NInv
  BY InitNames
<1>2. NInv /\ [BNext]_<<vars, gvars>> => NInv'
  BY NextNames
<1>3. QED
  BY <1>1, <1>2, PTL DEF BSpec

(* No two messages and no two schemas end up in one Go type, and a named   *)
(* schema has the type of its name (nameSchemaRef, gen/generator.go, and   *)
(* saveType of the type storage).                                          *)
THEOREM NamesAreTheirOwn == BSpec => []OneTypePerThing
BY NamesKept, OneTypeFromNames, PTL

-----------------------------------------------------------------------------
(* Sum interfaces.                                                         *)

AllBuilt(o) == \A m \in ToSet(o.messages) : m.id \in DOMAIN built
Marked(o, iface) == \A e \in Envelopes(o) : <<e, iface>> \in implements

\* The messages of the operation in work are built or still to come.
InWork ==
  /\ next \in Nat
  /\ phase \in {"message", "naming"} =>
       /\ IsSeq(left) /\ (phase = "naming" => left # <<>>)
       /\ \A m \in ToSet(op.messages) : m.id \in DOMAIN built \/ m \in ToSet(left)

\* Every interface was made for an operation whose messages all implement it,
\* and is the one its message set has from then on.
Summed ==
  /\ IsSeq(operations)
  /\ \A o \in ToSet(operations) : AllBuilt(o.op)
  /\ \A o \in ToSet(operations) :
       Several(o.op) => SetKey(o.op) \in DOMAIN sums /\ o.sum = sums[SetKey(o.op)]
  /\ \A key \in DOMAIN sums :
       \E p \in ToSet(operations) : SetKey(p.op) = key /\ Marked(p.op, sums[key])

SInv == Lists /\ InWork /\ Summed

LEMMA InitSums == BInit => SInv
<1>1. DOMAIN <<>> = {}
  OBVIOUS
<1>2. QED
  BY <1>1, InitLists, EmptyIsSeq DEF BInit, SInv, InWork, Summed

LEMMA ImplementedFromSums == SInv => SumsImplemented
<1> SUFFICES ASSUME SInv,
                    NEW o \in ToSet(operations),
                    Several(o.op), ~NamesakesElsewhere(o.op),
                    NEW e \in Envelopes(o.op)
             PROVE  <<e, o.sum>> \in implements
  BY DEF SumsImplemented
<1>1. SetKey(o.op) \in DOMAIN sums /\ o.sum = sums[SetKey(o.op)]
  BY DEF SInv, Summed
<1>2. PICK p \in ToSet(operations) : SetKey(p.op) = SetKey(o.op) /\ Marked(p.op, o.sum)
  BY <1>1 DEF SInv, Summed
<1>3. {m.id : m \in ToSet(p.op.messages)} = {m.id : m \in ToSet(o.op.messages)}
  BY <1>2 DEF NamesakesElsewhere
<1>4. e \in Envelopes(p.op)
  <2>1. PICK m \in ToSet(o.op.messages) : e = built[m.id]
    BY DEF Envelopes
  <2>2. PICK n \in ToSet(p.op.messages) : n.id = m.id
    BY <1>3, <2>1
  <2>3. QED
    BY <2>1, <2>2 DEF Envelopes
<1>5. QED
  BY <1>2, <1>4 DEF Marked

\* What was built stays so, and so does what was said of it.
Kept == \A a \in DOMAIN built : a \in DOMAIN built' /\ built'[a] = built[a]

LEMMA BuiltStays ==
  ASSUME Kept, NEW o, AllBuilt(o)
  PROVE  /\ AllBuilt(o)' /\ Envelopes(o)' = Envelopes(o)
         /\ \A iface : Marked(o, iface) /\ implements \subseteq implements' => Marked(o, iface)'
<1>1. \A m \in ToSet(o.messages) : m.id \in DOMAIN built' /\ built'[m.id] = built[m.id]
  BY DEF AllBuilt, Kept
<1>2. Envelopes(o)' = Envelopes(o)
  BY <1>1 DEF Envelopes
<1>3. AllBuilt(o)'
  BY <1>1 DEF AllBuilt
<1>4. QED
  BY <1>2, <1>3 DEF Marked

LEMMA SummedStays ==
  ASSUME Summed, Kept, UNCHANGED results
  PROVE  Summed'
<1>1. UNCHANGED <<operations, sums, implements>>
  BY DEF results
<1>2. \A o \in ToSet(operations) : AllBuilt(o.op)
  BY DEF Summed
<1>3. \A o \in ToSet(operations) :
        /\ AllBuilt(o.op)'
        /\ \A iface : Marked(o.op, iface) => Marked(o.op, iface)'
  BY <1>1, <1>2, BuiltStays
<1>4. \A o \in ToSet(operations) :
        Several(o.op) => SetKey(o.op) \in DOMAIN sums /\ o.sum = sums[SetKey(o.op)]
  BY DEF Summed
<1>5. \A key \in DOMAIN sums :
        \E p \in ToSet(operations) : SetKey(p.op) = key /\ Marked(p.op, sums[key])'
  BY <1>1, <1>3 DEF Summed
<1>6. QED
  BY <1>1, <1>3, <1>4, <1>5 DEF Summed

LEMMA ListsStay == Lists /\ UNCHANGED vars => Lists'
BY NextLists

LEMMA BeginBuildSums == SInv /\ BeginBuild => SInv'
<1> SUFFICES ASSUME SInv, BeginBuild PROVE SInv'
  OBVIOUS
<1>1. PICK i \in Upcoming : /\ op' = ToBuild(i) /\ left' = ToBuild(i).messages
                            /\ next' = i /\ phase' = "message"
                            /\ UNCHANGED <<vars, built, results>>
  BY DEF BeginBuild
<1>0. op'.messages = left'
  BY <1>1
<1>2. IsSeq(api) /\ \A o \in ToSet(api) : Complete(o)
  BY DEF SInv, Lists
<1>3. i \in Nat /\ IsSeq(ToBuild(i).messages)
  <2>1. DOMAIN api = 1..Len(api) /\ Len(api) \in Nat
    <3>1. api \in Seq(ToSet(api))
      BY <1>2 DEF IsSeq
    <3>2. QED
      BY <3>1, LenProperties
  <2>2. i \in Nat /\ 1 <= i /\ i <= 2 * Len(api)
    BY <2>1 DEF Upcoming, SInv, InWork
  <2>3. CASE i <= Len(api)
    <3>1. Complete(api[i])
      BY <1>2, <2>1, <2>2, <2>3 DEF ToSet
    <3>2. ToBuild(i) = Plain(api[i]) /\ Plain(api[i]).messages = api[i].messages
      BY <2>3 DEF ToBuild, Plain
    <3>3. QED
      BY <2>2, <3>1, <3>2 DEF Complete, HasList
  <2>4. CASE ~(i <= Len(api))
    <3>1. i - Len(api) \in DOMAIN api
      BY <2>1, <2>2, <2>4
    <3>2. Complete(api[i - Len(api)])
      BY <1>2, <3>1 DEF ToSet
    <3>3. /\ ToBuild(i) = Reply(api[i - Len(api)])
          /\ Reply(api[i - Len(api)]).messages = api[i - Len(api)].replyMessages
      BY <2>4 DEF ToBuild, Reply
    <3>4. QED
      BY <2>2, <3>2, <3>3 DEF Complete, HasList
  <2>5. QED
    BY <2>2, <2>3, <2>4
<1>4. Kept
  BY <1>1 DEF Kept
<1>5. Summed'
  BY <1>1, <1>4, SummedStays DEF SInv
<1>6. InWork'
  BY <1>0, <1>1, <1>3 DEF InWork
<1>7. Lists'
  BY <1>1, ListsStay DEF SInv
<1>8. QED
  BY <1>5, <1>6, <1>7 DEF SInv

LEMMA MessageSums == NInv /\ SInv /\ (ReuseMessage \/ BeginMessage \/ NameRef \/ SaveMessage) => SInv'
<1> SUFFICES ASSUME NInv, SInv, ReuseMessage \/ BeginMessage \/ NameRef \/ SaveMessage PROVE SInv'
  OBVIOUS
<1>1. /\ phase \in {"message", "naming"} /\ phase' \in {"message", "naming", "failed"}
      /\ UNCHANGED <<vars, next, op, results>>
  BY DEF ReuseMessage, BeginMessage, NameRef, SaveMessage, Fail
<1>2. InWork'
  <2>1. CASE phase' = "failed"
    BY <1>1, <2>1 DEF SInv, InWork
  <2>2. CASE UNCHANGED <<left, built>> /\ left # <<>>
    BY <1>1, <2>2 DEF SInv, InWork
  <2>3. CASE left # <<>> /\ left' = Tail(left) /\ Head(left).id \in DOMAIN built' /\ Kept
                                /\ phase' = "message"
    <3>1. IsSeq(left) /\ \A m \in ToSet(op.messages) : m.id \in DOMAIN built \/ m \in ToSet(left)
      BY <1>1 DEF SInv, InWork
    <3>2. IsSeq(left') /\ ToSet(left) = {Head(left)} \cup ToSet(left')
      BY <2>3, <3>1, TailIsSeq
    <3>3. \A m \in ToSet(op.messages) : m.id \in DOMAIN built' \/ m \in ToSet(left')
      BY <2>3, <3>1, <3>2 DEF Kept
    <3>4. QED
      BY <1>1, <2>3, <3>2, <3>3 DEF SInv, InWork
  <2>4. CASE ReuseMessage
    <3>1. left # <<>> /\ left' = Tail(left) /\ Head(left).id \in DOMAIN built' /\ Kept /\ phase' = "message"
      BY <2>4 DEF ReuseMessage, Kept, storage
    <3>2. QED
      BY <2>3, <3>1
  <2>5. CASE BeginMessage \/ NameRef
    <3>1. phase' = "failed" \/ (UNCHANGED <<left, built>> /\ left # <<>>)
      BY <2>5 DEF BeginMessage, NameRef, Fail, SInv, InWork
    <3>2. QED
      BY <2>1, <2>2, <3>1
  <2>6. CASE SaveMessage
    <3>1. CASE Collide
      BY <2>1, <2>6, <3>1 DEF SaveMessage, Fail
    <3>2. CASE ~Collide
      <4>1. /\ phase = "naming" /\ left' = Tail(left) /\ phase' = "message"
            /\ built' = Overlay([x \in {Head(left).id} |-> Ident(Head(left).name)], built)
        BY <2>6, <3>2 DEF SaveMessage
      <4>2. left # <<>> /\ Head(left).id \notin DOMAIN built
        BY <4>1 DEF SInv, InWork, NInv, Drafted
      <4>3. Head(left).id \in DOMAIN built' /\ Kept
        BY <4>1, <4>2 DEF Overlay, Kept
      <4>4. QED
        BY <2>3, <4>1, <4>2, <4>3
    <3>3. QED
      BY <3>1, <3>2
  <2>7. QED
    BY <2>4, <2>5, <2>6
<1>3. Kept
  <2>1. CASE UNCHANGED built
    BY <2>1 DEF Kept
  <2>2. CASE ~UNCHANGED built
    <3>1. /\ phase = "naming" /\ \E x : built' = Overlay([y \in {Head(left).id} |-> x], built)
      BY <2>2 DEF ReuseMessage, BeginMessage, NameRef, SaveMessage, Fail, storage
    <3>2. Head(left).id \notin DOMAIN built
      BY <3>1 DEF NInv, Drafted
    <3>3. QED
      BY <3>1, <3>2 DEF Overlay, Kept
  <2>3. QED
    BY <2>1, <2>2
<1>4. Summed'
  BY <1>1, <1>3, SummedStays DEF SInv
<1>5. Lists'
  BY <1>1, ListsStay DEF SInv
<1>6. QED
  BY <1>2, <1>4, <1>5 DEF SInv

LEMMA FailSums == SInv /\ Fail => SInv'
<1> SUFFICES ASSUME SInv, Fail PROVE SInv'
  OBVIOUS
<1>1. phase' = "failed" /\ UNCHANGED <<vars, next, built, results>>
  BY DEF Fail, storage
<1>2. Summed'
  BY <1>1, SummedStays DEF SInv, Kept
<1>3. QED
  BY <1>1, <1>2, ListsStay DEF SInv, InWork

\* The operation in work becomes one of the operations built.
LEMMA FinishedSums ==
  ASSUME SInv, Ending, NEW iface, Finished(op, iface),
         implements \subseteq implements',
         \A key \in DOMAIN sums : key \in DOMAIN sums' /\ sums'[key] = sums[key],
         \A key \in DOMAIN sums' :
           key \in DOMAIN sums \/ (key = SetKey(op) /\ Marked(op, sums[key])'),
         Several(op) => SetKey(op) \in DOMAIN sums' /\ iface = sums'[SetKey(op)]
  PROVE  SInv'
<1>1. PICK o : o = [name |-> Ident(op.name), op |-> op, sum |-> iface]
  OBVIOUS
<1>2. /\ operations' = Append(operations, o) /\ phase' = "operation"
      /\ UNCHANGED <<vars, next, op, built>>
  BY <1>1 DEF Finished
<1>3. IsSeq(operations') /\ ToSet(operations') = ToSet(operations) \cup {o}
  BY <1>2, AppendIsSeq DEF SInv, Summed
<1>4. AllBuilt(op)
  BY EmptyIsSeq DEF Ending, SInv, InWork, AllBuilt
<1>5. Kept
  BY <1>2 DEF Kept
<1>6. \A p \in ToSet(operations) :
        AllBuilt(p.op)' /\ \A f : Marked(p.op, f) => Marked(p.op, f)'
  BY <1>5, BuiltStays DEF SInv, Summed
<1>7. AllBuilt(o.op)'
  BY <1>1, <1>2, <1>4 DEF AllBuilt
<1>8. \A p \in ToSet(operations') :
        Several(p.op) => SetKey(p.op) \in DOMAIN sums' /\ p.sum = sums'[SetKey(p.op)]
  BY <1>1, <1>3 DEF SInv, Summed
<1>9. \A key \in DOMAIN sums' :
        \E p \in ToSet(operations') : SetKey(p.op) = key /\ Marked(p.op, sums[key])'
  <2>1. \A key \in DOMAIN sums :
          \E p \in ToSet(operations') : SetKey(p.op) = key /\ Marked(p.op, sums[key])'
    <3>1. SUFFICES ASSUME NEW key \in DOMAIN sums
                   PROVE  \E p \in ToSet(operations') : SetKey(p.op) = key /\ Marked(p.op, sums[key])'
      OBVIOUS
    <3>2. PICK p \in ToSet(operations) : SetKey(p.op) = key /\ Marked(p.op, sums[key])
      BY DEF SInv, Summed
    <3>3. sums'[key] = sums[key] /\ p \in ToSet(operations')
      BY <1>3
    <3>4. Marked(p.op, sums[key])'
      BY <1>6, <3>2, <3>3
    <3>5. QED
      BY <3>2, <3>3, <3>4
  <2>2. ASSUME NEW key \in DOMAIN sums', key = SetKey(op), Marked(op, sums[key])'
        PROVE  \E p \in ToSet(operations') : SetKey(p.op) = key /\ Marked(p.op, sums[key])'
    BY <1>1, <1>2, <1>3, <2>2
  <2>3. QED
    BY <2>1, <2>2
<1>10. Summed'
  BY <1>3, <1>6, <1>7, <1>8, <1>9 DEF Summed
<1>11. InWork'
  BY <1>2 DEF SInv, InWork
<1>12. QED
  BY <1>2, <1>10, <1>11, ListsStay DEF SInv

LEMMA EndSums == SInv /\ (EndSingle \/ EndShared \/ EndSum) => SInv'
<1> SUFFICES ASSUME SInv, EndSingle \/ EndShared \/ EndSum PROVE SInv'
  OBVIOUS
<1>1. CASE Fail
  BY <1>1, FailSums
<1>2. CASE ~Fail /\ EndSingle
  <2>1. Ending /\ Finished(op, empty) /\ ~Several(op) /\ UNCHANGED <<sums, implements>>
    BY <1>2 DEF EndSingle
  <2>2. QED
    BY <2>1, FinishedSums
<1>3. CASE ~Fail /\ EndShared
  <2>1. /\ Ending /\ Finished(op, sums[SetKey(op)]) /\ SetKey(op) \in DOMAIN sums
        /\ UNCHANGED <<sums, implements>>
    BY <1>3 DEF EndShared
  <2>2. QED
    BY <2>1, FinishedSums
<1>4. CASE ~Fail /\ EndSum
  <2> DEFINE one == [x \in {SetKey(op)} |-> Interface(op)]
  <2>1. /\ Ending /\ Finished(op, Interface(op)) /\ SetKey(op) \notin DOMAIN sums
        /\ sums' = Overlay(one, sums)
        /\ implements' = implements \cup (Envelopes(op) \X {Interface(op)})
    BY <1>4 DEF EndSum
  <2>2. /\ DOMAIN sums' = DOMAIN sums \cup {SetKey(op)} /\ sums'[SetKey(op)] = Interface(op)
        /\ \A key \in DOMAIN sums : sums'[key] = sums[key]
    BY <2>1 DEF Overlay
  <2>3. UNCHANGED <<op, built>>
    BY <2>1 DEF Finished
  <2>4. ASSUME NEW key \in DOMAIN sums', key \notin DOMAIN sums
        PROVE  key = SetKey(op) /\ Marked(op, sums[key])'
    <3>1. key = SetKey(op) /\ sums'[key] = Interface(op)
      BY <2>2, <2>4
    <3>2. \A e \in Envelopes(op) : <<e, Interface(op)>> \in implements'
      BY <2>1
    <3>3. Envelopes(op)' = Envelopes(op)
      BY <2>3 DEF Envelopes
    <3>4. QED
      BY <2>3, <3>1, <3>2, <3>3 DEF Marked
  <2>5. /\ \A key \in DOMAIN sums' :
             key \in DOMAIN sums \/ (key = SetKey(op) /\ Marked(op, sums[key])')
        /\ SetKey(op) \in DOMAIN sums' /\ Interface(op) = sums'[SetKey(op)]
        /\ implements \subseteq implements'
        /\ \A key \in DOMAIN sums : key \in DOMAIN sums' /\ sums'[key] = sums[key]
    BY <2>1, <2>2, <2>4
  <2> HIDE DEF one
  <2>6. QED
    BY <2>1, <2>5, FinishedSums
<1>5. QED
  BY <1>1, <1>2, <1>3, <1>4

LEMMA NextSums == NInv /\ SInv /\ [BNext]_<<vars, gvars>> => SInv'
<1> SUFFICES ASSUME NInv, SInv, [BNext]_<<vars, gvars>> PROVE SInv'
  OBVIOUS
<1>1. CASE [Next]_vars /\ UNCHANGED gvars
  <2>1. UNCHANGED <<phase, next, op, left, built, results>>
    BY <1>1 DEF gvars, storage
  <2>2. Lists'
    BY <1>1, NextLists DEF SInv
  <2>3. Summed'
    BY <2>1, SummedStays DEF SInv, Kept
  <2>4. QED
    BY <2>1, <2>2, <2>3 DEF SInv, InWork
<1>2. CASE Start \/ EndBuild
  <2>1. /\ phase' \in {"operation", "built"}
        /\ UNCHANGED <<vars, next, built, results>>
    BY <1>2 DEF Start, EndBuild, storage
  <2>2. Summed'
    BY <2>1, SummedStays DEF SInv, Kept
  <2>3. QED
    BY <2>1, <2>2, ListsStay DEF SInv, InWork
<1>3. QED
  BY <1>1, <1>2, BeginBuildSums, MessageSums, EndSums DEF BNext

LEMMA SumsKept == BSpec => []SInv
<1>1. BInit => NInv /\ SInv
  BY InitNames, InitSums
<1>2. NInv /\ SInv /\ [BNext]_<<vars, gvars>> => (NInv /\ SInv)'
  BY NextNames, NextSums
<1>3. QED
  BY <1>1, <1>2, PTL DEF BSpec

(* Every message of an operation with several messages is marked as one of *)
(* its interface, unless messages of the same names are another            *)
(* operation's (buildOperation, gen/generator.go:444-469).                 *)
THEOREM SumsAreImplemented == BSpec => []SumsImplemented
BY SumsKept, ImplementedFromSums, PTL
=============================================================================
