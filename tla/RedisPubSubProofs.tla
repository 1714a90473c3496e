--------------------------- MODULE RedisPubSubProofs ---------------------------
(***************************************************************************)
(* Proofs about the pubsub mode, for any channels, patterns, buffer and    *)
(* bounds: messages reach the handlers in the order they were published,   *)
(* and every copy the server made is accounted for.                        *)
(***************************************************************************)
EXTENDS RedisPubSub, FiniteSetTheorems, FunctionTheorems, SequenceTheorems, TLAPS

(***************************************************************************)
(* How often a value occurs in a sequence.                                 *)
(***************************************************************************)
Places(i, seq) == {k \in DOMAIN seq : seq[k] = i}

\* The occurrences of a sequence are a number.
LEMMA OccurrencesType ==
  ASSUME NEW S, NEW s \in Seq(S), NEW i
  PROVE  /\ IsFiniteSet(Places(i, s))
         /\ Occurrences(i, s) = Cardinality(Places(i, s))
         /\ Occurrences(i, s) \in Nat
<1>1. /\ Len(s) \in Nat /\ DOMAIN s = 1..Len(s)
  BY LenProperties
<1>2. IsFiniteSet(1..Len(s))
  BY <1>1, FS_Interval, SMT
<1>3. Places(i, s) \in SUBSET (1..Len(s))
  BY <1>1 DEF Places
<1>4. IsFiniteSet(Places(i, s))
  BY <1>2, <1>3, FS_Subset
<1>5. Occurrences(i, s) = Cardinality(Places(i, s))
  BY DEF Occurrences, Places
<1> QED
  BY <1>4, <1>5, FS_CardinalityType

\* Two sequences hold what they hold, one after the other.
LEMMA OccurrencesConcat ==
  ASSUME NEW S, NEW s \in Seq(S), NEW t \in Seq(S), NEW i
  PROVE  Occurrences(i, s \o t) = Occurrences(i, s) + Occurrences(i, t)
<1> DEFINE n == Len(s)
           shift == [k \in Places(i, t) |-> n + k]
           Moved == {n + k : k \in Places(i, t)}
<1>1. /\ n \in Nat /\ Len(t) \in Nat /\ DOMAIN s = 1..n /\ DOMAIN t = 1..Len(t)
  BY LenProperties
<1>2. /\ s \o t \in Seq(S) /\ Len(s \o t) = n + Len(t)
      /\ \A k \in 1..(n + Len(t)) : (s \o t)[k] = IF k <= n THEN s[k] ELSE t[k - n]
  BY ConcatProperties
<1>3. DOMAIN (s \o t) = 1..(n + Len(t))
  BY <1>2, LenProperties
<1>4. Places(i, s \o t) = Places(i, s) \cup Moved
  <2>1. ASSUME NEW k \in Places(i, s \o t) PROVE k \in Places(i, s) \cup Moved
    <3>1. k \in 1..(n + Len(t)) /\ (s \o t)[k] = i
      BY <1>3 DEF Places
    <3>2. CASE k <= n
      BY <3>1, <3>2, <1>1, <1>2 DEF Places
    <3>3. CASE k > n
      <4>1. k - n \in 1..Len(t) /\ t[k - n] = i
        BY <3>1, <3>3, <1>1, <1>2
      <4>2. k - n \in Places(i, t) /\ k = n + (k - n)
        BY <4>1, <3>1, <1>1 DEF Places
      <4> QED BY <4>2
    <3> QED BY <3>1, <3>2, <3>3, <1>1
  <2>2. ASSUME NEW k \in Places(i, s) PROVE k \in Places(i, s \o t)
    <3>1. k \in 1..n /\ s[k] = i
      BY <1>1 DEF Places
    <3>2. k \in 1..(n + Len(t)) /\ (s \o t)[k] = i
      BY <3>1, <1>1, <1>2
    <3> QED BY <3>2, <1>3 DEF Places
  <2>3. ASSUME NEW j \in Places(i, t) PROVE n + j \in Places(i, s \o t)
    <3>1. j \in 1..Len(t) /\ t[j] = i
      BY <1>1 DEF Places
    <3>2. n + j \in 1..(n + Len(t)) /\ n + j > n /\ (n + j) - n = j
      BY <3>1, <1>1
    <3>3. (s \o t)[n + j] = i
      BY <3>1, <3>2, <1>1, <1>2
    <3> QED BY <3>2, <3>3, <1>3 DEF Places
  <2> QED BY <2>1, <2>2, <2>3
<1>5. Places(i, s) \cap Moved = {}
  BY <1>1 DEF Places
<1>6. IsFiniteSet(Places(i, t)) /\ IsFiniteSet(Places(i, s))
  BY OccurrencesType
<1>7. shift \in Bijection(Places(i, t), Moved)
  <2>1. Places(i, t) \subseteq Nat
    BY <1>1 DEF Places
  <2>2. shift \in [Places(i, t) -> Moved]
    OBVIOUS
  <2>3. \A a, b \in Places(i, t) : shift[a] = shift[b] => a = b
    BY <2>1, <1>1
  <2>4. \A m \in Moved : \E a \in Places(i, t) : shift[a] = m
    OBVIOUS
  <2> HIDE DEF shift, Moved
  <2> QED BY <2>2, <2>3, <2>4, Fun_IsBij
<1>8. IsFiniteSet(Moved) /\ Cardinality(Moved) = Cardinality(Places(i, t))
  BY <1>6, <1>7, FS_Bijection DEF ExistsBijection
<1>9. Cardinality(Places(i, s \o t)) = Cardinality(Places(i, s)) + Cardinality(Moved) - Cardinality({})
  BY <1>4, <1>5, <1>6, <1>8, FS_Union
<1>10. Cardinality({}) = 0 /\ Cardinality(Places(i, s)) \in Nat /\ Cardinality(Moved) \in Nat
  BY <1>6, <1>8, FS_EmptySet, FS_CardinalityType
<1>11. Occurrences(i, s \o t) = Cardinality(Places(i, s \o t))
  BY <1>2, OccurrencesType
<1>12. /\ Occurrences(i, s) = Cardinality(Places(i, s))
       /\ Occurrences(i, t) = Cardinality(Places(i, t))
  BY OccurrencesType
<1> HIDE DEF Moved, shift
<1> QED
  BY <1>8, <1>9, <1>10, <1>11, <1>12

\* A sequence of n copies of j.
LEMMA OccurrencesRepeat ==
  ASSUME NEW n \in Nat, NEW j \in Nat, NEW i, NEW s,
         DOMAIN s = 1..n, \A k \in 1..n : s[k] = j
  PROVE  (i = j => Occurrences(i, s) = n) /\ (i # j => Occurrences(i, s) = 0)
<1>1. CASE i = j
  <2>1. {k \in DOMAIN s : s[k] = i} = 1..n
    BY <1>1
  <2>2. Cardinality(1..n) = n
    BY FS_Interval, SMT
  <2>3. Occurrences(i, s) = Cardinality({k \in DOMAIN s : s[k] = i})
    BY DEF Occurrences
  <2> QED BY <1>1, <2>1, <2>2, <2>3
<1>2. CASE i # j
  <2>1. {k \in DOMAIN s : s[k] = i} = {}
    BY <1>2
  <2> QED BY <1>2, <2>1, FS_EmptySet DEF Occurrences
<1> QED BY <1>1, <1>2

\* Nothing occurs in the empty sequence.
LEMMA OccurrencesEmpty ==
  ASSUME NEW i PROVE Occurrences(i, <<>>) = 0
<1>1. {k \in DOMAIN <<>> : <<>>[k] = i} = {}
  OBVIOUS
<1> QED BY <1>1, FS_EmptySet DEF Occurrences

\* One element.
LEMMA OccurrencesOne ==
  ASSUME NEW j, NEW i PROVE Occurrences(i, <<j>>) = IF i = j THEN 1 ELSE 0
<1>1. CASE i = j
  <2>1. {k \in DOMAIN <<j>> : <<j>>[k] = i} = {1}
    BY <1>1
  <2> QED BY <1>1, <2>1, FS_Singleton DEF Occurrences
<1>2. CASE i # j
  <2>1. {k \in DOMAIN <<j>> : <<j>>[k] = i} = {}
    BY <1>2
  <2> QED BY <1>2, <2>1, FS_EmptySet DEF Occurrences
<1> QED BY <1>1, <1>2

\* An element is appended.
LEMMA OccurrencesAppend ==
  ASSUME NEW S, NEW s \in Seq(S), NEW j \in S, NEW i
  PROVE  Occurrences(i, Append(s, j)) = Occurrences(i, s) + (IF i = j THEN 1 ELSE 0)
<1>1. <<j>> \in Seq(S) /\ Append(s, j) = s \o <<j>>
  BY AppendIsConcat, SMT
<1>2. Occurrences(i, s \o <<j>>) = Occurrences(i, s) + Occurrences(i, <<j>>)
  BY <1>1, OccurrencesConcat
<1> QED BY <1>1, <1>2, OccurrencesOne

\* The first element is taken away.
LEMMA OccurrencesTail ==
  ASSUME NEW S, NEW s \in Seq(S), s # <<>>, NEW i
  PROVE  Occurrences(i, s) = Occurrences(i, Tail(s)) + (IF i = Head(s) THEN 1 ELSE 0)
<1>1. Head(s) \in S /\ Tail(s) \in Seq(S)
  BY HeadTailProperties
<1>2. <<Head(s)>> \in Seq(S) /\ s = <<Head(s)>> \o Tail(s)
  BY <1>1, SMT
<1>3. Occurrences(i, s) = Occurrences(i, <<Head(s)>>) + Occurrences(i, Tail(s))
  BY <1>1, <1>2, OccurrencesConcat
<1>4. Occurrences(i, Tail(s)) \in Nat
  BY <1>1, OccurrencesType
<1>5. Occurrences(i, <<Head(s)>>) = IF i = Head(s) THEN 1 ELSE 0
  BY OccurrencesOne
<1> QED BY <1>3, <1>4, <1>5

-----------------------------------------------------------------------------
(***************************************************************************)
(* Types.                                                                  *)
(***************************************************************************)

\* A message is copied a number of times: the consumer has finitely many patterns.
LEMMA CopiesType ==
  ASSUME NEW m PROVE Copies(m) \in Nat
<1>1. IsFiniteSet({p \in Patterns : m.channel \in Matches[p]})
  BY ConfigAssumption, FS_Subset
<1> QED BY <1>1, FS_CardinalityType DEF Copies

\* Copies that are lost are counted.
LEMMA LosesType ==
  ASSUME TypeOK, NEW S, NEW s \in Seq(S), Loses(s)
  PROVE  lost' \in [Ids -> Nat] /\ \A i \in Ids : lost'[i] = lost[i] + Occurrences(i, s)
<1>1. lost \in [Ids -> Nat]
  BY DEF TypeOK
<1>2. \A i \in Ids : Occurrences(i, s) \in Nat
  BY OccurrencesType
<1> QED BY <1>1, <1>2 DEF Loses

\* Run ends: what was under way is gone.
LEMMA ReturnsType ==
  ASSUME TypeOK, Returns
  PROVE  /\ published' = published /\ subscribed' = FALSE /\ run' = "idle"
         /\ wire' = <<>> /\ buffer' = <<>> /\ dispatched' = dispatched
         /\ sent' = sent /\ reported' = reported /\ lost' \in [Ids -> Nat]
         /\ \A i \in Ids :
              lost'[i] = lost[i] + Occurrences(i, wire) + Occurrences(i, buffer)
<1> DEFINE S == 1..Len(published)
<1>1. wire \in Seq(S) /\ buffer \in Seq(S) /\ lost \in [Ids -> Nat]
  BY DEF TypeOK
<1>2. wire \o buffer \in Seq(S)
  BY <1>1, ConcatProperties
<1>3. Loses(wire \o buffer)
  BY DEF Returns
<1>4. lost' \in [Ids -> Nat]
      /\ \A i \in Ids : lost'[i] = lost[i] + Occurrences(i, wire \o buffer)
  BY <1>2, <1>3, LosesType
<1>5. \A i \in Ids : /\ Occurrences(i, wire \o buffer)
                          = Occurrences(i, wire) + Occurrences(i, buffer)
                     /\ Occurrences(i, wire) \in Nat /\ Occurrences(i, buffer) \in Nat
  BY <1>1, OccurrencesConcat, OccurrencesType
<1> QED BY <1>1, <1>4, <1>5 DEF Returns

\* What was published so far has a number.
LEMMA SentIsId == ASSUME TypeOK, NEW i \in 1..Len(published) PROVE i \in Ids
<1>1. Len(published) \in Nat /\ Len(published) <= MaxMessages /\ MaxMessages \in Nat
  BY LenProperties, BoundAssumption DEF TypeOK
<1> QED BY <1>1 DEF Ids

\* The two bounds.
LEMMA FailsType == TypeOK /\ Fails => failures' \in 0..MaxFailures
  BY BoundAssumption DEF TypeOK, Fails
LEMMA RunsType == TypeOK /\ Run => runs' \in 0..MaxRuns
  BY BoundAssumption DEF TypeOK, Run

\* What Run leaves behind has its type.
LEMMA ReturnsKeeps ==
  ASSUME TypeOK, Returns, ready' \in BOOLEAN, cancelled' \in BOOLEAN,
         runs' \in 0..MaxRuns, failures' \in 0..MaxFailures
  PROVE  TypeOK'
<1>1. wire' \in Seq(1..Len(published)) /\ buffer' \in Seq(1..Len(published)) /\ Len(buffer') <= BufferSize
  BY ReturnsType, EmptySeq, ConfigAssumption
<1> QED BY <1>1, ReturnsType DEF TypeOK, Pcs

\* The state of the process and of the server has its type from the start, and
\* every step leaves it so.
LEMMA TypeInit == Init => TypeOK
<1> SUFFICES ASSUME Init PROVE TypeOK
  OBVIOUS
<1>1. None \in [Ids -> Nat]
  BY DEF None
<1>2. \A S : <<>> \in Seq(S)
  BY EmptySeq
<1>3. Len(published) = 0 /\ Len(buffer) = 0
  BY DEF Init
<1>4. 0 <= MaxMessages /\ 0 <= BufferSize /\ 0 \in 0..MaxRuns /\ 0 \in 0..MaxFailures
  BY ConfigAssumption, BoundAssumption
<1> QED BY <1>1, <1>2, <1>3, <1>4 DEF Init, TypeOK, Pcs

LEMMA TypeStep == TypeOK /\ [Next]_vars => TypeOK'
<1> SUFFICES ASSUME TypeOK, [Next]_vars PROVE TypeOK'
  OBVIOUS
<1> USE DEF TypeOK, Pcs
<1> DEFINE S == 1..Len(published)
<1>1. ASSUME NEW m \in Message, Publish(m) PROVE TypeOK'
  <2> DEFINE i == Len(published) + 1
             n == IF subscribed THEN Copies(m) ELSE 0
             T == 1..i
  <2>1. n \in Nat /\ i \in Nat /\ i \in Ids
    BY <1>1, CopiesType, LenProperties, BoundAssumption DEF Publish, Ids
  <2>2. published' \in Seq(Message) /\ Len(published') = i
    BY <1>1, AppendProperties DEF Publish
  <2>3. S \subseteq T
    BY <2>1
  <2>4. wire \in Seq(T) /\ buffer \in Seq(T) /\ dispatched \in Seq(T)
    BY <2>3, SeqMonotonic
  <2>5. [k \in 1..n |-> i] \in Seq(T)
    BY <2>1, IsASeq
  <2>6. wire' \in Seq(T)
    BY <2>4, <2>5, <1>1, ConcatProperties DEF Publish
  <2>7. sent' \in [Ids -> Nat]
    BY <2>1, <1>1 DEF Publish, Plus
  <2>8. /\ i <= MaxMessages
        /\ UNCHANGED <<subscribed, buffer, run, ready, cancelled, runs, failures,
                       dispatched, reported, lost>>
    BY <1>1 DEF Publish, process
  <2> HIDE DEF n, i
  <2> QED BY <2>2, <2>4, <2>6, <2>7, <2>8 DEF i
<1>2. CASE Deliver
  <2>1. Head(wire) \in S /\ Tail(wire) \in Seq(S)
    BY <1>2, HeadTailProperties DEF Deliver
  <2>2. CASE Len(buffer) < BufferSize
    <3>1. buffer' = Append(buffer, Head(wire)) /\ lost' = lost
      BY <1>2, <2>2 DEF Deliver
    <3>2. buffer' \in Seq(S) /\ Len(buffer') <= BufferSize
      BY <2>1, <2>2, <3>1, AppendProperties, ConfigAssumption
    <3> QED BY <1>2, <2>1, <3>1, <3>2 DEF Deliver
  <2>3. CASE ~(Len(buffer) < BufferSize)
    <3>1. Loses(<<Head(wire)>>) /\ buffer' = buffer
      BY <1>2, <2>3 DEF Deliver
    <3>2. <<Head(wire)>> \in Seq(S)
      BY <2>1
    <3>3. lost' \in [Ids -> Nat]
      BY <3>1, <3>2, LosesType
    <3> QED BY <1>2, <2>1, <3>1, <3>3 DEF Deliver
  <2> QED BY <2>2, <2>3
<1>3. CASE Break
  <2>1. lost' \in [Ids -> Nat]
    BY <1>3, LosesType DEF Break
  <2>2. failures' \in 0..MaxFailures
    BY <1>3, FailsType DEF Break
  <2>3. wire' \in Seq(S)
    BY <1>3, EmptySeq DEF Break
  <2> QED BY <1>3, <2>1, <2>2, <2>3 DEF Break, process
<1>4. CASE Reconnect
  BY <1>4 DEF Reconnect, process, outcomes
<1>5. CASE Run
  BY <1>5, RunsType DEF Run, network, outcomes
<1>6. CASE Cancel
  BY <1>6 DEF Cancel, network, outcomes
<1>7. CASE Crash
  BY <1>7, ReturnsKeeps, FailsType DEF Crash
<1>8. CASE PSubscribe
  BY <1>8 DEF PSubscribe, process, outcomes
<1>9. CASE Receive
  BY <1>9 DEF Receive, network, outcomes
<1>10. CASE ReceiveFails
  BY <1>10, ReturnsKeeps, FailsType DEF ReceiveFails
<1>11. CASE ContextDone
  BY <1>11, ReturnsKeeps DEF ContextDone
<1>12. CASE TakeMessage
  <2>1. Head(buffer) \in S /\ Tail(buffer) \in Seq(S) /\ Len(Tail(buffer)) <= BufferSize
    BY <1>12, HeadTailProperties, ConfigAssumption DEF TakeMessage
  <2>2. Append(dispatched, Head(buffer)) \in Seq(S)
    BY <2>1, AppendProperties
  <2> QED BY <1>12, <2>1, <2>2 DEF TakeMessage, network
<1>13. CASE TakeUndecodable
  <2>1. Head(buffer) \in S /\ Tail(buffer) \in Seq(S) /\ Len(Tail(buffer)) <= BufferSize
    BY <1>13, HeadTailProperties, ConfigAssumption DEF TakeUndecodable
  <2>2. Head(buffer) \in Ids /\ reported[Head(buffer)] \in Nat
    BY <2>1, SentIsId
  <2>3. reported' = [reported EXCEPT ![Head(buffer)] = @ + 1]
    BY <1>13 DEF TakeUndecodable, Plus
  <2>4. reported' \in [Ids -> Nat]
    BY <2>2, <2>3
  <2> QED BY <1>13, <2>1, <2>4 DEF TakeUndecodable, network
<1>14. CASE DispatchReturns
  BY <1>14 DEF DispatchReturns, network, outcomes
<1>15. CASE UNCHANGED vars
  BY <1>15 DEF vars, network, process, outcomes
<1> QED
  BY <1>1, <1>2, <1>3, <1>4, <1>5, <1>6, <1>7, <1>8, <1>9, <1>10, <1>11, <1>12,
     <1>13, <1>14, <1>15 DEF Next, RunStep

\* The state of the process and of the server has its type in every run: in
\* particular the Go channel never holds more than it can.
THEOREM TypeCorrect == Spec => []TypeOK
  BY TypeInit, TypeStep, PTL DEF Spec

-----------------------------------------------------------------------------
(***************************************************************************)
(* The order of messages: what was dispatched comes before what is in the  *)
(* Go channel, and that before what is on the connection.                  *)
(***************************************************************************)
Elements(s) == {s[k] : k \in DOMAIN s}
Sorted(s) == \A j, k \in DOMAIN s : j < k => s[j] <= s[k]
Before(s, t) == \A a \in Elements(s), b \in Elements(t) : a <= b
InOrder ==
  /\ Sorted(dispatched) /\ Sorted(buffer) /\ Sorted(wire)
  /\ Before(dispatched, buffer) /\ Before(dispatched, wire) /\ Before(buffer, wire)

\* The elements of a sequence of numbers are numbers, and the empty one has none.
LEMMA ElementsType ==
  ASSUME NEW n \in Nat, NEW s \in Seq(1..n) PROVE Elements(s) \subseteq 1..n
  BY ElementOfSeq, LenProperties DEF Elements
LEMMA EmptyInOrder == Elements(<<>>) = {} /\ Sorted(<<>>)
  BY DEF Elements, Sorted

\* A last element that is not smaller is added.
LEMMA SortedAppend ==
  ASSUME NEW n \in Nat, NEW s \in Seq(1..n), NEW x \in 1..n, Sorted(s),
         \A a \in Elements(s) : a <= x
  PROVE  Sorted(Append(s, x)) /\ Elements(Append(s, x)) = Elements(s) \cup {x}
<1> DEFINE t == Append(s, x)
<1>1. /\ Len(s) \in Nat /\ DOMAIN s = 1..Len(s) /\ DOMAIN t = 1..(Len(s) + 1)
      /\ t[Len(s) + 1] = x /\ \A k \in 1..Len(s) : t[k] = s[k]
  BY LenProperties, AppendProperties
<1>2. \A k \in 1..Len(s) : s[k] \in Elements(s) /\ s[k] \in 1..n
  BY <1>1, ElementOfSeq DEF Elements
<1> HIDE DEF t
<1>3. Sorted(t)
  <2> SUFFICES ASSUME NEW j \in 1..(Len(s) + 1), NEW k \in 1..(Len(s) + 1), j < k
               PROVE  t[j] <= t[k]
    BY <1>1 DEF Sorted
  <2>1. j \in 1..Len(s) /\ t[j] = s[j]
    BY <1>1
  <2>2. CASE k = Len(s) + 1
    <3>1. t[k] = x /\ s[j] \in Elements(s)
      BY <1>1, <1>2, <2>1, <2>2
    <3>2. QED
      BY <2>1, <3>1
  <2>3. CASE k \in 1..Len(s)
    BY <1>1, <2>1, <2>3 DEF Sorted
  <2>4. k = Len(s) + 1 \/ k \in 1..Len(s)
    BY <1>1
  <2> QED BY <2>2, <2>3, <2>4
<1>4. Elements(t) = Elements(s) \cup {x}
  <2>1. Len(s) + 1 \in 1..(Len(s) + 1)
    BY <1>1
  <2>2. \A k \in 1..(Len(s) + 1) : k = Len(s) + 1 \/ k \in 1..Len(s)
    BY <1>1
  <2>3. 1..Len(s) \subseteq 1..(Len(s) + 1)
    BY <1>1
  <2> QED BY <1>1, <2>1, <2>2, <2>3 DEF Elements
<1> QED BY <1>3, <1>4 DEF t

\* The first element is taken.
LEMMA SortedTail ==
  ASSUME NEW n \in Nat, NEW s \in Seq(1..n), s # <<>>, Sorted(s)
  PROVE  /\ Sorted(Tail(s)) /\ Elements(Tail(s)) \subseteq Elements(s)
         /\ Head(s) \in Elements(s) /\ \A a \in Elements(Tail(s)) : Head(s) <= a
<1> DEFINE t == Tail(s)
<1>1. /\ Len(s) \in Nat \ {0} /\ DOMAIN s = 1..Len(s) /\ t \in Seq(1..n)
      /\ Len(t) = Len(s) - 1 /\ \A k \in 1..Len(t) : t[k] = s[k + 1]
  BY LenProperties, EmptySeq, HeadTailProperties
<1>2. DOMAIN t = 1..(Len(s) - 1) /\ Head(s) = s[1]
  BY <1>1, LenProperties
<1> HIDE DEF t
<1>3. \A k \in 1..(Len(s) - 1) : k + 1 \in 1..Len(s) /\ t[k] = s[k + 1] /\ 1 < k + 1
  BY <1>1
<1>4. Sorted(t)
  <2> SUFFICES ASSUME NEW j \in 1..(Len(s) - 1), NEW k \in 1..(Len(s) - 1), j < k
               PROVE  t[j] <= t[k]
    BY <1>2 DEF Sorted
  <2>1. j + 1 < k + 1 /\ j + 1 \in 1..Len(s) /\ k + 1 \in 1..Len(s)
    BY <1>1
  <2>2. s[j + 1] <= s[k + 1]
    BY <2>1, <1>1 DEF Sorted
  <2> QED BY <2>2, <1>3
<1>5. ASSUME NEW a \in Elements(t) PROVE a \in Elements(s) /\ Head(s) <= a
  <2>1. PICK k \in 1..(Len(s) - 1) : a = t[k]
    BY <1>2 DEF Elements
  <2>2. a = s[k + 1] /\ k + 1 \in 1..Len(s) /\ 1 \in 1..Len(s) /\ 1 < k + 1
    BY <2>1, <1>1, <1>3
  <2>3. s[1] <= s[k + 1]
    BY <2>2, <1>1 DEF Sorted
  <2> QED BY <2>2, <2>3, <1>1, <1>2 DEF Elements
<1>6. Head(s) \in Elements(s)
  <2>1. 1 \in 1..Len(s)
    BY <1>1
  <2> QED BY <1>2, <2>1 DEF Elements
<1> QED BY <1>4, <1>5, <1>6 DEF t

\* Copies of a number not smaller than what there is are added.
LEMMA SortedCopies ==
  ASSUME NEW n \in Nat, NEW s \in Seq(1..n), NEW c \in Nat, NEW x \in 1..n, Sorted(s),
         \A a \in Elements(s) : a <= x
  PROVE  /\ Sorted(s \o [k \in 1..c |-> x])
         /\ Elements(s \o [k \in 1..c |-> x]) \subseteq Elements(s) \cup {x}
<1> DEFINE r == [k \in 1..c |-> x]
           t == s \o r
<1>1. r \in Seq(1..n) /\ Len(r) = c
  BY IsASeq
<1>2. /\ Len(s) \in Nat /\ DOMAIN s = 1..Len(s) /\ DOMAIN t = 1..(Len(s) + c)
      /\ \A k \in 1..(Len(s) + c) : t[k] = IF k <= Len(s) THEN s[k] ELSE r[k - Len(s)]
  BY <1>1, LenProperties, ConcatProperties
<1>3. \A k \in 1..(Len(s) + c) : t[k] = IF k \in 1..Len(s) THEN s[k] ELSE x
  BY <1>2
<1> HIDE DEF t
<1>4. \A k \in 1..Len(s) : s[k] \in Elements(s) /\ s[k] \in 1..n
  BY <1>2, ElementOfSeq DEF Elements
<1>5. Sorted(t)
  BY <1>2, <1>3, <1>4 DEF Sorted
<1>6. Elements(t) \subseteq Elements(s) \cup {x}
  BY <1>2, <1>3, <1>4 DEF Elements
<1> QED BY <1>5, <1>6 DEF t

\* No step puts a message before an earlier one.
LEMMA InOrderStep == TypeOK /\ InOrder /\ [Next]_vars => InOrder'
<1> SUFFICES ASSUME TypeOK, InOrder, [Next]_vars PROVE InOrder'
  OBVIOUS
<1> DEFINE S == 1..Len(published)
<1>0. /\ Len(published) \in Nat /\ wire \in Seq(S) /\ buffer \in Seq(S) /\ dispatched \in Seq(S)
      /\ Elements(wire) \subseteq S /\ Elements(buffer) \subseteq S /\ Elements(dispatched) \subseteq S
      /\ S \subseteq Nat
  BY LenProperties, ElementsType DEF TypeOK
<1>e. Elements(<<>>) = {} /\ Sorted(<<>>)
  BY EmptyInOrder
<1>s. (wire' = wire /\ buffer' = buffer /\ dispatched' = dispatched) => InOrder'
  BY DEF InOrder
<1>r. (wire' = <<>> /\ buffer' = <<>> /\ dispatched' = dispatched) => InOrder'
  BY <1>e DEF InOrder, Before
<1>1. ASSUME NEW m \in Message, Publish(m) PROVE InOrder'
  <2> DEFINE i == Len(published) + 1
             n == IF subscribed THEN Copies(m) ELSE 0
  <2>1. n \in Nat /\ i \in Nat /\ i \in 1..i /\ S \subseteq 1..i
    BY <1>0, CopiesType
  <2>2. wire \in Seq(1..i) /\ \A a \in S : a <= i
    BY <1>0, <2>1, SeqMonotonic
  <2>3. /\ wire' = wire \o [k \in 1..n |-> i]
        /\ buffer' = buffer /\ dispatched' = dispatched
    BY <1>1 DEF Publish, process
  <2> HIDE DEF n, i
  <2>4. Sorted(wire') /\ Elements(wire') \subseteq Elements(wire) \cup {i}
    <3>1. Sorted(wire) /\ \A a \in Elements(wire) : a <= i
      BY <1>0, <2>2 DEF InOrder
    <3>2. /\ Sorted(wire \o [k \in 1..n |-> i])
          /\ Elements(wire \o [k \in 1..n |-> i]) \subseteq Elements(wire) \cup {i}
      BY <2>1, <2>2, <3>1, SortedCopies, Zenon
    <3> QED BY <2>3, <3>2
  <2> QED BY <1>0, <2>2, <2>3, <2>4 DEF InOrder, Before
<1>2. CASE Deliver
  <2>1. wire # <<>> /\ wire' = Tail(wire) /\ dispatched' = dispatched
    BY <1>2 DEF Deliver
  <2>2. /\ Sorted(wire') /\ Elements(wire') \subseteq Elements(wire)
        /\ Head(wire) \in Elements(wire) /\ \A a \in Elements(wire') : Head(wire) <= a
    BY <1>0, <2>1, SortedTail DEF InOrder
  <2>3. CASE buffer' = buffer
    BY <1>0, <2>1, <2>2, <2>3 DEF InOrder, Before
  <2>4. CASE buffer' = Append(buffer, Head(wire))
    <3>1. Head(wire) \in S /\ Sorted(buffer) /\ \A a \in Elements(buffer) : a <= Head(wire)
      BY <1>0, <2>2 DEF InOrder, Before
    <3>2. Sorted(buffer') /\ Elements(buffer') = Elements(buffer) \cup {Head(wire)}
      BY <1>0, <2>4, <3>1, SortedAppend
    <3> QED BY <1>0, <2>1, <2>2, <3>2 DEF InOrder, Before
  <2> QED BY <1>2, <2>3, <2>4 DEF Deliver
<1>3. CASE Break
  BY <1>3, <1>e DEF Break, InOrder, Before, process
<1>4. CASE Reconnect
  BY <1>4, <1>s DEF Reconnect, process, outcomes
<1>5. CASE Run
  BY <1>5, <1>s DEF Run, network, outcomes
<1>6. CASE Cancel
  BY <1>6, <1>s DEF Cancel, network, outcomes
<1>7. CASE Crash
  BY <1>7, <1>r, ReturnsType DEF Crash
<1>8. CASE PSubscribe
  BY <1>8, <1>s DEF PSubscribe, process, outcomes
<1>9. CASE Receive
  BY <1>9, <1>s DEF Receive, network, outcomes
<1>10. CASE ReceiveFails
  BY <1>10, <1>r, ReturnsType DEF ReceiveFails
<1>11. CASE ContextDone
  BY <1>11, <1>r, ReturnsType DEF ContextDone
<1>12. CASE TakeMessage
  <2>1. /\ buffer # <<>> /\ buffer' = Tail(buffer) /\ wire' = wire
        /\ dispatched' = Append(dispatched, Head(buffer))
    BY <1>12 DEF TakeMessage, network
  <2>2. /\ Sorted(buffer') /\ Elements(buffer') \subseteq Elements(buffer)
        /\ Head(buffer) \in Elements(buffer) /\ \A a \in Elements(buffer') : Head(buffer) <= a
    BY <1>0, <2>1, SortedTail DEF InOrder
  <2>3. /\ Head(buffer) \in S /\ Sorted(dispatched)
        /\ \A a \in Elements(dispatched) : a <= Head(buffer)
    BY <1>0, <2>2 DEF InOrder, Before
  <2>4. /\ Sorted(dispatched')
        /\ Elements(dispatched') = Elements(dispatched) \cup {Head(buffer)}
    BY <1>0, <2>1, <2>3, SortedAppend
  <2> QED BY <1>0, <2>1, <2>2, <2>4 DEF InOrder, Before
<1>13. CASE TakeUndecodable
  <2>1. buffer # <<>> /\ buffer' = Tail(buffer) /\ wire' = wire /\ dispatched' = dispatched
    BY <1>13 DEF TakeUndecodable, network
  <2>2. Sorted(buffer') /\ Elements(buffer') \subseteq Elements(buffer)
    BY <1>0, <2>1, SortedTail DEF InOrder
  <2> QED BY <1>0, <2>1, <2>2 DEF InOrder, Before
<1>14. CASE DispatchReturns
  BY <1>14, <1>s DEF DispatchReturns, network, outcomes
<1>15. CASE UNCHANGED vars
  BY <1>15, <1>s DEF vars, network, process, outcomes
<1> QED
  BY <1>1, <1>2, <1>3, <1>4, <1>5, <1>6, <1>7, <1>8, <1>9, <1>10, <1>11, <1>12,
     <1>13, <1>14, <1>15 DEF Next, RunStep

\* Messages reach the handlers in the order they were published, whatever the
\* patterns, the size of the Go channel and the number of failures.
THEOREM HandledInOrder == Spec => []DispatchedInOrder
<1>1. Init => InOrder
  BY EmptyInOrder DEF Init, InOrder, Before
<1>2. InOrder => DispatchedInOrder
  BY DEF InOrder, Sorted, DispatchedInOrder
<1> QED
  BY <1>1, <1>2, TypeInit, TypeStep, InOrderStep, PTL DEF Spec

-----------------------------------------------------------------------------
(***************************************************************************)
(* Every copy the server made is somewhere.                                *)
(***************************************************************************)
Accounted(i) ==
  /\ sent[i] = Occurrences(i, wire) + Occurrences(i, buffer)
               + Occurrences(i, dispatched) + reported[i] + lost[i]
  /\ sent[i] <= IF i <= Len(published) THEN Copies(published[i]) ELSE 0

\* Numbers of copies are numbers.
LEMMA CountsType ==
  ASSUME TypeOK, NEW i \in Ids
  PROVE  /\ Occurrences(i, wire) \in Nat /\ Occurrences(i, buffer) \in Nat
         /\ Occurrences(i, dispatched) \in Nat
         /\ sent[i] \in Nat /\ reported[i] \in Nat /\ lost[i] \in Nat
<1>1. /\ wire \in Seq(1..Len(published)) /\ buffer \in Seq(1..Len(published))
      /\ dispatched \in Seq(1..Len(published))
      /\ sent \in [Ids -> Nat] /\ reported \in [Ids -> Nat] /\ lost \in [Ids -> Nat]
  BY DEF TypeOK
<1> QED BY <1>1, OccurrencesType

\* A message is published: its copies are on the connection, the others' stay.
LEMMA PublishAccounts ==
  ASSUME TypeOK, NEW m \in Message, Publish(m), NEW j \in Ids, Accounted(j)
  PROVE  Accounted(j)'
<1> DEFINE i == Len(published) + 1
           n == IF subscribed THEN Copies(m) ELSE 0
<1>1. /\ Len(published) \in Nat /\ published \in Seq(Message)
      /\ Copies(m) \in Nat /\ n \in Nat /\ n <= Copies(m) /\ i \in Nat
  BY LenProperties, CopiesType DEF TypeOK
<1>2. /\ published' = Append(published, m)
      /\ wire' = wire \o [k \in 1..n |-> i] /\ sent' = [sent EXCEPT ![i] = @ + n]
      /\ buffer' = buffer /\ dispatched' = dispatched /\ reported' = reported /\ lost' = lost
  BY DEF Publish, Plus, process
<1>3. /\ Len(published') = i /\ published'[i] = m
      /\ \A k \in 1..Len(published) : published'[k] = published[k]
  BY <1>1, <1>2, AppendProperties
<1>4. Occurrences(j, wire') = Occurrences(j, wire) + IF j = i THEN n ELSE 0
  <2>1. wire \in Seq(Nat) /\ [k \in 1..n |-> i] \in Seq(Nat)
    <3>1. wire \in Seq(1..Len(published)) /\ 1..Len(published) \subseteq Nat
      BY <1>1 DEF TypeOK
    <3>2. \A k \in 1..n : i \in Nat
      BY <1>1
    <3> HIDE DEF n, i
    <3>3. [k \in 1..n |-> i] \in Seq(Nat)
      BY <1>1, <3>2, IsASeq
    <3> QED BY <3>1, <3>3, SeqMonotonic
  <2>2. Occurrences(j, [k \in 1..n |-> i]) = IF j = i THEN n ELSE 0
    <3> DEFINE s == [k \in 1..n |-> i]
    <3>1. n \in Nat /\ i \in Nat
      BY <1>1
    <3> HIDE DEF n, i
    <3>2. DOMAIN s = 1..n /\ \A k \in 1..n : s[k] = i
      OBVIOUS
    <3> HIDE DEF s
    <3>3. (j = i => Occurrences(j, s) = n) /\ (j # i => Occurrences(j, s) = 0)
      BY <3>1, <3>2, OccurrencesRepeat
    <3>4. Occurrences(j, s) = IF j = i THEN n ELSE 0
      BY <3>3
    <3> QED BY <3>4 DEF s
  <2>3. Occurrences(j, wire \o [k \in 1..n |-> i])
          = Occurrences(j, wire) + Occurrences(j, [k \in 1..n |-> i])
    BY <2>1, OccurrencesConcat
  <2> QED BY <1>2, <2>2, <2>3
<1>5. sent \in [Ids -> Nat] /\ j \in Nat
  BY BoundAssumption DEF TypeOK, Ids
<1> HIDE DEF n, i
<1>6. sent'[j] = IF j = i THEN sent[j] + n ELSE sent[j]
  BY <1>2, <1>5
<1>7. CASE j = i
  <2>1. sent[j] <= 0
    BY <1>1, <1>7 DEF Accounted, i
  <2>2. sent'[j] <= IF j <= Len(published') THEN Copies(published'[j]) ELSE 0
    BY <1>1, <1>3, <1>6, <1>7, <2>1, CountsType
  <2>3. Occurrences(j, wire') = Occurrences(j, wire) + n /\ sent'[j] = sent[j] + n
    BY <1>4, <1>6, <1>7
  <2>4. sent'[j] = Occurrences(j, wire') + Occurrences(j, buffer)
                   + Occurrences(j, dispatched) + reported[j] + lost[j]
    <3>1. sent[j] = Occurrences(j, wire) + Occurrences(j, buffer)
                    + Occurrences(j, dispatched) + reported[j] + lost[j]
      BY DEF Accounted
    <3> QED BY <1>1, <2>3, <3>1, CountsType
  <2> QED BY <1>2, <2>2, <2>4 DEF Accounted
<1>8. CASE j # i
  <2>1. Occurrences(j, wire') = Occurrences(j, wire) /\ sent'[j] = sent[j]
    BY <1>4, <1>6, <1>8, CountsType
  <2>2. CASE j <= Len(published)
    <3>1. j \in 1..Len(published) /\ j <= i
      BY <1>1, <1>5, <2>2 DEF i, Ids
    <3> QED BY <1>2, <1>3, <2>1, <2>2, <3>1 DEF Accounted
  <2>3. CASE ~(j <= Len(published))
    <3>1. ~(j <= i)
      BY <1>1, <1>5, <1>8, <2>3 DEF i
    <3> QED BY <1>2, <1>3, <2>1, <2>3, <3>1 DEF Accounted
  <2> QED BY <2>2, <2>3
<1> QED BY <1>7, <1>8

\* A copy leaves the connection: for the Go channel, or for nobody.
LEMMA DeliverAccounts ==
  ASSUME TypeOK, Deliver, NEW j \in Ids, Accounted(j)
  PROVE  Accounted(j)'
<1> DEFINE S == 1..Len(published)
           h == Head(wire)
<1>1. /\ wire \in Seq(S) /\ buffer \in Seq(S) /\ wire # <<>> /\ wire' = Tail(wire)
      /\ published' = published /\ sent' = sent /\ dispatched' = dispatched
      /\ reported' = reported
  BY DEF TypeOK, Deliver
<1>2. h \in S /\ <<h>> \in Seq(S) /\ Tail(wire) \in Seq(S)
  <2>1. h \in S /\ Tail(wire) \in Seq(S)
    BY <1>1, HeadTailProperties
  <2> QED BY <2>1
<1>3. /\ Occurrences(j, wire) = Occurrences(j, wire') + (IF j = h THEN 1 ELSE 0)
      /\ Occurrences(j, wire') \in Nat
  BY <1>1, <1>2, OccurrencesTail, OccurrencesType
<1> HIDE DEF S, h
<1>4. CASE buffer' = Append(buffer, h) /\ lost' = lost
  <2>1. Occurrences(j, buffer') = Occurrences(j, buffer) + (IF j = h THEN 1 ELSE 0)
    BY <1>1, <1>2, <1>4, OccurrencesAppend
  <2> QED BY <1>1, <1>3, <1>4, <2>1, CountsType DEF Accounted
<1>5. CASE buffer' = buffer /\ Loses(<<h>>)
  <2>1. lost'[j] = lost[j] + Occurrences(j, <<h>>)
    BY <1>2, <1>5, LosesType
  <2>2. Occurrences(j, <<h>>) = IF j = h THEN 1 ELSE 0
    BY OccurrencesOne
  <2>3. Occurrences(j, wire') + lost'[j] = Occurrences(j, wire) + lost[j]
    BY <1>3, <2>1, <2>2, CountsType
  <2>4. lost'[j] \in Nat
    BY <2>1, <2>2, CountsType
  <2>5. sent[j] = Occurrences(j, wire) + Occurrences(j, buffer)
                  + Occurrences(j, dispatched) + reported[j] + lost[j]
    BY DEF Accounted
  <2>6. sent[j] = Occurrences(j, wire') + Occurrences(j, buffer)
                  + Occurrences(j, dispatched) + reported[j] + lost'[j]
    BY <1>3, <2>3, <2>4, <2>5, CountsType
  <2> QED BY <1>1, <1>5, <2>6 DEF Accounted
<1> QED BY <1>4, <1>5 DEF Deliver, h

\* A copy in the Go channel becomes a reported one.
LEMMA ReportedAccounts ==
  ASSUME TypeOK, NEW j \in Ids, Accounted(j),
         UNCHANGED <<published, wire, sent, lost, dispatched>>,
         Occurrences(j, buffer') \in Nat, reported'[j] \in Nat,
         Occurrences(j, buffer') + reported'[j] = Occurrences(j, buffer) + reported[j]
  PROVE  Accounted(j)'
<1> DEFINE w == Occurrences(j, wire)
           b == Occurrences(j, buffer)
           c == Occurrences(j, buffer')
           d == Occurrences(j, dispatched)
           r == reported[j]
           q == reported'[j]
           l == lost[j]
<1>1. /\ w \in Nat /\ b \in Nat /\ c \in Nat /\ d \in Nat /\ r \in Nat /\ q \in Nat /\ l \in Nat
      /\ c + q = b + r
  BY CountsType
<1>2. sent[j] = w + b + d + r + l
  BY DEF Accounted
<1>3. w + b + d + r + l = w + c + d + q + l
  <2> HIDE DEF w, b, c, d, r, q, l
  <2> QED BY <1>1
<1>4. sent'[j] = Occurrences(j, wire') + Occurrences(j, buffer')
                 + Occurrences(j, dispatched') + reported'[j] + lost'[j]
  BY <1>2, <1>3
<1> QED BY <1>4 DEF Accounted

\* A copy leaves the Go channel.
LEMMA TakenAccounts ==
  ASSUME TypeOK, NEW j \in Ids, Accounted(j), buffer # <<>>, buffer' = Tail(buffer),
         UNCHANGED <<published, wire, sent, lost>>,
         \/ dispatched' = Append(dispatched, Head(buffer)) /\ reported' = reported
         \/ dispatched' = dispatched /\ reported' = Plus(reported, Head(buffer), 1)
  PROVE  Accounted(j)'
<1> DEFINE S == 1..Len(published)
           h == Head(buffer)
<1>1. buffer \in Seq(S) /\ dispatched \in Seq(S) /\ reported \in [Ids -> Nat]
  BY DEF TypeOK
<1>2. h \in S /\ Tail(buffer) \in Seq(S)
  BY <1>1, HeadTailProperties
<1>3. /\ Occurrences(j, buffer) = Occurrences(j, buffer') + (IF j = h THEN 1 ELSE 0)
      /\ Occurrences(j, buffer') \in Nat
  BY <1>1, <1>2, OccurrencesTail, OccurrencesType
<1> HIDE DEF S, h
<1>4. CASE dispatched' = Append(dispatched, h) /\ reported' = reported
  <2>1. Occurrences(j, dispatched') = Occurrences(j, dispatched) + (IF j = h THEN 1 ELSE 0)
    BY <1>1, <1>2, <1>4, OccurrencesAppend
  <2> QED BY <1>3, <1>4, <2>1, CountsType DEF Accounted
<1>5. CASE dispatched' = dispatched /\ reported' = Plus(reported, h, 1)
  <2>1. reported'[j] = reported[j] + (IF j = h THEN 1 ELSE 0)
    BY <1>1, <1>5, CountsType DEF Plus
  <2>2. Occurrences(j, buffer') + reported'[j] = Occurrences(j, buffer) + reported[j]
    BY <1>3, <2>1, CountsType
  <2>3. reported'[j] \in Nat
    BY <2>1, CountsType
  <2> QED BY <1>3, <1>5, <2>2, <2>3, ReportedAccounts
<1> QED BY <1>4, <1>5 DEF h

\* Run ends, or the connection breaks: what was under way is counted as lost.
LEMMA ReturnsAccounts ==
  ASSUME TypeOK, Returns, NEW j \in Ids, Accounted(j)
  PROVE  Accounted(j)'
<1>1. /\ published' = published /\ dispatched' = dispatched /\ sent' = sent /\ reported' = reported
      /\ lost'[j] = lost[j] + Occurrences(j, wire) + Occurrences(j, buffer)
      /\ wire' = <<>> /\ buffer' = <<>>
  BY ReturnsType
<1>2. Occurrences(j, wire') = 0 /\ Occurrences(j, buffer') = 0
  BY <1>1, OccurrencesEmpty
<1> QED BY <1>1, <1>2, CountsType DEF Accounted
LEMMA BreakAccounts ==
  ASSUME TypeOK, Break, NEW j \in Ids, Accounted(j)
  PROVE  Accounted(j)'
<1>1. /\ published' = published /\ dispatched' = dispatched /\ sent' = sent /\ reported' = reported
      /\ wire' = <<>> /\ buffer' = buffer /\ Loses(wire)
  BY DEF Break, process
<1>2. lost'[j] = lost[j] + Occurrences(j, wire)
  <2>1. wire \in Seq(1..Len(published))
    BY DEF TypeOK
  <2> QED BY <1>1, <2>1, LosesType
<1>3. Occurrences(j, wire') = 0
  BY <1>1, OccurrencesEmpty
<1> QED BY <1>1, <1>2, <1>3, CountsType DEF Accounted

\* Nothing is sent, taken, reported or lost.
LEMMA SameAccounts ==
  ASSUME NEW j \in Ids, Accounted(j),
         UNCHANGED <<published, wire, buffer, sent, dispatched, reported, lost>>
  PROVE  Accounted(j)'
  BY DEF Accounted

\* Every step accounts for the copies it moves.
LEMMA AccountedStep == TypeOK /\ EveryCopyAccounted /\ [Next]_vars => EveryCopyAccounted'
<1> SUFFICES ASSUME TypeOK, EveryCopyAccounted, [Next]_vars, NEW j \in Ids
             PROVE  Accounted(j)'
  BY DEF EveryCopyAccounted, Accounted
<1>0. Accounted(j)
  BY DEF EveryCopyAccounted, Accounted
<1>1. ASSUME NEW m \in Message, Publish(m) PROVE Accounted(j)'
  BY <1>0, <1>1, PublishAccounts
<1>2. CASE Deliver
  BY <1>0, <1>2, DeliverAccounts
<1>3. CASE Break
  BY <1>0, <1>3, BreakAccounts
<1>4. CASE Reconnect \/ PSubscribe
  BY <1>0, <1>4, SameAccounts DEF Reconnect, PSubscribe, process, outcomes
<1>5. CASE Run \/ Cancel \/ Receive \/ DispatchReturns
  BY <1>0, <1>5, SameAccounts DEF Run, Cancel, Receive, DispatchReturns, network, outcomes
<1>6. CASE Crash \/ ReceiveFails \/ ContextDone
  BY <1>0, <1>6, ReturnsAccounts DEF Crash, ReceiveFails, ContextDone
<1>7. CASE TakeMessage
  BY <1>0, <1>7, TakenAccounts DEF TakeMessage, network
<1>8. CASE TakeUndecodable
  BY <1>0, <1>8, TakenAccounts DEF TakeUndecodable, network
<1>9. CASE UNCHANGED vars
  BY <1>0, <1>9, SameAccounts DEF vars, network, process, outcomes
<1> QED
  BY <1>1, <1>2, <1>3, <1>4, <1>5, <1>6, <1>7, <1>8, <1>9 DEF Next, RunStep

\* runPubSub drops nothing silently and makes up nothing: every copy that was
\* sent is under way, was dispatched, was reported, or was lost outside the
\* loop, and there are no more than patterns that match.
THEOREM CopiesAccounted == Spec => []EveryCopyAccounted
<1>1. Init => EveryCopyAccounted
  <2> SUFFICES ASSUME Init, NEW i \in Ids
               PROVE  /\ sent[i] = Occurrences(i, wire) + Occurrences(i, buffer)
                                   + Occurrences(i, dispatched) + reported[i] + lost[i]
                      /\ sent[i] <= IF i <= Len(published) THEN Copies(published[i]) ELSE 0
    BY DEF EveryCopyAccounted
  <2>1. /\ published = <<>> /\ wire = <<>> /\ buffer = <<>> /\ dispatched = <<>>
        /\ sent[i] = 0 /\ reported[i] = 0 /\ lost[i] = 0
    BY DEF Init, None
  <2>2. Occurrences(i, <<>>) = 0
    BY OccurrencesEmpty
  <2>3. Copies(published[i]) \in Nat
    BY CopiesType
  <2> QED BY <2>1, <2>2, <2>3
<1> QED
  BY <1>1, TypeInit, TypeStep, AccountedStep, PTL DEF Spec

\* Ready is closed by a Run whose subscription the server has confirmed.
THEOREM ReadyConfirmed == Spec => ReadyAfterSubscribed
<1>1. ASSUME [Next]_vars PROVE [ready' /\ ~ready => subscribed']_vars
  <2>1. CASE Receive
    BY <2>1 DEF Receive, network
  <2>2. CASE ready' = ready \/ ~ready'
    BY <2>2
  <2>3. ASSUME NEW m \in Message, Publish(m) PROVE ready' = ready
    BY <2>3 DEF Publish, process
  <2>4. Deliver \/ Break \/ Reconnect \/ PSubscribe => ready' = ready
    BY DEF Deliver, Break, Reconnect, PSubscribe, process
  <2>5. Run \/ Cancel \/ ReceiveFails \/ ContextDone => ready' = ready
    BY DEF Run, Cancel, ReceiveFails, ContextDone
  <2>6. TakeMessage \/ TakeUndecodable \/ DispatchReturns \/ UNCHANGED vars => ready' = ready
    BY DEF TakeMessage, TakeUndecodable, DispatchReturns, vars, process
  <2>7. Crash => ~ready'
    BY DEF Crash
  <2> QED
    BY <1>1, <2>1, <2>2, <2>3, <2>4, <2>5, <2>6, <2>7 DEF Next, RunStep
<1> QED BY <1>1, PTL DEF Spec, ReadyAfterSubscribed

=============================================================================
