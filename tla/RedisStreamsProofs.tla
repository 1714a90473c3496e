--------------------------- MODULE RedisStreamsProofs ---------------------------
(* Proofs about RedisStreams, for every number of consumers, entries, starts   *)
(* and faults, and every configuration.                                        *)
EXTENDS RedisStreams, FiniteSetTheorems, TLAPS

USE ConfigAssumption, BoundAssumption

-----------------------------------------------------------------------------
(* A goroutine's fields, and what moving one goroutine leaves behind.      *)

LEMMA ReaderFields ==
  ASSUME ProcessTypeOK, NEW c \in Consumers
  PROVE  /\ reader[c].pc \in ReaderPc /\ reader[c].batch \in SUBSET Ids
         /\ reader[c].cur \in 0..MaxEntries
  BY DEF ProcessTypeOK, Goroutine

LEMMA ReclaimerFields ==
  ASSUME ProcessTypeOK, NEW c \in Consumers
  PROVE  /\ reclaimer[c].pc \in ReclaimerPc /\ reclaimer[c].batch \in SUBSET Ids
         /\ reclaimer[c].cur \in 0..MaxEntries
  BY DEF ProcessTypeOK, Goroutine

LEMMA ReaderMoves ==
  ASSUME ProcessTypeOK, NEW c \in Consumers, NEW pc \in ReaderPc,
         NEW b \in SUBSET Ids, NEW i \in 0..MaxEntries, ReaderGoes(c, pc, b, i)
  PROVE  /\ reader' \in [Consumers -> Goroutine(ReaderPc)]
         /\ reader'[c].pc = pc /\ reader'[c].batch = b /\ reader'[c].cur = i
         /\ \A d \in Consumers \ {c} : reader'[d] = reader[d]
<1>1. At(pc, b, i) \in Goroutine(ReaderPc)
  BY DEF At, Goroutine
<1>2. reader' = [reader EXCEPT ![c] = At(pc, b, i)]
  BY DEF ReaderGoes
<1>3. reader' \in [Consumers -> Goroutine(ReaderPc)] /\ reader'[c] = At(pc, b, i)
      /\ \A d \in Consumers \ {c} : reader'[d] = reader[d]
  BY <1>1, <1>2 DEF ProcessTypeOK
<1>4. QED
  BY <1>3 DEF At

LEMMA ReclaimerMoves ==
  ASSUME ProcessTypeOK, NEW c \in Consumers, NEW pc \in ReclaimerPc,
         NEW b \in SUBSET Ids, NEW i \in 0..MaxEntries, ReclaimerGoes(c, pc, b, i)
  PROVE  /\ reclaimer' \in [Consumers -> Goroutine(ReclaimerPc)]
         /\ reclaimer'[c].pc = pc /\ reclaimer'[c].batch = b /\ reclaimer'[c].cur = i
         /\ \A d \in Consumers \ {c} : reclaimer'[d] = reclaimer[d]
<1>1. At(pc, b, i) \in Goroutine(ReclaimerPc)
  BY DEF At, Goroutine
<1>2. reclaimer' = [reclaimer EXCEPT ![c] = At(pc, b, i)]
  BY DEF ReclaimerGoes
<1>3. reclaimer' \in [Consumers -> Goroutine(ReclaimerPc)] /\ reclaimer'[c] = At(pc, b, i)
      /\ \A d \in Consumers \ {c} : reclaimer'[d] = reclaimer[d]
  BY <1>1, <1>2 DEF ProcessTypeOK
<1>4. QED
  BY <1>3 DEF At

-----------------------------------------------------------------------------
(* Type correctness                                                        *)

LEMMA UnreadDelivered ==
  ASSUME ServerTypeOK, XReadGroup
  PROVE  /\ last' \in 0..added /\ last <= last' /\ trimmed <= last'
         /\ pending' = pending \cup Unread
         /\ Unread = {i \in 1..last' : i > last /\ i > trimmed}
  BY DEF ServerTypeOK, XReadGroup, Unread, ReadFrom, Ids

LEMMA ReaderStepTypeOK ==
  ASSUME TypeOK, NEW c \in Consumers, ReaderOk(c), ReaderStep(c)
  PROVE  TypeOK'
<1> USE DEF TypeOK
<1>1. ServerTypeOK'
  <2>1. CASE ReaderReads(c) \/ ReaderReadFails(c)
    <3>1. UNCHANGED <<added, trimmed, idle, dlq>> /\ (XReadGroup \/ UNCHANGED <<last, pending>>)
      BY <2>1 DEF ReaderReads, ReaderReadFails
    <3>2. CASE XReadGroup
      <4>1. /\ last' \in 0..added /\ last <= last'
            /\ pending' = pending \cup {i \in 1..last' : i > last /\ i > trimmed}
        BY <3>2, UnreadDelivered
      <4>2. 1..last \subseteq 1..last'
        BY <4>1 DEF ServerTypeOK
      <4>3. pending' \subseteq 1..last'
        BY <4>1, <4>2 DEF ServerTypeOK
      <4>4. idle' \subseteq pending'
        BY <3>1, <4>1 DEF ServerTypeOK
      <4>5. QED
        BY <3>1, <4>1, <4>3, <4>4 DEF ServerTypeOK
    <3>3. QED
      BY <3>1, <3>2 DEF ServerTypeOK
  <2>2. CASE ReaderAcks(c)
    BY <2>2 DEF ReaderAcks, XAck, ServerTypeOK
  <2>3. CASE UNCHANGED server
    BY <2>3 DEF server, ServerTypeOK
  <2>4. QED
    BY <2>1, <2>2, <2>3 DEF ReaderStep, ReaderCheck, ReaderTimesOut,
       ReaderDispatches, ReaderBatchEnds, ReaderHandled, ReaderHandlerFails
<1>2. ProcessTypeOK'
  <2>1. UNCHANGED <<cancelled, local>>
    BY DEF ReaderStep, ReaderCheck, ReaderReads, ReaderTimesOut, ReaderReadFails,
       ReaderDispatches, ReaderBatchEnds, ReaderHandled, ReaderHandlerFails, ReaderAcks
  <2>2. \E pc \in ReaderPc, b \in SUBSET Ids, i \in 0..MaxEntries : ReaderGoes(c, pc, b, i)
    <3> USE ReaderFields DEF ReaderPc
    <3>1. CASE ReaderReads(c)
      BY <3>1 DEF ReaderReads, Unread
    <3>2. CASE ReaderDispatches(c)
      BY <3>2 DEF ReaderDispatches, Ids
    <3>3. CASE ReaderCheck(c) \/ ReaderTimesOut(c) \/ ReaderReadFails(c) \/ ReaderBatchEnds(c)
      BY <3>3 DEF ReaderCheck, ReaderTimesOut, ReaderReadFails, ReaderBatchEnds
    <3>4. CASE ReaderHandled(c) \/ ReaderHandlerFails(c) \/ ReaderAcks(c)
      BY <3>4 DEF ReaderHandled, ReaderHandlerFails, ReaderAcks
    <3>5. QED
      BY <3>1, <3>2, <3>3, <3>4 DEF ReaderStep
  <2>3. QED
    BY <2>1, <2>2, ReaderMoves DEF local, ProcessTypeOK
<1>3. HistoryTypeOK'
  <2>1. CASE ReaderReadFails(c) \/ ReaderAcks(c)
    BY <2>1 DEF ReaderReadFails, ReaderAcks, Fault, HistoryTypeOK
  <2>2. CASE ReaderDispatches(c)
    BY <2>2, ReaderFields DEF ReaderDispatches, HistoryTypeOK
  <2>3. CASE ReaderHandled(c)
    <3>1. reader[c].cur \in 1..last
      BY <2>3 DEF ReaderHandled, ReaderOk
    <3>2. reader[c].cur \in Ids
      BY <3>1, BoundAssumption DEF ServerTypeOK, Ids
    <3>3. QED
      BY <2>3, <3>2 DEF ReaderHandled, HistoryTypeOK
  <2>4. CASE UNCHANGED history
    BY <2>4 DEF history, HistoryTypeOK
  <2>5. QED
    BY <2>1, <2>2, <2>3, <2>4 DEF ReaderStep, ReaderCheck, ReaderReads,
       ReaderTimesOut, ReaderBatchEnds, ReaderHandlerFails
<1>4. QED
  BY <1>1, <1>2, <1>3

\* The entries XAUTOCLAIM hands out are pending; it only shortens the list.
LEMMA ClaimedPending ==
  ASSUME ServerTypeOK, NEW n \in 0..MaxEntries
  PROVE  /\ Claimed(n) \subseteq pending /\ Claimed(n) \in SUBSET Ids
         /\ \A i \in Taken(n) \ Claimed(n) : i \in pending /\ i <= trimmed
         /\ XAutoClaim(n) => pending' \subseteq pending /\ idle' \subseteq pending'
<1>1. Taken(n) \subseteq pending
  BY DEF Taken, Eligible, Scanned
<1>2. pending \subseteq Ids /\ trimmed \in Int
  BY DEF ServerTypeOK, Ids
<1>3. Claimed(n) \subseteq pending
  BY <1>1 DEF Claimed
<1>4. ASSUME NEW i \in Taken(n) \ Claimed(n) PROVE i \in pending /\ i <= trimmed
  <2>1. i \in pending
    BY <1>1
  <2>2. i \in Int
    BY <1>2, <2>1 DEF Ids
  <2>3. QED
    BY <1>2, <2>1, <2>2 DEF Claimed
<1>5. XAutoClaim(n) => pending' \subseteq pending /\ idle' \subseteq pending'
  BY DEF XAutoClaim, ServerTypeOK
<1>6. QED
  BY <1>2, <1>3, <1>4, <1>5

LEMMA ReclaimerStepTypeOK ==
  ASSUME TypeOK, NEW c \in Consumers, ReclaimerOk(c), ReclaimerStep(c)
  PROVE  TypeOK'
<1> USE DEF TypeOK
<1>0. cursor[c] \in 0..MaxEntries
  BY DEF ProcessTypeOK
<1>1. ServerTypeOK'
  <2>1. CASE ReclaimerClaims(c) \/ ReclaimerClaimFails(c)
    BY <1>0, <2>1, ClaimedPending DEF ReclaimerClaims, ReclaimerClaimFails, ServerTypeOK
  <2>2. CASE ReclaimerAcks(c) \/ ReclaimerDropsEntry(c)
    BY <2>2 DEF ReclaimerAcks, ReclaimerDropsEntry, XAck, ServerTypeOK
  <2>3. CASE ReclaimerDeadLetters(c)
    BY <2>3 DEF ReclaimerDeadLetters, AddToDlq, ServerTypeOK
  <2>4. CASE UNCHANGED server
    BY <2>4 DEF server, ServerTypeOK
  <2>5. QED
    BY <2>1, <2>2, <2>3, <2>4 DEF ReclaimerStep, ReclaimerStops, ReclaimerGivesUp,
       ReclaimerDispatches, ReclaimerBatchEnds, ReclaimerHandled, ReclaimerHandlerFails
<1>2. ProcessTypeOK'
  <2>1. UNCHANGED <<cancelled, reader>>
    BY DEF ReclaimerStep, ReclaimerStops, ReclaimerClaims, ReclaimerClaimFails,
       ReclaimerGivesUp, ReclaimerDispatches, ReclaimerBatchEnds, ReclaimerHandled,
       ReclaimerHandlerFails, ReclaimerAcks, ReclaimerDeadLetters, ReclaimerDropsEntry,
       processes
  <2>2. CASE ReclaimerClaimFails(c)
    BY <2>2 DEF ReclaimerClaimFails, processes, local, ProcessTypeOK
  <2>3. CASE ~ReclaimerClaimFails(c)
    <3> USE ReclaimerFields DEF ReclaimerPc
    <3>1. \E pc \in ReclaimerPc, b \in SUBSET Ids, i \in 0..MaxEntries :
            ReclaimerGoes(c, pc, b, i)
      <4>1. CASE ReclaimerClaims(c)
        BY <1>0, <4>1, ClaimedPending DEF ReclaimerClaims
      <4>2. CASE ReclaimerGivesUp(c) \/ ReclaimerDispatches(c)
        <5>1. PICK i \in reclaimer[c].batch, pc \in {"dlq", "xack", "handler"} : Counts(c, i, pc)
          BY <4>2 DEF ReclaimerGivesUp, ReclaimerDispatches
        <5>2. i \in 0..MaxEntries
          BY DEF Ids
        <5>3. QED
          BY <5>1, <5>2 DEF Counts
      <4>3. CASE ReclaimerStops(c) \/ ReclaimerBatchEnds(c)
        BY <4>3 DEF ReclaimerStops, ReclaimerBatchEnds
      <4>4. CASE ReclaimerHandled(c) \/ ReclaimerHandlerFails(c) \/ ReclaimerAcks(c)
        BY <4>4 DEF ReclaimerHandled, ReclaimerHandlerFails, ReclaimerAcks
      <4>5. CASE ReclaimerDeadLetters(c) \/ ReclaimerDropsEntry(c)
        BY <4>5 DEF ReclaimerDeadLetters, ReclaimerDropsEntry
      <4>6. QED
        BY <2>3, <4>1, <4>2, <4>3, <4>4, <4>5 DEF ReclaimerStep
    <3>2. cursor' \in [Consumers -> 0..MaxEntries]
      <4>1. CASE ReclaimerClaims(c) \/ ReclaimerStops(c)
        BY <4>1 DEF ReclaimerClaims, ReclaimerStops, Forget, ProcessTypeOK
      <4>2. CASE UNCHANGED cursor
        BY <4>2 DEF ProcessTypeOK
      <4>3. QED
        BY <2>3, <4>1, <4>2 DEF ReclaimerStep, ReclaimerGivesUp, ReclaimerDispatches,
           ReclaimerBatchEnds, ReclaimerHandled, ReclaimerHandlerFails, ReclaimerAcks,
           ReclaimerDeadLetters, ReclaimerDropsEntry
    <3>3. attempts' \in [Consumers -> [Ids -> Nat]]
      <4>1. CASE ReclaimerStops(c)
        BY <4>1 DEF ReclaimerStops, Forget, ProcessTypeOK
      <4>2. CASE ReclaimerGivesUp(c) \/ ReclaimerDispatches(c)
        <5>1. PICK i \in Ids : attempts' = [attempts EXCEPT ![c][i] = @ + 1]
          BY <4>2 DEF ReclaimerGivesUp, ReclaimerDispatches, Counts
        <5>2. QED
          BY <5>1 DEF ProcessTypeOK
      <4>3. CASE ReclaimerDropsEntry(c)
        BY <4>3 DEF ReclaimerDropsEntry, ProcessTypeOK
      <4>4. CASE UNCHANGED attempts
        BY <4>4 DEF ProcessTypeOK
      <4>5. QED
        BY <2>3, <4>1, <4>2, <4>3, <4>4 DEF ReclaimerStep, ReclaimerClaims,
           ReclaimerBatchEnds, ReclaimerHandled, ReclaimerHandlerFails, ReclaimerAcks,
           ReclaimerDeadLetters
    <3>4. QED
      BY <2>1, <3>1, <3>2, <3>3, ReclaimerMoves DEF ProcessTypeOK
  <2>4. QED
    BY <2>2, <2>3
<1>3. HistoryTypeOK'
  <2>1. CASE ReclaimerClaimFails(c) \/ ReclaimerAcks(c)
             \/ ReclaimerDeadLetters(c) \/ ReclaimerDropsEntry(c)
    BY <2>1 DEF ReclaimerClaimFails, ReclaimerAcks, ReclaimerDeadLetters,
       ReclaimerDropsEntry, Fault, HistoryTypeOK
  <2>2. CASE ReclaimerGivesUp(c) \/ ReclaimerDispatches(c)
    BY <2>2, ReclaimerFields DEF ReclaimerGivesUp, ReclaimerDispatches, HistoryTypeOK
  <2>3. CASE ReclaimerHandled(c)
    <3>1. reclaimer[c].cur \in Ids
      BY <2>3 DEF ReclaimerHandled, ReclaimerOk, ServerTypeOK, Ids
    <3>2. QED
      BY <2>3, <3>1 DEF ReclaimerHandled, HistoryTypeOK
  <2>4. CASE UNCHANGED history
    BY <2>4 DEF history, HistoryTypeOK
  <2>5. QED
    BY <2>1, <2>2, <2>3, <2>4 DEF ReclaimerStep, ReclaimerStops, ReclaimerClaims,
       ReclaimerBatchEnds, ReclaimerHandlerFails
<1>4. QED
  BY <1>1, <1>2, <1>3

LEMMA ProcessLifeTypeOK ==
  ASSUME TypeOK, NEW c \in Consumers, Start(c) \/ Cancel(c) \/ Return(c) \/ Crash(c)
  PROVE  TypeOK'
<1> USE DEF TypeOK
<1>1. ServerTypeOK'
  BY DEF Start, Cancel, Return, Crash, Stop, server, ServerTypeOK
<1>2. ProcessTypeOK'
  <2>0. 0 \in 0..MaxEntries /\ {} \in SUBSET Ids
    OBVIOUS
  <2>1. CASE Start(c)
    <3>1. reader' \in [Consumers -> Goroutine(ReaderPc)]
      BY <2>0, <2>1, ReaderMoves DEF Start, ReaderPc
    <3>2. reclaimer' \in [Consumers -> Goroutine(ReclaimerPc)]
      <4>1. \E pc \in ReclaimerPc : ReclaimerGoes(c, pc, {}, 0)
        BY <2>1 DEF Start, ReclaimerPc
      <4>2. QED
        BY <2>0, <4>1, ReclaimerMoves
    <3>3. QED
      BY <2>1, <3>1, <3>2 DEF Start, ProcessTypeOK
  <2>2. CASE Cancel(c)
    BY <2>2 DEF Cancel, local, ProcessTypeOK
  <2>3. CASE Stop(c)
    <3>1. cursor' \in [Consumers -> 0..MaxEntries] /\ attempts' \in [Consumers -> [Ids -> Nat]]
      BY <2>3 DEF Stop, Forget, ProcessTypeOK
    <3>2. reader' \in [Consumers -> Goroutine(ReaderPc)]
      BY <2>0, <2>3, ReaderMoves DEF Stop, ReaderPc
    <3>3. reclaimer' \in [Consumers -> Goroutine(ReclaimerPc)]
      BY <2>0, <2>3, ReclaimerMoves DEF Stop, ReclaimerPc
    <3>4. QED
      BY <2>3, <3>1, <3>2, <3>3 DEF Stop, ProcessTypeOK
  <2>4. QED
    BY <2>1, <2>2, <2>3 DEF Return, Crash
<1>3. HistoryTypeOK'
  BY DEF Start, Cancel, Return, Crash, Stop, history, HistoryTypeOK
<1>4. QED
  BY <1>1, <1>2, <1>3

LEMMA EnvironmentTypeOK ==
  ASSUME TypeOK, Publish \/ (\E i \in Ids : Elapse(i))
  PROVE  TypeOK'
<1>1. UNCHANGED <<cancelled, reader, reclaimer, cursor, attempts, starts, faults,
                  handled, exhausted, tries>>
  BY DEF Publish, Elapse, processes, local, history
<1>2. ProcessTypeOK' /\ HistoryTypeOK'
  BY <1>1 DEF TypeOK, ProcessTypeOK, HistoryTypeOK
<1>3. ServerTypeOK'
  <2>1. CASE Publish
    <3>1. added' \in 0..MaxEntries /\ trimmed' \in 0..added' /\ last' \in 0..added'
      BY <2>1 DEF Publish, TypeOK, ServerTypeOK
    <3>2. QED
      BY <2>1, <3>1 DEF Publish, TypeOK, ServerTypeOK
  <2>2. CASE \E i \in Ids : Elapse(i)
    BY <2>2 DEF Elapse, TypeOK, ServerTypeOK
  <2>3. QED
    BY <2>1, <2>2
<1>4. QED
  BY <1>2, <1>3 DEF TypeOK

LEMMA NextTypeOK ==
  ASSUME TypeOK, \A c \in Consumers : ReaderOk(c) /\ ReclaimerOk(c), [Next]_vars
  PROVE  TypeOK'
<1>1. CASE Next
  BY <1>1, ReaderStepTypeOK, ReclaimerStepTypeOK, ProcessLifeTypeOK, EnvironmentTypeOK
  DEF Next
<1>2. CASE UNCHANGED vars
  BY <1>2 DEF vars, server, processes, local, history, TypeOK, ServerTypeOK,
     ProcessTypeOK, HistoryTypeOK
<1>3. QED
  BY <1>1, <1>2

-----------------------------------------------------------------------------
(* What only grows                                                         *)

Grows ==
  /\ added <= added' /\ last <= last' /\ trimmed <= trimmed'
  /\ handled \subseteq handled' /\ exhausted \subseteq exhausted'
  /\ \A i \in Ids : dlq[i] <= dlq'[i] /\ tries[i] <= tries'[i]

LEMMA NextGrows ==
  ASSUME TypeOK, \A c \in Consumers : ReaderOk(c) /\ ReclaimerOk(c), [Next]_vars
  PROVE  Grows
<1> USE DEF TypeOK, ServerTypeOK, HistoryTypeOK
<1>1. CASE Publish \/ (\E i \in Ids : Elapse(i)) \/ UNCHANGED vars
  BY <1>1 DEF Publish, Elapse, vars, server, processes, local, history, Grows
<1>2. ASSUME NEW c \in Consumers, Start(c) \/ Cancel(c) \/ Return(c) \/ Crash(c)
      PROVE  Grows
  BY <1>2 DEF Start, Cancel, Return, Crash, Stop, server, history, Grows
<1>3. ASSUME NEW c \in Consumers, ReaderStep(c)
      PROVE  Grows
  <2>1. added' = added /\ trimmed' = trimmed /\ dlq' = dlq /\ exhausted' = exhausted
    BY <1>3 DEF ReaderStep, ReaderCheck, ReaderReads, ReaderTimesOut, ReaderReadFails,
       ReaderDispatches, ReaderBatchEnds, ReaderHandled, ReaderHandlerFails, ReaderAcks,
       server, history
  <2>2. handled \subseteq handled'
    BY <1>3 DEF ReaderStep, ReaderCheck, ReaderReads, ReaderTimesOut, ReaderReadFails,
       ReaderDispatches, ReaderBatchEnds, ReaderHandled, ReaderHandlerFails, ReaderAcks,
       history
  <2>3. last <= last'
    <3>1. XReadGroup \/ last' = last
      BY <1>3 DEF ReaderStep, ReaderCheck, ReaderReads, ReaderTimesOut, ReaderReadFails,
         ReaderDispatches, ReaderBatchEnds, ReaderHandled, ReaderHandlerFails, ReaderAcks,
         server
    <3>2. QED
      BY <3>1, UnreadDelivered
  <2>4. \A i \in Ids : tries[i] <= tries'[i]
    <3>1. tries' = tries \/ \E i \in Ids : tries' = [tries EXCEPT ![i] = @ + 1]
      BY <1>3, ReaderFields DEF ReaderStep, ReaderCheck, ReaderReads, ReaderTimesOut,
         ReaderReadFails, ReaderDispatches, ReaderBatchEnds, ReaderHandled,
         ReaderHandlerFails, ReaderAcks, history
    <3>2. QED
      BY <3>1
  <2>5. QED
    BY <2>1, <2>2, <2>3, <2>4 DEF Grows
<1>4. ASSUME NEW c \in Consumers, ReclaimerStep(c)
      PROVE  Grows
  <2> USE <1>4 DEF ReclaimerStep, ReclaimerStops, ReclaimerClaims, ReclaimerClaimFails,
       ReclaimerGivesUp, ReclaimerDispatches, ReclaimerBatchEnds, ReclaimerHandled,
       ReclaimerHandlerFails, ReclaimerAcks, ReclaimerDeadLetters, ReclaimerDropsEntry
  <2>1. added' = added /\ trimmed' = trimmed /\ last' = last
    BY DEF server
  <2>2. handled \subseteq handled' /\ exhausted \subseteq exhausted'
    BY DEF history
  <2>3. \A i \in Ids : tries[i] <= tries'[i]
    <3>1. tries' = tries \/ \E i \in Ids : tries' = [tries EXCEPT ![i] = @ + 1]
      BY ReclaimerFields DEF history
    <3>2. QED
      BY <3>1
  <2>4. \A i \in Ids : dlq[i] <= dlq'[i]
    <3>1. dlq' = dlq \/ \E i \in Ids : dlq' = [dlq EXCEPT ![i] = @ + 1]
      BY DEF server, AddToDlq, ReclaimerOk, Ids
    <3>2. QED
      BY <3>1
  <2>5. QED
    BY <2>1, <2>2, <2>3, <2>4 DEF Grows
<1>5. QED
  BY <1>1, <1>2, <1>3, <1>4 DEF Next

-----------------------------------------------------------------------------
(* The goroutines stay consistent                                          *)

LEMMA ReaderStaysOk ==
  ASSUME TypeOK, TypeOK', Grows, NEW c \in Consumers, reader'[c] = reader[c], ReaderOk(c)
  PROVE  ReaderOk(c)'
<1>1. 1..last \subseteq 1..last'
  BY DEF TypeOK, ServerTypeOK, Grows
<1>2. QED
  BY <1>1 DEF ReaderOk, Grows

LEMMA GivenUpStays ==
  ASSUME TypeOK, TypeOK', Grows, NEW i \in Ids, GivenUp(i)
  PROVE  GivenUp(i)'
<1>1. dlq[i] \in Nat /\ dlq'[i] \in Nat /\ dlq[i] <= dlq'[i]
  BY DEF Grows, TypeOK, ServerTypeOK
<1>2. QED
  BY <1>1 DEF GivenUp, Grows

LEMMA ReclaimerStaysOk ==
  ASSUME TypeOK, TypeOK', Grows, NEW c \in Consumers, reclaimer'[c] = reclaimer[c],
         ReclaimerOk(c)
  PROVE  ReclaimerOk(c)'
<1>1. 1..last \subseteq 1..last' /\ 1..last \subseteq Ids
  BY DEF TypeOK, ServerTypeOK, Grows, Ids
<1>2. QED
  BY <1>1, GivenUpStays DEF ReclaimerOk, Grows

LEMMA ReaderStepOk ==
  ASSUME TypeOK, TypeOK', Grows, NEW c \in Consumers, ReaderOk(c), ReaderStep(c)
  PROVE  ReaderOk(c)'
<1>0. /\ 0 \in 0..MaxEntries /\ {} \in SUBSET Ids /\ 1..last \subseteq 1..last'
      /\ 1..last \subseteq Ids /\ ProcessTypeOK
  BY DEF TypeOK, ServerTypeOK, Grows, Ids
<1> USE <1>0, ReaderFields DEF ReaderPc
<1>1. CASE ReaderCheck(c) \/ ReaderTimesOut(c) \/ ReaderReadFails(c) \/ ReaderBatchEnds(c)
  <2>1. \E pc \in {"top", "done", "xread"} : ReaderGoes(c, pc, {}, 0)
    BY <1>1 DEF ReaderCheck, ReaderTimesOut, ReaderReadFails, ReaderBatchEnds
  <2>2. reader'[c].pc \in {"top", "done", "xread"} /\ reader'[c].batch = {}
    BY <2>1, ReaderMoves
  <2>3. QED
    BY <2>2 DEF ReaderOk
<1>2. CASE ReaderReads(c)
  <2>1. Unread \in SUBSET Ids /\ Unread \subseteq 1..last'
    BY <1>2, UnreadDelivered DEF ReaderReads, Unread, TypeOK
  <2>2. reader'[c].pc = "loop" /\ reader'[c].batch = Unread
    BY <1>2, <2>1, ReaderMoves DEF ReaderReads
  <2>3. QED
    BY <2>1, <2>2 DEF ReaderOk
<1>3. CASE ReaderDispatches(c)
  <2>1. PICK i \in reader[c].batch : ReaderGoes(c, "handler", reader[c].batch \ {i}, i)
    BY <1>3 DEF ReaderDispatches
  <2>2. i \in 1..last /\ i \in 0..MaxEntries
    BY DEF ReaderOk, Ids
  <2>3. /\ reader'[c].pc = "handler" /\ reader'[c].batch = reader[c].batch \ {i}
        /\ reader'[c].cur = i
    BY <2>1, <2>2, ReaderMoves
  <2>4. QED
    BY <2>2, <2>3 DEF ReaderOk
<1>4. CASE ReaderHandled(c)
  <2>1. /\ reader'[c].pc = "ack" /\ reader'[c].batch = reader[c].batch
        /\ reader'[c].cur = reader[c].cur
    BY <1>4, ReaderMoves DEF ReaderHandled
  <2>2. QED
    BY <1>4, <2>1 DEF ReaderHandled, ReaderOk
<1>5. CASE ReaderHandlerFails(c) \/ ReaderAcks(c)
  <2>1. reader'[c].pc = "loop" /\ reader'[c].batch = reader[c].batch
    BY <1>5, ReaderMoves DEF ReaderHandlerFails, ReaderAcks
  <2>2. QED
    BY <2>1 DEF ReaderOk
<1>6. QED
  BY <1>1, <1>2, <1>3, <1>4, <1>5 DEF ReaderStep

LEMMA ReclaimerStepOk ==
  ASSUME TypeOK, TypeOK', Grows, NEW c \in Consumers, ReclaimerOk(c), ReclaimerStep(c)
  PROVE  ReclaimerOk(c)'
<1>0. /\ 0 \in 0..MaxEntries /\ {} \in SUBSET Ids /\ 1..last \subseteq 1..last'
      /\ 1..last \subseteq Ids /\ ProcessTypeOK
  BY DEF TypeOK, ServerTypeOK, Grows, Ids
<1> USE <1>0, ReclaimerFields DEF ReclaimerPc
<1>1. CASE ReclaimerStops(c) \/ ReclaimerBatchEnds(c)
  <2>1. \E pc \in {"top", "done"} : ReclaimerGoes(c, pc, {}, 0)
    BY <1>1 DEF ReclaimerStops, ReclaimerBatchEnds
  <2>2. reclaimer'[c].pc \in {"top", "done"} /\ reclaimer'[c].batch = {}
    BY <2>1, ReclaimerMoves
  <2>3. QED
    BY <2>2 DEF ReclaimerOk
<1>2. CASE ReclaimerClaims(c)
  <2>1. Claimed(cursor[c]) \in SUBSET Ids /\ Claimed(cursor[c]) \subseteq 1..last
    BY ClaimedPending DEF TypeOK, ServerTypeOK, ProcessTypeOK
  <2>2. \E pc \in {"top", "loop"} : ReclaimerGoes(c, pc, Claimed(cursor[c]), 0)
    BY <1>2 DEF ReclaimerClaims
  <2>3. reclaimer'[c].pc \in {"top", "loop"} /\ reclaimer'[c].batch = Claimed(cursor[c])
    BY <2>1, <2>2, ReclaimerMoves
  <2>4. QED
    BY <2>1, <2>3 DEF ReclaimerOk
<1>3. CASE ReclaimerClaimFails(c)
  BY <1>3, ReclaimerStaysOk DEF ReclaimerClaimFails, processes, local
<1>4. CASE ReclaimerGivesUp(c)
  <2>1. PICK i \in reclaimer[c].batch :
          /\ ReclaimerGoes(c, IF DeadLetter THEN "dlq" ELSE "xack",
                           reclaimer[c].batch \ {i}, i)
          /\ exhausted' = exhausted \cup {i}
    BY <1>4 DEF ReclaimerGivesUp, Counts
  <2>2. i \in 1..last /\ i \in 0..MaxEntries
    BY DEF ReclaimerOk, Ids
  <2>3. /\ reclaimer'[c].pc = IF DeadLetter THEN "dlq" ELSE "xack"
        /\ reclaimer'[c].batch = reclaimer[c].batch \ {i} /\ reclaimer'[c].cur = i
    BY <2>1, <2>2, ReclaimerMoves
  <2>4. QED
    BY <2>1, <2>2, <2>3 DEF ReclaimerOk, GivenUp
<1>5. CASE ReclaimerDispatches(c)
  <2>1. PICK i \in reclaimer[c].batch :
          ReclaimerGoes(c, "handler", reclaimer[c].batch \ {i}, i)
    BY <1>5 DEF ReclaimerDispatches, Counts
  <2>2. i \in 1..last /\ i \in 0..MaxEntries
    BY DEF ReclaimerOk, Ids
  <2>3. /\ reclaimer'[c].pc = "handler"
        /\ reclaimer'[c].batch = reclaimer[c].batch \ {i} /\ reclaimer'[c].cur = i
    BY <2>1, <2>2, ReclaimerMoves
  <2>4. QED
    BY <2>2, <2>3 DEF ReclaimerOk
<1>6. CASE ReclaimerHandled(c)
  <2>1. /\ reclaimer'[c].pc = "ack" /\ reclaimer'[c].batch = reclaimer[c].batch
        /\ reclaimer'[c].cur = reclaimer[c].cur
    BY <1>6, ReclaimerMoves DEF ReclaimerHandled
  <2>2. QED
    BY <1>6, <2>1 DEF ReclaimerHandled, ReclaimerOk
<1>7. CASE ReclaimerDeadLetters(c) /\ reclaimer'[c].pc = "xack"
  <2>1. reclaimer[c].cur \in 1..last /\ reclaimer[c].cur \in exhausted
    BY <1>7 DEF ReclaimerDeadLetters, ReclaimerOk
  <2>2. /\ reclaimer'[c].batch = reclaimer[c].batch /\ reclaimer'[c].cur = reclaimer[c].cur
        /\ AddToDlq(reclaimer[c].cur)
    BY <1>7, ReclaimerMoves DEF ReclaimerDeadLetters
  <2>3. dlq'[reclaimer[c].cur] > 0
    BY <2>1, <2>2 DEF AddToDlq, TypeOK, ServerTypeOK
  <2>4. QED
    BY <1>7, <2>1, <2>2, <2>3 DEF ReclaimerOk, GivenUp, Grows
<1>8. CASE \/ ReclaimerHandlerFails(c) \/ ReclaimerAcks(c) \/ ReclaimerDropsEntry(c)
           \/ ReclaimerDeadLetters(c) /\ reclaimer'[c].pc # "xack"
  <2>1. reclaimer'[c].pc = "loop" /\ reclaimer'[c].batch = reclaimer[c].batch
    BY <1>8, ReclaimerMoves DEF ReclaimerHandlerFails, ReclaimerAcks, ReclaimerDropsEntry,
       ReclaimerDeadLetters
  <2>2. QED
    BY <2>1 DEF ReclaimerOk
<1>9. QED
  BY <1>1, <1>2, <1>3, <1>4, <1>5, <1>6, <1>7, <1>8 DEF ReclaimerStep

LEMMA GoroutinesStayOk ==
  ASSUME TypeOK, \A c \in Consumers : ReaderOk(c) /\ ReclaimerOk(c), [Next]_vars
  PROVE  \A c \in Consumers : ReaderOk(c)' /\ ReclaimerOk(c)'
<1>0. TypeOK' /\ Grows
  BY NextTypeOK, NextGrows
<1>1. CASE UNCHANGED <<reader, reclaimer>>
  BY <1>0, <1>1, ReaderStaysOk, ReclaimerStaysOk
<1>2. ASSUME NEW c \in Consumers, ReaderStep(c), NEW d \in Consumers
      PROVE  ReaderOk(d)' /\ ReclaimerOk(d)'
  <2>1. UNCHANGED reclaimer /\ reader' = [reader EXCEPT ![c] = reader'[c]]
    BY <1>0, <1>2 DEF ReaderStep, ReaderCheck, ReaderReads, ReaderTimesOut, ReaderReadFails,
       ReaderDispatches, ReaderBatchEnds, ReaderHandled, ReaderHandlerFails, ReaderAcks,
       local, ReaderGoes, TypeOK, ProcessTypeOK
  <2>2. CASE d = c
    BY <1>0, <1>2, <2>1, <2>2, ReaderStepOk, ReclaimerStaysOk
  <2>3. CASE d # c
    <3>1. reader'[d] = reader[d]
      BY <2>1, <2>3 DEF TypeOK, ProcessTypeOK
    <3>2. QED
      BY <1>0, <2>1, <3>1, ReaderStaysOk, ReclaimerStaysOk
  <2>4. QED
    BY <2>2, <2>3
<1>3. ASSUME NEW c \in Consumers, ReclaimerStep(c), NEW d \in Consumers
      PROVE  ReaderOk(d)' /\ ReclaimerOk(d)'
  <2>1. UNCHANGED reader /\ reclaimer' = [reclaimer EXCEPT ![c] = reclaimer'[c]]
    BY <1>0, <1>3 DEF ReclaimerStep, ReclaimerStops, ReclaimerClaims, ReclaimerClaimFails,
       ReclaimerGivesUp, ReclaimerDispatches, ReclaimerBatchEnds, ReclaimerHandled,
       ReclaimerHandlerFails, ReclaimerAcks, ReclaimerDeadLetters, ReclaimerDropsEntry,
       processes, local, Counts, ReclaimerGoes, TypeOK, ProcessTypeOK
  <2>2. CASE d = c
    BY <1>0, <1>3, <2>1, <2>2, ReclaimerStepOk, ReaderStaysOk
  <2>3. CASE d # c
    <3>1. reclaimer'[d] = reclaimer[d]
      BY <2>1, <2>3 DEF TypeOK, ProcessTypeOK
    <3>2. QED
      BY <1>0, <2>1, <3>1, ReaderStaysOk, ReclaimerStaysOk
  <2>4. QED
    BY <2>2, <2>3
<1>4. ASSUME NEW c \in Consumers, Start(c) \/ Stop(c), NEW d \in Consumers
      PROVE  ReaderOk(d)' /\ ReclaimerOk(d)'
  <2>0. 0 \in 0..MaxEntries /\ {} \in SUBSET Ids /\ ProcessTypeOK
    BY DEF TypeOK
  <2>1. PICK pc \in {"top", "down"} : ReaderGoes(c, pc, {}, 0)
    BY <1>4 DEF Start, Stop
  <2>2. PICK qc \in {"top", "done", "down"} : ReclaimerGoes(c, qc, {}, 0)
    BY <1>4 DEF Start, Stop
  <2>3. /\ reader'[c].pc \in {"top", "down"} /\ reader'[c].batch = {}
        /\ \A e \in Consumers \ {c} : reader'[e] = reader[e]
    <3>1. pc \in ReaderPc
      BY DEF ReaderPc
    <3>2. QED
      BY <2>0, <2>1, <3>1, ReaderMoves
  <2>4. /\ reclaimer'[c].pc \in {"top", "done", "down"} /\ reclaimer'[c].batch = {}
        /\ \A e \in Consumers \ {c} : reclaimer'[e] = reclaimer[e]
    <3>1. qc \in ReclaimerPc
      BY DEF ReclaimerPc
    <3>2. QED
      BY <2>0, <2>2, <3>1, ReclaimerMoves
  <2>5. CASE d = c
    BY <2>3, <2>4, <2>5 DEF ReaderOk, ReclaimerOk
  <2>6. CASE d # c
    BY <1>0, <2>3, <2>4, <2>6, ReaderStaysOk, ReclaimerStaysOk
  <2>7. QED
    BY <2>5, <2>6
<1>5. QED
  <2>1. UNCHANGED vars => UNCHANGED <<reader, reclaimer>>
    BY DEF vars, processes, local
  <2>2. Publish \/ (\E i \in Ids : Elapse(i)) => UNCHANGED <<reader, reclaimer>>
    BY DEF Publish, Elapse, processes, local
  <2>3. \A c \in Consumers : Cancel(c) => UNCHANGED <<reader, reclaimer>>
    BY DEF Cancel, local
  <2>4. QED
    BY <1>1, <1>2, <1>3, <1>4, <2>1, <2>2, <2>3 DEF Next, Return, Crash

-----------------------------------------------------------------------------
(* No entry is lost                                                        *)

\* XREADGROUP moves entries from the stream to the pending list.
LEMMA ReadIsPending ==
  ASSUME TypeOK, [Next]_vars, NEW i \in 1..added, i > last
  PROVE  i > last' \/ i \in pending' \/ i <= trimmed
<1>1. CASE XReadGroup
  BY <1>1, UnreadDelivered DEF TypeOK, ServerTypeOK
<1>2. CASE last' = last
  BY <1>2
<1>3. QED
  <2>1. [Next]_vars => XReadGroup \/ last' = last
    BY DEF Next, Publish, Elapse, Start, Cancel, Return, Crash, Stop,
       ReaderStep, ReaderCheck, ReaderReads, ReaderTimesOut, ReaderReadFails,
       ReaderDispatches, ReaderBatchEnds, ReaderHandled, ReaderHandlerFails, ReaderAcks,
       ReclaimerStep, ReclaimerStops, ReclaimerClaims, ReclaimerClaimFails,
       ReclaimerGivesUp, ReclaimerDispatches, ReclaimerBatchEnds, ReclaimerHandled,
       ReclaimerHandlerFails, ReclaimerAcks, ReclaimerDeadLetters, ReclaimerDropsEntry,
       vars, server
  <2>2. QED
    BY <1>1, <1>2, <2>1

\* What leaves the pending list was handled, given up or trimmed before.
LEMMA PendingRemoved ==
  ASSUME TypeOK, \A c \in Consumers : ReaderOk(c) /\ ReclaimerOk(c), [Next]_vars,
         NEW i \in pending, i \notin pending'
  PROVE  i \in handled \/ GivenUp(i) \/ i <= trimmed
<1>1. \/ pending \subseteq pending'
      \/ \E c \in Consumers : ReaderAcks(c) \/ ReclaimerAcks(c) \/ ReclaimerDropsEntry(c)
      \/ \E c \in Consumers : XAutoClaim(cursor[c])
  BY DEF Next, Publish, Elapse, Start, Cancel, Return, Crash, Stop,
     ReaderStep, ReaderCheck, ReaderReads, ReaderTimesOut, ReaderReadFails,
     ReaderDispatches, ReaderBatchEnds, ReaderHandled, ReaderHandlerFails,
     ReclaimerStep, ReclaimerStops, ReclaimerClaims, ReclaimerClaimFails,
     ReclaimerGivesUp, ReclaimerDispatches, ReclaimerBatchEnds, ReclaimerHandled,
     ReclaimerHandlerFails, ReclaimerDeadLetters, XReadGroup, vars, server
<1>2. ASSUME NEW c \in Consumers, ReaderAcks(c) PROVE i \in handled
  BY <1>2 DEF ReaderAcks, XAck, ReaderOk
<1>3. ASSUME NEW c \in Consumers, ReclaimerAcks(c) PROVE i \in handled
  BY <1>3 DEF ReclaimerAcks, XAck, ReclaimerOk
<1>4. ASSUME NEW c \in Consumers, ReclaimerDropsEntry(c) PROVE GivenUp(i)
  BY <1>4 DEF ReclaimerDropsEntry, XAck, ReclaimerOk
<1>5. ASSUME NEW c \in Consumers, XAutoClaim(cursor[c]) PROVE i <= trimmed
  <2>1. i \in Taken(cursor[c]) \ Claimed(cursor[c])
    BY <1>5 DEF XAutoClaim
  <2>2. cursor[c] \in 0..MaxEntries
    BY DEF TypeOK, ProcessTypeOK
  <2>3. QED
    BY <2>1, <2>2, ClaimedPending DEF TypeOK
<1>6. QED
  BY <1>1, <1>2, <1>3, <1>4, <1>5

LEMMA NextNoEntryLost ==
  ASSUME TypeOK, NoEntryLost, \A c \in Consumers : ReaderOk(c) /\ ReclaimerOk(c),
         [Next]_vars
  PROVE  NoEntryLost'
<1> SUFFICES ASSUME NEW i \in 1..added'
             PROVE  (\/ i > last \/ i \in pending \/ i <= trimmed
                     \/ i \in handled \/ GivenUp(i))'
  BY DEF NoEntryLost
<1>0. TypeOK' /\ Grows
  BY NextTypeOK, NextGrows
<1>1. CASE i \notin 1..added
  <2>1. CASE Publish
    BY <1>1, <2>1 DEF Publish, TypeOK, ServerTypeOK
  <2>2. CASE added' = added
    BY <1>1, <2>2
  <2>3. QED
    BY <2>1, <2>2 DEF Next, Elapse, Start, Cancel, Return, Crash, Stop,
       ReaderStep, ReaderCheck, ReaderReads, ReaderTimesOut, ReaderReadFails,
       ReaderDispatches, ReaderBatchEnds, ReaderHandled, ReaderHandlerFails, ReaderAcks,
       ReclaimerStep, ReclaimerStops, ReclaimerClaims, ReclaimerClaimFails,
       ReclaimerGivesUp, ReclaimerDispatches, ReclaimerBatchEnds, ReclaimerHandled,
       ReclaimerHandlerFails, ReclaimerAcks, ReclaimerDeadLetters, ReclaimerDropsEntry,
       vars, server
<1>2. CASE i \in 1..added
  <2>0. i \in Ids /\ (i <= trimmed => i <= trimmed')
    BY <1>0, <1>2 DEF TypeOK, ServerTypeOK, Ids, Grows
  <2>1. CASE i > last
    BY <1>2, <2>0, <2>1, ReadIsPending
  <2>2. CASE i \in pending
    BY <1>0, <2>0, <2>2, PendingRemoved, GivenUpStays DEF Grows
  <2>3. CASE i <= trimmed \/ i \in handled \/ GivenUp(i)
    BY <1>0, <2>0, <2>3, GivenUpStays DEF Grows
  <2>4. QED
    BY <1>2, <2>1, <2>2, <2>3 DEF NoEntryLost
<1>3. QED
  BY <1>1, <1>2

-----------------------------------------------------------------------------
(* Counting                                                                *)

\* How tries, attempts and exhausted move together: one claim is counted, and
\* dispatched below MaxDeliveries or given up at it; or a count is forgotten.
LEMMA CountingStep ==
  ASSUME TypeOK, [Next]_vars
  PROVE  \/ UNCHANGED <<tries, attempts, exhausted>>
         \/ \E i \in Ids : tries' = [tries EXCEPT ![i] = @ + 1]
                           /\ UNCHANGED <<attempts, exhausted>>
         \/ \E c \in Consumers, i \in Ids :
              /\ attempts' = [attempts EXCEPT ![c][i] = @ + 1]
              /\ \/ /\ attempts[c][i] + 1 < MaxDeliveries
                    /\ tries' = [tries EXCEPT ![i] = @ + 1] /\ UNCHANGED exhausted
                 \/ /\ attempts[c][i] + 1 >= MaxDeliveries
                    /\ exhausted' = exhausted \cup {i} /\ UNCHANGED tries
         \/ /\ \E c \in Consumers :
                 \/ attempts' = [attempts EXCEPT ![c] = [i \in Ids |-> 0]]
                 \/ \E i \in Ids \cup {0} : attempts' = [attempts EXCEPT ![c][i] = 0]
            /\ UNCHANGED <<tries, exhausted>>
<1> USE DEF history
<1>1. CASE Publish \/ (\E i \in Ids : Elapse(i)) \/ UNCHANGED vars
  BY <1>1 DEF Publish, Elapse, vars, processes, local
<1>2. ASSUME NEW c \in Consumers, Start(c) \/ Cancel(c) \/ Return(c) \/ Crash(c)
      PROVE  \/ UNCHANGED <<tries, attempts, exhausted>>
             \/ /\ attempts' = [attempts EXCEPT ![c] = [i \in Ids |-> 0]]
                /\ UNCHANGED <<tries, exhausted>>
  BY <1>2 DEF Start, Cancel, Return, Crash, Stop, Forget, local
<1>3. ASSUME NEW c \in Consumers, ReaderStep(c)
      PROVE  \/ UNCHANGED <<tries, attempts, exhausted>>
             \/ \E i \in Ids : tries' = [tries EXCEPT ![i] = @ + 1]
                               /\ UNCHANGED <<attempts, exhausted>>
  BY <1>3, ReaderFields DEF ReaderStep, ReaderCheck, ReaderReads, ReaderTimesOut,
     ReaderReadFails, ReaderDispatches, ReaderBatchEnds, ReaderHandled,
     ReaderHandlerFails, ReaderAcks, local, TypeOK
<1>4. ASSUME NEW c \in Consumers, ReclaimerGivesUp(c) \/ ReclaimerDispatches(c)
      PROVE  \E i \in Ids :
               /\ attempts' = [attempts EXCEPT ![c][i] = @ + 1]
               /\ \/ /\ attempts[c][i] + 1 < MaxDeliveries
                     /\ tries' = [tries EXCEPT ![i] = @ + 1] /\ UNCHANGED exhausted
                  \/ /\ attempts[c][i] + 1 >= MaxDeliveries
                     /\ exhausted' = exhausted \cup {i} /\ UNCHANGED tries
  BY <1>4, ReclaimerFields DEF ReclaimerGivesUp, ReclaimerDispatches, Counts, TypeOK
<1>5. ASSUME NEW c \in Consumers, ReclaimerStops(c) \/ ReclaimerDropsEntry(c)
      PROVE  /\ \/ attempts' = [attempts EXCEPT ![c] = [i \in Ids |-> 0]]
                \/ \E i \in Ids \cup {0} : attempts' = [attempts EXCEPT ![c][i] = 0]
             /\ UNCHANGED <<tries, exhausted>>
  <2>1. reclaimer[c].cur \in Ids \cup {0}
    BY ReclaimerFields DEF TypeOK, Ids
  <2>2. QED
    BY <1>5, <2>1 DEF ReclaimerStops, ReclaimerDropsEntry, Forget
<1>6. ASSUME NEW c \in Consumers, ReclaimerStep(c),
             ~(\/ ReclaimerGivesUp(c) \/ ReclaimerDispatches(c)
               \/ ReclaimerStops(c) \/ ReclaimerDropsEntry(c))
      PROVE  UNCHANGED <<tries, attempts, exhausted>>
  BY <1>6 DEF ReclaimerStep, ReclaimerClaims, ReclaimerClaimFails, ReclaimerBatchEnds,
     ReclaimerHandled, ReclaimerHandlerFails, ReclaimerAcks, ReclaimerDeadLetters,
     processes, local
<1>7. QED
  BY <1>1, <1>2, <1>3, <1>4, <1>5, <1>6 DEF Next

LEMMA NextCounts ==
  ASSUME TypeOK, AttemptsWereTries, GivenUpOnlyAfterTries, [Next]_vars
  PROVE  AttemptsWereTries' /\ GivenUpOnlyAfterTries'
<1> USE DEF TypeOK, ProcessTypeOK, HistoryTypeOK, AttemptsWereTries, GivenUpOnlyAfterTries
<1>1. CASE UNCHANGED <<tries, attempts, exhausted>>
  BY <1>1
<1>2. CASE \E i \in Ids : tries' = [tries EXCEPT ![i] = @ + 1]
                          /\ UNCHANGED <<attempts, exhausted>>
  BY <1>2
<1>3. ASSUME NEW c \in Consumers, NEW i \in Ids,
             attempts' = [attempts EXCEPT ![c][i] = @ + 1],
             attempts[c][i] + 1 < MaxDeliveries,
             tries' = [tries EXCEPT ![i] = @ + 1], UNCHANGED exhausted
      PROVE  AttemptsWereTries' /\ GivenUpOnlyAfterTries'
  BY <1>3
<1>4. ASSUME NEW c \in Consumers, NEW i \in Ids,
             attempts' = [attempts EXCEPT ![c][i] = @ + 1],
             attempts[c][i] + 1 >= MaxDeliveries,
             exhausted' = exhausted \cup {i}, UNCHANGED tries
      PROVE  AttemptsWereTries' /\ GivenUpOnlyAfterTries'
  <2>1. tries[i] >= MaxDeliveries - 1
    BY <1>4
  <2>2. QED
    BY <1>4, <2>1
<1>5. ASSUME NEW c \in Consumers, UNCHANGED <<tries, exhausted>>,
             \/ attempts' = [attempts EXCEPT ![c] = [i \in Ids |-> 0]]
             \/ \E i \in Ids \cup {0} : attempts' = [attempts EXCEPT ![c][i] = 0]
      PROVE  AttemptsWereTries' /\ GivenUpOnlyAfterTries'
  <2>1. \A d \in Consumers, j \in Ids : attempts'[d][j] \in {0, attempts[d][j]}
    <3>1. CASE attempts' = [attempts EXCEPT ![c] = [i \in Ids |-> 0]]
      BY <3>1
    <3>2. ASSUME NEW i \in Ids \cup {0}, attempts' = [attempts EXCEPT ![c][i] = 0]
          PROVE  \A d \in Consumers, j \in Ids : attempts'[d][j] \in {0, attempts[d][j]}
      BY <3>2
    <3>3. QED
      BY <1>5, <3>1, <3>2
  <2>2. QED
    BY <1>5, <2>1
<1>6. QED
  BY <1>1, <1>2, <1>3, <1>4, <1>5, CountingStep

LEMMA NextHistory ==
  ASSUME TypeOK, \A c \in Consumers : ReaderOk(c) /\ ReclaimerOk(c), [Next]_vars,
         \A i \in Ids : dlq[i] > 0 => i \in exhausted, handled \cup exhausted \subseteq 1..last
  PROVE  (/\ \A i \in Ids : dlq[i] > 0 => i \in exhausted
          /\ handled \cup exhausted \subseteq 1..last)'
<1>0. TypeOK' /\ Grows
  BY NextTypeOK, NextGrows
<1>1. 1..last \subseteq 1..last'
  BY <1>0 DEF Grows, TypeOK, ServerTypeOK
<1>2. \/ UNCHANGED dlq
      \/ \E c \in Consumers : ReclaimerDeadLetters(c) /\ AddToDlq(reclaimer[c].cur)
  BY DEF Next, Publish, Elapse, Start, Cancel, Return, Crash, Stop,
     ReaderStep, ReaderCheck, ReaderReads, ReaderTimesOut, ReaderReadFails,
     ReaderDispatches, ReaderBatchEnds, ReaderHandled, ReaderHandlerFails, ReaderAcks,
     ReclaimerStep, ReclaimerStops, ReclaimerClaims, ReclaimerClaimFails,
     ReclaimerGivesUp, ReclaimerDispatches, ReclaimerBatchEnds, ReclaimerHandled,
     ReclaimerHandlerFails, ReclaimerAcks, ReclaimerDeadLetters, ReclaimerDropsEntry,
     vars, server
<1>3. \A i \in Ids : dlq'[i] > 0 => i \in exhausted'
  <2>1. CASE UNCHANGED dlq
    BY <1>0, <2>1 DEF Grows
  <2>2. ASSUME NEW c \in Consumers, ReclaimerDeadLetters(c), AddToDlq(reclaimer[c].cur),
               NEW i \in Ids, dlq'[i] > 0
        PROVE  i \in exhausted'
    <3>1. reclaimer[c].cur \in exhausted
      BY <2>2 DEF ReclaimerDeadLetters, ReclaimerOk
    <3>2. i = reclaimer[c].cur \/ dlq'[i] = dlq[i]
      BY <2>2 DEF AddToDlq, TypeOK, ServerTypeOK
    <3>3. QED
      BY <1>0, <2>2, <3>1, <3>2 DEF Grows
  <2>3. QED
    BY <1>2, <2>1, <2>2
<1>4. \A i \in handled' \ handled : i \in 1..last
  BY DEF Next, Publish, Elapse, Start, Cancel, Return, Crash, Stop,
     ReaderStep, ReaderCheck, ReaderReads, ReaderTimesOut, ReaderReadFails,
     ReaderDispatches, ReaderBatchEnds, ReaderHandled, ReaderHandlerFails, ReaderAcks,
     ReclaimerStep, ReclaimerStops, ReclaimerClaims, ReclaimerClaimFails,
     ReclaimerGivesUp, ReclaimerDispatches, ReclaimerBatchEnds, ReclaimerHandled,
     ReclaimerHandlerFails, ReclaimerAcks, ReclaimerDeadLetters, ReclaimerDropsEntry,
     ReaderOk, ReclaimerOk, vars, history
<1>5. \A i \in exhausted' \ exhausted : i \in 1..last
  BY DEF Next, Publish, Elapse, Start, Cancel, Return, Crash, Stop,
     ReaderStep, ReaderCheck, ReaderReads, ReaderTimesOut, ReaderReadFails,
     ReaderDispatches, ReaderBatchEnds, ReaderHandled, ReaderHandlerFails, ReaderAcks,
     ReclaimerStep, ReclaimerStops, ReclaimerClaims, ReclaimerClaimFails,
     ReclaimerGivesUp, ReclaimerDispatches, ReclaimerBatchEnds, ReclaimerHandled,
     ReclaimerHandlerFails, ReclaimerAcks, ReclaimerDeadLetters, ReclaimerDropsEntry,
     ReclaimerOk, vars, history
<1>6. QED
  BY <1>1, <1>3, <1>4, <1>5

-----------------------------------------------------------------------------
(* The theorems                                                            *)

LEMMA InitIInv == Init => IInv
<1> SUFFICES ASSUME Init PROVE IInv
  OBVIOUS
<1>1. TypeOK
  BY DEF Init, TypeOK, ServerTypeOK, ProcessTypeOK, HistoryTypeOK, At, Goroutine,
     ReaderPc, ReclaimerPc, Ids
<1>2. \A c \in Consumers : ReaderOk(c) /\ ReclaimerOk(c)
  BY DEF Init, At, ReaderOk, ReclaimerOk
<1>3. NoEntryLost /\ AttemptsWereTries /\ GivenUpOnlyAfterTries
  BY DEF Init, NoEntryLost, AttemptsWereTries, GivenUpOnlyAfterTries
<1>4. QED
  BY <1>1, <1>2, <1>3 DEF Init, IInv

LEMMA NextIInv == IInv /\ [Next]_vars => IInv'
<1> SUFFICES ASSUME IInv, [Next]_vars PROVE IInv'
  OBVIOUS
<1> USE DEF IInv
<1>1. TypeOK'
  BY NextTypeOK
<1>2. NoEntryLost'
  BY NextNoEntryLost
<1>3. \A c \in Consumers : ReaderOk(c)' /\ ReclaimerOk(c)'
  BY GoroutinesStayOk
<1>4. AttemptsWereTries' /\ GivenUpOnlyAfterTries'
  BY NextCounts
<1>5. (/\ \A i \in Ids : dlq[i] > 0 => i \in exhausted
       /\ handled \cup exhausted \subseteq 1..last)'
  BY NextHistory
<1>6. QED
  BY <1>1, <1>2, <1>3, <1>4, <1>5

\* The inductive invariant holds of every reachable state.
THEOREM Invariance == Spec => []IInv
  BY InitIInv, NextIInv, PTL DEF Spec

\* The server, the goroutines and their bookkeeping keep their types.
THEOREM TypeCorrect == Spec => []TypeOK
<1>1. IInv => TypeOK
  BY DEF IInv
<1>2. QED
  BY <1>1, Invariance, PTL

\* At-least-once delivery of readLoop, runReclaimer and the dispatch's Ack, for
\* any number of consumers, entries, crashes, restarts and failing commands.
THEOREM NothingLost == Spec => []NoEntryLost
<1>1. IInv => NoEntryLost
  BY DEF IInv
<1>2. QED
  BY <1>1, Invariance, PTL

\* runReclaimer gives an entry up only after MaxDeliveries - 1 dispatches of it.
THEOREM GivenUpHonestly == Spec => []GivenUpOnlyAfterTries
<1>1. IInv => GivenUpOnlyAfterTries
  BY DEF IInv
<1>2. QED
  BY <1>1, Invariance, PTL

-----------------------------------------------------------------------------
(* Refinement of the abstract at-least-once queue                          *)

\* What a step does to the state the abstract queue is made of.
Visible == <<added, last, pending, handled, exhausted, dlq>>
Settles(i) ==
  /\ i \in handled \/ GivenUp(i)
  /\ pending' = pending \ {i} /\ UNCHANGED <<added, last, handled, exhausted, dlq>>
Handles(i) ==
  /\ i \in 1..last /\ handled' = handled \cup {i}
  /\ UNCHANGED <<added, last, pending, exhausted, dlq>>
GivesUp(i) ==
  /\ i \in 1..last
  /\ \/ exhausted' = exhausted \cup {i} /\ UNCHANGED dlq
     \/ i \in exhausted /\ AddToDlq(i) /\ UNCHANGED exhausted
  /\ UNCHANGED <<added, last, pending, handled>>

LEMMA VisibleSteps ==
  ASSUME IInv, trimmed = 0, MaxLen = 0, [Next]_vars
  PROVE  /\ trimmed' = 0
         /\ \/ UNCHANGED Visible \/ Publish
            \/ XReadGroup /\ UNCHANGED <<added, handled, exhausted, dlq>>
            \/ \E i \in Ids : Settles(i) \/ Handles(i) \/ GivesUp(i)
<1> USE DEF IInv, Visible, server, processes, history
<1>0. 1..last \subseteq Ids
  BY DEF TypeOK, ServerTypeOK, Ids
<1>1. CASE Publish \/ (\E i \in Ids : Elapse(i)) \/ UNCHANGED vars
  BY <1>1 DEF Publish, Elapse, vars
<1>2. ASSUME NEW c \in Consumers, Start(c) \/ Cancel(c) \/ Return(c) \/ Crash(c)
      PROVE  UNCHANGED <<Visible, trimmed>>
  BY <1>2 DEF Start, Cancel, Return, Crash, Stop
<1>3. ASSUME NEW c \in Consumers, ReaderHandled(c) PROVE Handles(reader[c].cur)
  BY <1>3 DEF ReaderHandled, Handles, ReaderOk
<1>4. ASSUME NEW c \in Consumers, ReaderAcks(c)
      PROVE  Settles(reader[c].cur) \/ UNCHANGED Visible
  BY <1>4 DEF ReaderAcks, XAck, Settles, ReaderOk
<1>5. ASSUME NEW c \in Consumers, ReaderStep(c)
      PROVE  /\ trimmed' = trimmed
             /\ \/ UNCHANGED Visible \/ ReaderHandled(c) \/ ReaderAcks(c)
                \/ XReadGroup /\ UNCHANGED <<added, handled, exhausted, dlq>>
  BY <1>5 DEF ReaderStep, ReaderCheck, ReaderReads, ReaderTimesOut, ReaderReadFails,
     ReaderDispatches, ReaderBatchEnds, ReaderHandled, ReaderHandlerFails, ReaderAcks
<1>6. ASSUME NEW c \in Consumers, ReclaimerHandled(c) PROVE Handles(reclaimer[c].cur)
  BY <1>6 DEF ReclaimerHandled, Handles, ReclaimerOk
<1>7. ASSUME NEW c \in Consumers, ReclaimerAcks(c) \/ ReclaimerDropsEntry(c)
      PROVE  Settles(reclaimer[c].cur) \/ UNCHANGED Visible
  BY <1>7 DEF ReclaimerAcks, ReclaimerDropsEntry, XAck, Settles, ReclaimerOk
<1>8. ASSUME NEW c \in Consumers, ReclaimerGivesUp(c) PROVE \E i \in 1..last : GivesUp(i)
  BY <1>8 DEF ReclaimerGivesUp, Counts, GivesUp, ReclaimerOk
<1>9. ASSUME NEW c \in Consumers, ReclaimerDeadLetters(c)
      PROVE  GivesUp(reclaimer[c].cur) \/ UNCHANGED Visible
  BY <1>9 DEF ReclaimerDeadLetters, GivesUp, ReclaimerOk
<1>10. ASSUME NEW c \in Consumers, ReclaimerClaims(c) \/ ReclaimerClaimFails(c)
       PROVE  UNCHANGED Visible
  <2>1. cursor[c] \in 0..MaxEntries
    BY DEF TypeOK, ProcessTypeOK
  <2>2. \A i \in Taken(cursor[c]) \ Claimed(cursor[c]) : i \in 1..last /\ i <= 0
    BY <2>1, ClaimedPending DEF TypeOK, ServerTypeOK
  <2>3. Taken(cursor[c]) \ Claimed(cursor[c]) = {}
    BY <2>2 DEF TypeOK, ServerTypeOK
  <2>4. XAutoClaim(cursor[c]) => pending' = pending
    BY <2>3 DEF XAutoClaim
  <2>5. QED
    BY <1>10, <2>4 DEF ReclaimerClaims, ReclaimerClaimFails
<1>11. ASSUME NEW c \in Consumers, ReclaimerStep(c)
       PROVE  /\ trimmed' = trimmed
              /\ \/ UNCHANGED Visible
                 \/ ReclaimerClaims(c) \/ ReclaimerClaimFails(c) \/ ReclaimerGivesUp(c)
                 \/ ReclaimerHandled(c) \/ ReclaimerAcks(c)
                 \/ ReclaimerDeadLetters(c) \/ ReclaimerDropsEntry(c)
  BY <1>11 DEF ReclaimerStep, ReclaimerStops, ReclaimerClaims, ReclaimerClaimFails,
     ReclaimerGivesUp, ReclaimerDispatches, ReclaimerBatchEnds, ReclaimerHandled,
     ReclaimerHandlerFails, ReclaimerAcks, ReclaimerDeadLetters, ReclaimerDropsEntry
<1>12. \A c \in Consumers :
         /\ ReaderHandled(c) \/ ReaderAcks(c) => reader[c].cur \in Ids
         /\ ReclaimerHandled(c) \/ ReclaimerAcks(c) \/ ReclaimerDeadLetters(c)
            \/ ReclaimerDropsEntry(c) => reclaimer[c].cur \in Ids
  BY <1>0 DEF ReaderHandled, ReaderAcks, ReclaimerHandled, ReclaimerAcks,
     ReclaimerDeadLetters, ReclaimerDropsEntry, ReaderOk, ReclaimerOk
<1>13. QED
  BY <1>0, <1>1, <1>2, <1>3, <1>4, <1>5, <1>6, <1>7, <1>8, <1>9, <1>10, <1>11, <1>12
  DEF Next

LEMMA StepRefines ==
  ASSUME IInv, trimmed = 0, MaxLen = 0, [Next]_vars
  PROVE  [Queue!Next]_(Queue!vars)
<1> USE DEF Queue!Next, Queue!vars, Outstanding, GivenUpEntries, IInv, TypeOK, ServerTypeOK
<1>1. CASE UNCHANGED Visible
  BY <1>1 DEF Visible, GivenUp
<1>2. CASE Publish
  <2>1. PICK m \in Ids : m = added + 1
    BY <1>2 DEF Publish, Ids
  <2>2. 1..added' = (1..added) \cup {m} /\ m \notin 1..added
    BY <1>2, <2>1 DEF Publish
  <2>3. Outstanding' = Outstanding \cup {m}
    BY <1>2, <2>1 DEF Publish
  <2>4. GivenUpEntries' = GivenUpEntries
    BY <1>2 DEF Publish, GivenUp, history
  <2>5. Queue!Publish(m)
    BY <1>2, <2>2, <2>3, <2>4 DEF Publish, Queue!Publish, history
  <2>6. QED
    BY <2>5
<1>3. CASE XReadGroup /\ UNCHANGED <<added, handled, exhausted, dlq>>
  <2>1. /\ pending' = pending \cup {i \in 1..last' : i > last /\ i > trimmed}
        /\ last' \in 0..added /\ last <= last'
    BY <1>3, UnreadDelivered
  <2>2. Outstanding' = Outstanding
    BY <1>3, <2>1
  <2>3. GivenUpEntries' = GivenUpEntries
    BY <1>3 DEF GivenUp
  <2>4. QED
    BY <1>3, <2>2, <2>3
<1>4. ASSUME NEW i \in Ids, Settles(i) PROVE [Queue!Next]_(Queue!vars)
  <2>1. GivenUpEntries' = GivenUpEntries /\ (i \in handled \/ i \in GivenUpEntries)
    BY <1>4 DEF Settles, GivenUp
  <2>2. CASE i \notin pending
    BY <1>4, <2>1, <2>2 DEF Settles
  <2>3. CASE i \in pending
    <3>1. Outstanding' = Outstanding \ {i} /\ i \in Outstanding
      BY <1>4, <2>3 DEF Settles
    <3>2. Queue!Settle(i)
      BY <1>4, <2>1, <3>1 DEF Settles, Queue!Settle
    <3>3. QED
      BY <3>2
  <2>4. QED
    BY <2>2, <2>3
<1>5. ASSUME NEW i \in Ids, Handles(i) PROVE Queue!Handle(i)
  BY <1>5 DEF Handles, Queue!Handle, GivenUp
<1>6. ASSUME NEW i \in Ids, GivesUp(i) PROVE [Queue!Next]_(Queue!vars)
  <2>1. /\ i \in 1..added /\ Outstanding' = Outstanding
        /\ added' = added /\ handled' = handled
    BY <1>6 DEF GivesUp
  <2>2. GivenUpEntries' \in {GivenUpEntries, GivenUpEntries \cup {i}}
    <3>1. \A j \in Ids \ {i} : GivenUp(j)' <=> GivenUp(j)
      BY <1>6 DEF GivesUp, GivenUp, AddToDlq
    <3>2. GivenUp(i) => GivenUp(i)'
      BY <1>6 DEF GivesUp, GivenUp, AddToDlq
    <3>3. QED
      BY <3>1, <3>2
  <2>3. Queue!GiveUp(i) \/ UNCHANGED (Queue!vars)
    BY <2>1, <2>2 DEF Queue!GiveUp
  <2>4. QED
    BY <2>3
<1>7. QED
  BY <1>1, <1>2, <1>3, <1>4, <1>5, <1>6, VisibleSteps

NothingTrimmed == trimmed = 0

\* Without MAXLEN trimming, the streams runtime implements the abstract queue:
\* reading, claiming, failing and crashing never settle an entry, and an XACK
\* settles only one that was handled or given up.
THEOREM Refinement ==
  ASSUME MaxLen = 0
  PROVE  Spec => ImplementsAtLeastOnce
<1>1. Init => Queue!Init /\ NothingTrimmed
  BY DEF Init, Queue!Init, Outstanding, GivenUpEntries, GivenUp, NothingTrimmed
<1>2. NothingTrimmed /\ IInv /\ [Next]_vars => NothingTrimmed'
  BY VisibleSteps DEF NothingTrimmed
<1>3. NothingTrimmed /\ IInv /\ [Next]_vars => [Queue!Next]_(Queue!vars)
  BY StepRefines DEF NothingTrimmed
<1>4. QED
  BY <1>1, <1>2, <1>3, Invariance, PTL DEF Spec, ImplementsAtLeastOnce, Queue!Spec

-----------------------------------------------------------------------------
(* How often entries are delivered: DeliveriesBounded and                  *)
(* ExhaustedNotDispatched.                                                 *)
(*                                                                         *)
(* The argument of DeliveriesBounded is one of accounting.  A reader owes  *)
(* one dispatch of each entry of its batch, a reclaimer as many of each    *)
(* entry it can still claim as its attempts map leaves; these debts are    *)
(* sets, and what was dispatched plus the size of the debts never exceeds  *)
(* the bound.  Only starting a consumer and a failing command add debts,   *)
(* and both are counted.                                                   *)

(* The debts                                                               *)

\* The dispatches one life of the attempts map leaves a reclaimer per entry.
Retries == IF MaxDeliveries > 0 THEN MaxDeliveries - 1 ELSE 0

\* Entry i may still come out of XREADGROUP or XAUTOCLAIM.
Alive(i) == i > last \/ i \in pending

\* The reclaimer of c holds entry i, or may claim it again.
MayClaim(c, i) ==
  /\ reclaimer[c].pc # "down"
  /\ i \in reclaimer[c].batch \/ (c \notin cancelled /\ Alive(i))

ReadsLeft(i) == {c \in Consumers : i \in reader[c].batch}
RetriesLeft(i) ==
  {t \in Consumers \X (1..Retries) : MayClaim(t[1], i) /\ attempts[t[1]][i] < t[2]}
LettersLeft(i) ==
  {c \in Consumers :
     /\ MayClaim(c, i) \/ (reclaimer[c].pc = "dlq" /\ reclaimer[c].cur = i)
     /\ ~(reclaimer[c].pc = "xack" /\ reclaimer[c].cur = i)}

Undelivered(i) == IF i > last THEN 1 ELSE 0

\* A reclaimer between two entries is at none, and is never at one of those
\* still to come.
CurOk(c) ==
  /\ reclaimer[c].cur \notin reclaimer[c].batch
  /\ reclaimer[c].pc = "loop" => reclaimer[c].cur = 0

DebtsOk(i) ==
  /\ IsFiniteSet(ReadsLeft(i)) /\ IsFiniteSet(RetriesLeft(i)) /\ IsFiniteSet(LettersLeft(i))
  /\ tries[i] + Cardinality(ReadsLeft(i)) + Cardinality(RetriesLeft(i)) + Undelivered(i)
       <= 1 + Retries * (starts + faults)
  /\ dlq[i] + Cardinality(LettersLeft(i)) <= starts + faults

\* The inductive invariant of DeliveriesBounded, on top of IInv.
BoundInv ==
  /\ \A c \in Consumers : CurOk(c)
  /\ \A i \in Ids : DebtsOk(i)

-----------------------------------------------------------------------------
(* Counting sets                                                           *)

LEMMA Fewer ==
  ASSUME NEW S, NEW T, IsFiniteSet(S), T \subseteq S
  PROVE  /\ IsFiniteSet(T) /\ Cardinality(T) <= Cardinality(S)
         /\ Cardinality(T) \in Nat /\ Cardinality(S) \in Nat
  BY FS_Subset, FS_CardinalityType

LEMMA OneLess ==
  ASSUME NEW S, NEW T, NEW x, IsFiniteSet(S), x \in S, T \subseteq S \ {x}
  PROVE  /\ IsFiniteSet(T) /\ Cardinality(T) + 1 <= Cardinality(S)
         /\ Cardinality(T) \in Nat /\ Cardinality(S) \in Nat
<1>1. IsFiniteSet(S \ {x}) /\ Cardinality(S \ {x}) = Cardinality(S) - 1
  BY FS_RemoveElement
<1>2. IsFiniteSet(T) /\ Cardinality(T) <= Cardinality(S \ {x}) /\ Cardinality(T) \in Nat
  BY <1>1, Fewer
<1>3. Cardinality(S) \in Nat
  BY FS_CardinalityType
<1>4. QED
  BY <1>1, <1>2, <1>3

LEMMA OneMore ==
  ASSUME NEW S, NEW T, NEW x, IsFiniteSet(S), T \subseteq S \cup {x}
  PROVE  /\ IsFiniteSet(T) /\ Cardinality(T) <= Cardinality(S) + 1
         /\ Cardinality(T) \in Nat /\ Cardinality(S) \in Nat
<1>1. Cardinality(S) \in Nat
  BY FS_CardinalityType
<1>2. IsFiniteSet(S \cup {x}) /\ Cardinality(S \cup {x}) \in {Cardinality(S), Cardinality(S) + 1}
  BY FS_AddElement
<1>3. IsFiniteSet(T) /\ Cardinality(T) <= Cardinality(S \cup {x}) /\ Cardinality(T) \in Nat
  BY <1>2, Fewer
<1>4. QED
  BY <1>1, <1>2, <1>3

LEMMA OneRowMore ==
  ASSUME NEW S, NEW T, NEW c, NEW n \in Nat, IsFiniteSet(S), T \subseteq S \cup ({c} \X (1..n))
  PROVE  /\ IsFiniteSet(T) /\ Cardinality(T) <= Cardinality(S) + n
         /\ Cardinality(T) \in Nat /\ Cardinality(S) \in Nat
<1> DEFINE row == {c} \X (1..n)
           f == [k \in 1..n |-> <<c, k>>]
<1>1. IsFiniteSet(1..n) /\ Cardinality(1..n) = n
  BY FS_Interval
<1>2. f \in Surjection(1..n, row)
  <2>1. f \in [1..n -> row]
    OBVIOUS
  <2>2. \A t \in row : \E k \in 1..n : f[k] = t
    OBVIOUS
  <2>3. QED
    BY <2>1, <2>2 DEF Surjection
<1>3. IsFiniteSet(row) /\ Cardinality(row) <= n /\ Cardinality(row) \in Nat
  BY <1>1, <1>2, FS_Surjection, FS_CardinalityType
<1> HIDE DEF row
<1>4. /\ IsFiniteSet(S \cup row) /\ IsFiniteSet(S \cap row)
      /\ Cardinality(S \cup row) = Cardinality(S) + Cardinality(row) - Cardinality(S \cap row)
  BY <1>3, FS_Union, FS_Subset
<1>5. Cardinality(S) \in Nat /\ Cardinality(S \cap row) \in Nat /\ Cardinality(S \cup row) \in Nat
  BY <1>4, FS_CardinalityType
<1>6. IsFiniteSet(T) /\ Cardinality(T) <= Cardinality(S \cup row) /\ Cardinality(T) \in Nat
  BY <1>4, Fewer DEF row
<1>7. QED
  BY <1>3, <1>4, <1>5, <1>6

LEMMA SumNat ==
  ASSUME NEW u \in Nat, NEW v \in Nat
  PROVE  u + v \in Nat
  OBVIOUS

LEMMA TimesPlus ==
  ASSUME NEW r \in Nat, NEW u \in Nat, NEW v \in Nat
  PROVE  r * (u + v) = r * u + r * v
  OBVIOUS

LEMMA TimesMonotone ==
  ASSUME NEW r \in Nat, NEW u \in Nat, NEW v \in Nat, u <= v
  PROVE  r * u <= r * v
<1>1. PICK d \in Nat : v = u + d
  <2>1. v - u \in Nat /\ v = u + (v - u)
    OBVIOUS
  <2>2. QED
    BY <2>1
<1>2. r * v = r * u + r * d
  BY <1>1, TimesPlus
<1>3. r * d \in Nat /\ r * u \in Nat
  OBVIOUS
<1>4. QED
  BY <1>2, <1>3

\* The arithmetic of a step: l and x are an entry's dispatches and dead letters
\* with the debts, b the starts and faults; p is 1 for a step these count.
LEMMA Accounting ==
  ASSUME NEW n \in Nat, NEW b \in Nat, NEW w \in Nat, NEW l \in Nat, NEW m \in Nat,
         NEW x \in Nat, NEW y \in Nat, NEW p \in Nat, NEW q \in Nat,
         (p = 0 /\ q = 0) \/ (p = 1 /\ q = n),
         w >= b + p, l <= 1 + n * b, x <= b, m <= l + q, y <= x + p
  PROVE  m <= 1 + n * w /\ y <= w
<1>1. n * b + q <= n * w
  <2>1. n * (b + p) <= n * w
    BY TimesMonotone, b + p \in Nat
  <2>2. n * (b + p) = n * b + n * p
    BY TimesPlus
  <2>3. n * p = q
    OBVIOUS
  <2>4. QED
    BY <2>1, <2>2, <2>3
<1>2. n * b \in Nat /\ n * w \in Nat
  OBVIOUS
<1>3. QED
  BY <1>1, <1>2

\* The debts of one entry, and what was paid of them.
Dispatched(i) ==
  tries[i] + Cardinality(ReadsLeft(i)) + Cardinality(RetriesLeft(i)) + Undelivered(i)
DeadLettered(i) == dlq[i] + Cardinality(LettersLeft(i))
DebtsFinite(i) ==
  IsFiniteSet(ReadsLeft(i)) /\ IsFiniteSet(RetriesLeft(i)) /\ IsFiniteSet(LettersLeft(i))

LEMMA DebtTypes ==
  ASSUME TypeOK, NEW i \in Ids, DebtsFinite(i)
  PROVE  /\ Dispatched(i) \in Nat /\ DeadLettered(i) \in Nat /\ starts + faults \in Nat
         /\ starts \in Nat /\ faults \in Nat
         /\ tries[i] \in Nat /\ dlq[i] \in Nat /\ Undelivered(i) \in 0..1
         /\ Cardinality(ReadsLeft(i)) \in Nat /\ Cardinality(RetriesLeft(i)) \in Nat
         /\ Cardinality(LettersLeft(i)) \in Nat
<1>1. tries[i] \in Nat /\ dlq[i] \in Nat /\ starts \in Nat /\ faults \in Nat
  BY DEF TypeOK, HistoryTypeOK, ServerTypeOK
<1>2. Undelivered(i) \in 0..1
  BY DEF Undelivered
<1>3. /\ Cardinality(ReadsLeft(i)) \in Nat /\ Cardinality(RetriesLeft(i)) \in Nat
      /\ Cardinality(LettersLeft(i)) \in Nat
  BY FS_CardinalityType DEF DebtsFinite
<1>4. QED
  BY <1>1, <1>2, <1>3 DEF Dispatched, DeadLettered

LEMMA DebtTypesNext ==
  ASSUME TypeOK', NEW i \in Ids, DebtsFinite(i)'
  PROVE  /\ Dispatched(i)' \in Nat /\ DeadLettered(i)' \in Nat /\ starts' + faults' \in Nat
         /\ tries'[i] \in Int /\ dlq'[i] \in Int /\ Undelivered(i)' \in Int
         /\ Cardinality(ReadsLeft(i))' \in Int /\ Cardinality(RetriesLeft(i))' \in Int
         /\ Cardinality(LettersLeft(i))' \in Int
         /\ starts' \in Int /\ faults' \in Int
<1>1. tries'[i] \in Nat /\ dlq'[i] \in Nat /\ starts' \in Nat /\ faults' \in Nat
  BY DEF TypeOK, HistoryTypeOK, ServerTypeOK
<1>2. Undelivered(i)' \in Nat
  BY DEF Undelivered
<1>3. /\ Cardinality(ReadsLeft(i))' \in Nat /\ Cardinality(RetriesLeft(i))' \in Nat
      /\ Cardinality(LettersLeft(i))' \in Nat
  BY FS_CardinalityType DEF DebtsFinite
<1>4. Dispatched(i)' \in Nat
  <2>1. (tries'[i] + Cardinality(ReadsLeft(i))') \in Nat
    BY <1>1, <1>3, SumNat
  <2>2. (tries'[i] + Cardinality(ReadsLeft(i))' + Cardinality(RetriesLeft(i))') \in Nat
    BY <1>3, <2>1, SumNat
  <2>3. QED
    BY <1>2, <2>2, SumNat DEF Dispatched
<1>5. DeadLettered(i)' \in Nat
  BY <1>1, <1>3, SumNat DEF DeadLettered
<1>6. starts' + faults' \in Nat
  BY <1>1, SumNat
<1>7. QED
  BY <1>1, <1>2, <1>3, <1>4, <1>5, <1>6, Nat \subseteq Int

\* What a step does to the debts of one entry: one that is counted by starts or
\* faults (p = 1) may add a dead letter and Retries dispatches.
LEMMA DebtStep ==
  ASSUME TypeOK, TypeOK', NEW i \in Ids, DebtsOk(i), DebtsFinite(i)',
         NEW p \in Nat, NEW q \in Nat, (p = 0 /\ q = 0) \/ (p = 1 /\ q = Retries),
         starts' + faults' >= starts + faults + p,
         Dispatched(i)' <= Dispatched(i) + q,
         DeadLettered(i)' <= DeadLettered(i) + p
  PROVE  DebtsOk(i)'
<1>1. /\ Dispatched(i) \in Nat /\ DeadLettered(i) \in Nat /\ starts + faults \in Nat
  BY DebtTypes DEF DebtsOk, DebtsFinite
<1>2. /\ Dispatched(i)' \in Nat /\ DeadLettered(i)' \in Nat /\ starts' + faults' \in Nat
  BY DebtTypesNext
<1>3. Retries \in Nat
  BY DEF Retries
<1>4. Dispatched(i) <= 1 + Retries * (starts + faults) /\ DeadLettered(i) <= starts + faults
  BY DEF DebtsOk, Dispatched, DeadLettered
<1>5. /\ Dispatched(i)' <= 1 + Retries * (starts' + faults')
      /\ DeadLettered(i)' <= starts' + faults'
  BY <1>1, <1>2, <1>3, <1>4, Accounting
<1>6. QED
  BY <1>5 DEF DebtsOk, Dispatched, DeadLettered, DebtsFinite

\* A step that leaves an entry alone, or only cancels debts of it.
LEMMA DebtsQuiet ==
  ASSUME TypeOK, TypeOK', NEW i \in Ids, DebtsOk(i),
         ReadsLeft(i)' \subseteq ReadsLeft(i), RetriesLeft(i)' \subseteq RetriesLeft(i),
         LettersLeft(i)' \subseteq LettersLeft(i),
         tries'[i] = tries[i], dlq'[i] = dlq[i], last <= last',
         starts' + faults' >= starts + faults
  PROVE  DebtsOk(i)'
<1>1. DebtsFinite(i)'
  BY Fewer DEF DebtsOk, DebtsFinite
<1>2. /\ Cardinality(ReadsLeft(i))' <= Cardinality(ReadsLeft(i))
      /\ Cardinality(RetriesLeft(i))' <= Cardinality(RetriesLeft(i))
      /\ Cardinality(LettersLeft(i))' <= Cardinality(LettersLeft(i))
  BY Fewer DEF DebtsOk
<1>3. Undelivered(i)' <= Undelivered(i)
  BY DEF Undelivered, TypeOK, ServerTypeOK, Ids
<1>4. Dispatched(i)' <= Dispatched(i) + 0 /\ DeadLettered(i)' <= DeadLettered(i) + 0
  BY <1>1, <1>2, <1>3, DebtTypes, DebtTypesNext DEF Dispatched, DeadLettered, DebtsOk, DebtsFinite
<1>5. starts' + faults' >= starts + faults + 0
  BY <1>1, DebtTypes, DebtTypesNext DEF DebtsOk, DebtsFinite
<1>6. QED
  BY <1>1, <1>4, <1>5, DebtStep


\* A reader takes the entry from the stream.
LEMMA DebtsRead ==
  ASSUME TypeOK, TypeOK', NEW i \in Ids, DebtsOk(i), NEW c,
         i > last, i <= last', ReadsLeft(i)' \subseteq ReadsLeft(i) \cup {c},
         RetriesLeft(i)' \subseteq RetriesLeft(i), LettersLeft(i)' \subseteq LettersLeft(i),
         tries'[i] = tries[i], dlq'[i] = dlq[i], starts' = starts, faults' = faults
  PROVE  DebtsOk(i)'
<1>1. DebtsFinite(i)'
  BY Fewer, OneMore DEF DebtsOk, DebtsFinite
<1>2. /\ Cardinality(ReadsLeft(i))' <= Cardinality(ReadsLeft(i)) + 1
      /\ Cardinality(RetriesLeft(i))' <= Cardinality(RetriesLeft(i))
      /\ Cardinality(LettersLeft(i))' <= Cardinality(LettersLeft(i))
  BY Fewer, OneMore DEF DebtsOk
<1>3. Undelivered(i) = 1 /\ Undelivered(i)' = 0
  BY DEF Undelivered, TypeOK, ServerTypeOK, Ids
<1>4. Dispatched(i)' <= Dispatched(i) + 0 /\ DeadLettered(i)' <= DeadLettered(i) + 0
  BY <1>1, <1>2, <1>3, DebtTypes, DebtTypesNext DEF Dispatched, DeadLettered, DebtsOk, DebtsFinite
<1>5. starts' + faults' >= starts + faults + 0
  BY <1>1, DebtTypes, DebtTypesNext DEF DebtsOk, DebtsFinite
<1>6. QED
  BY <1>1, <1>4, <1>5, DebtStep

\* A reader dispatches the entry.
LEMMA DebtsReaderPays ==
  ASSUME TypeOK, TypeOK', NEW i \in Ids, DebtsOk(i), NEW c \in ReadsLeft(i),
         ReadsLeft(i)' \subseteq ReadsLeft(i) \ {c},
         RetriesLeft(i)' \subseteq RetriesLeft(i), LettersLeft(i)' \subseteq LettersLeft(i),
         tries'[i] = tries[i] + 1, dlq'[i] = dlq[i], last' = last,
         starts' = starts, faults' = faults
  PROVE  DebtsOk(i)'
<1>1. DebtsFinite(i)'
  BY Fewer, OneLess DEF DebtsOk, DebtsFinite
<1>2. /\ Cardinality(ReadsLeft(i))' + 1 <= Cardinality(ReadsLeft(i))
      /\ Cardinality(RetriesLeft(i))' <= Cardinality(RetriesLeft(i))
      /\ Cardinality(LettersLeft(i))' <= Cardinality(LettersLeft(i))
  BY Fewer, OneLess DEF DebtsOk
<1>3. Undelivered(i)' = Undelivered(i)
  BY DEF Undelivered
<1>4. Dispatched(i)' <= Dispatched(i) + 0 /\ DeadLettered(i)' <= DeadLettered(i) + 0
  BY <1>1, <1>2, <1>3, DebtTypes, DebtTypesNext DEF Dispatched, DeadLettered, DebtsOk, DebtsFinite
<1>5. starts' + faults' >= starts + faults + 0
  BY <1>1, DebtTypes, DebtTypesNext DEF DebtsOk, DebtsFinite
<1>6. QED
  BY <1>1, <1>4, <1>5, DebtStep

\* A reclaimer dispatches the entry again.
LEMMA DebtsReclaimerPays ==
  ASSUME TypeOK, TypeOK', NEW i \in Ids, DebtsOk(i), NEW t \in RetriesLeft(i),
         RetriesLeft(i)' \subseteq RetriesLeft(i) \ {t},
         ReadsLeft(i)' \subseteq ReadsLeft(i), LettersLeft(i)' \subseteq LettersLeft(i),
         tries'[i] = tries[i] + 1, dlq'[i] = dlq[i], last' = last,
         starts' = starts, faults' = faults
  PROVE  DebtsOk(i)'
<1>1. DebtsFinite(i)'
  BY Fewer, OneLess DEF DebtsOk, DebtsFinite
<1>2. /\ Cardinality(ReadsLeft(i))' <= Cardinality(ReadsLeft(i))
      /\ Cardinality(RetriesLeft(i))' + 1 <= Cardinality(RetriesLeft(i))
      /\ Cardinality(LettersLeft(i))' <= Cardinality(LettersLeft(i))
  BY Fewer, OneLess DEF DebtsOk
<1>3. Undelivered(i)' = Undelivered(i)
  BY DEF Undelivered
<1>4. Dispatched(i)' <= Dispatched(i) + 0 /\ DeadLettered(i)' <= DeadLettered(i) + 0
  BY <1>1, <1>2, <1>3, DebtTypes, DebtTypesNext DEF Dispatched, DeadLettered, DebtsOk, DebtsFinite
<1>5. starts' + faults' >= starts + faults + 0
  BY <1>1, DebtTypes, DebtTypesNext DEF DebtsOk, DebtsFinite
<1>6. QED
  BY <1>1, <1>4, <1>5, DebtStep

\* A reclaimer adds the entry to the dead-letter stream.
LEMMA DebtsLetterPaid ==
  ASSUME TypeOK, TypeOK', NEW i \in Ids, DebtsOk(i), NEW c \in LettersLeft(i),
         LettersLeft(i)' \subseteq LettersLeft(i) \ {c},
         ReadsLeft(i)' \subseteq ReadsLeft(i), RetriesLeft(i)' \subseteq RetriesLeft(i),
         tries'[i] = tries[i], dlq'[i] = dlq[i] + 1, last' = last,
         starts' = starts, faults' = faults
  PROVE  DebtsOk(i)'
<1>1. DebtsFinite(i)'
  BY Fewer, OneLess DEF DebtsOk, DebtsFinite
<1>2. /\ Cardinality(ReadsLeft(i))' <= Cardinality(ReadsLeft(i))
      /\ Cardinality(RetriesLeft(i))' <= Cardinality(RetriesLeft(i))
      /\ Cardinality(LettersLeft(i))' + 1 <= Cardinality(LettersLeft(i))
  BY Fewer, OneLess DEF DebtsOk
<1>3. Undelivered(i)' = Undelivered(i)
  BY DEF Undelivered
<1>4. Dispatched(i)' <= Dispatched(i) + 0 /\ DeadLettered(i)' <= DeadLettered(i) + 0
  BY <1>1, <1>2, <1>3, DebtTypes, DebtTypesNext DEF Dispatched, DeadLettered, DebtsOk, DebtsFinite
<1>5. starts' + faults' >= starts + faults + 0
  BY <1>1, DebtTypes, DebtTypesNext DEF DebtsOk, DebtsFinite
<1>6. QED
  BY <1>1, <1>4, <1>5, DebtStep

\* A consumer starts, or a command fails: c may owe everything once more, or
\* one more dead letter was written.
LEMMA DebtsCounted ==
  ASSUME TypeOK, TypeOK', NEW i \in Ids, DebtsOk(i), NEW c,
         ReadsLeft(i)' \subseteq ReadsLeft(i),
         RetriesLeft(i)' \subseteq RetriesLeft(i) \cup ({c} \X (1..Retries)),
         \/ LettersLeft(i)' \subseteq LettersLeft(i) \cup {c} /\ dlq'[i] = dlq[i]
         \/ LettersLeft(i)' \subseteq LettersLeft(i) /\ dlq'[i] = dlq[i] + 1,
         tries'[i] = tries[i], last <= last', starts' + faults' = starts + faults + 1
  PROVE  DebtsOk(i)'
<1>0. Retries \in Nat
  BY DEF Retries
<1>1. DebtsFinite(i)'
  BY <1>0, Fewer, OneMore, OneRowMore DEF DebtsOk, DebtsFinite
<1>2. /\ Cardinality(ReadsLeft(i))' <= Cardinality(ReadsLeft(i))
      /\ Cardinality(RetriesLeft(i))' <= Cardinality(RetriesLeft(i)) + Retries
  BY <1>0, Fewer, OneRowMore DEF DebtsOk
<1>3. \/ Cardinality(LettersLeft(i))' <= Cardinality(LettersLeft(i)) + 1 /\ dlq'[i] = dlq[i]
      \/ Cardinality(LettersLeft(i))' <= Cardinality(LettersLeft(i)) /\ dlq'[i] = dlq[i] + 1
  BY Fewer, OneMore DEF DebtsOk
<1>4. Undelivered(i)' <= Undelivered(i)
  BY DEF Undelivered, TypeOK, ServerTypeOK, Ids
<1>5. Dispatched(i)' <= Dispatched(i) + Retries
  BY <1>0, <1>1, <1>2, <1>4, DebtTypes, DebtTypesNext DEF Dispatched, DebtsOk, DebtsFinite
<1>6. DeadLettered(i)' <= DeadLettered(i) + 1
  BY <1>1, <1>3, DebtTypes, DebtTypesNext DEF DeadLettered, DebtsOk, DebtsFinite
<1>7. starts' + faults' >= starts + faults + 1
  BY <1>1, DebtTypes, DebtTypesNext DEF DebtsOk, DebtsFinite
<1>8. QED
  BY <1>0, <1>1, <1>5, <1>6, <1>7, DebtStep

-----------------------------------------------------------------------------
(* What a step does to the goroutines                                      *)

Untouched(d) ==
  /\ reader'[d] = reader[d] /\ reclaimer'[d] = reclaimer[d] /\ attempts'[d] = attempts[d]
  /\ d \in cancelled' <=> d \in cancelled

Step(c) ==
  \/ Start(c) \/ Cancel(c) \/ Return(c) \/ Crash(c) \/ ReaderStep(c) \/ ReclaimerStep(c)

\* A step of one consumer's goroutines leaves those of the others alone.
LEMMA OthersUntouched ==
  ASSUME TypeOK, NEW c \in Consumers, Step(c), NEW d \in Consumers, d # c
  PROVE  Untouched(d)
<1> USE DEF Untouched, local, processes, ReaderGoes, ReclaimerGoes, Forget, Counts,
       TypeOK, ProcessTypeOK
<1>1. CASE Start(c) \/ Cancel(c) \/ Return(c) \/ Crash(c)
  BY <1>1 DEF Start, Cancel, Return, Crash, Stop
<1>2. CASE ReaderStep(c)
  BY <1>2 DEF ReaderStep, ReaderCheck, ReaderReads, ReaderTimesOut, ReaderReadFails,
     ReaderDispatches, ReaderBatchEnds, ReaderHandled, ReaderHandlerFails, ReaderAcks
<1>3. CASE ReclaimerStep(c)
  BY <1>3 DEF ReclaimerStep, ReclaimerStops, ReclaimerClaims, ReclaimerClaimFails,
     ReclaimerGivesUp, ReclaimerDispatches, ReclaimerBatchEnds, ReclaimerHandled,
     ReclaimerHandlerFails, ReclaimerAcks, ReclaimerDeadLetters, ReclaimerDropsEntry
<1>4. QED
  BY <1>1, <1>2, <1>3 DEF Step

LEMMA EnvironmentTouchesNone ==
  ASSUME Publish \/ (\E i \in Ids : Elapse(i)) \/ UNCHANGED vars, NEW d \in Consumers
  PROVE  Untouched(d)
  BY DEF Publish, Elapse, vars, processes, local, Untouched

\* An entry that is neither to be read nor pending never is again.
LEMMA AliveShrinks ==
  ASSUME TypeOK, [Next]_vars, NEW i \in Ids, Alive(i)'
  PROVE  Alive(i)
<1>1. XReadGroup \/ (last' = last /\ pending' \subseteq pending)
  <2>1. \A n \in 0..MaxEntries : XAutoClaim(n) => pending' \subseteq pending
    BY DEF XAutoClaim
  <2>2. \A c \in Consumers : cursor[c] \in 0..MaxEntries
    BY DEF TypeOK, ProcessTypeOK
  <2>3. QED
    BY <2>1, <2>2 DEF Next, Publish, Elapse, Start, Cancel, Return, Crash, Stop,
       ReaderStep, ReaderCheck, ReaderReads, ReaderTimesOut, ReaderReadFails,
       ReaderDispatches, ReaderBatchEnds, ReaderHandled, ReaderHandlerFails, ReaderAcks,
       ReclaimerStep, ReclaimerStops, ReclaimerClaims, ReclaimerClaimFails,
       ReclaimerGivesUp, ReclaimerDispatches, ReclaimerBatchEnds, ReclaimerHandled,
       ReclaimerHandlerFails, ReclaimerAcks, ReclaimerDeadLetters, ReclaimerDropsEntry,
       XAck, vars, server
<1>2. CASE XReadGroup
  BY <1>2, UnreadDelivered DEF Alive, TypeOK, ServerTypeOK, Ids
<1>3. CASE last' = last /\ pending' \subseteq pending
  BY <1>3 DEF Alive
<1>4. QED
  BY <1>1, <1>2, <1>3

\* The debts of a consumer the step does not touch can only be cancelled, by
\* the XACK of another one.
LEMMA DebtsUntouched ==
  ASSUME TypeOK, [Next]_vars, NEW i \in Ids, NEW d \in Consumers, Untouched(d)
  PROVE  /\ d \in ReadsLeft(i)' => d \in ReadsLeft(i)
         /\ \A k \in 1..Retries : <<d, k>> \in RetriesLeft(i)' => <<d, k>> \in RetriesLeft(i)
         /\ d \in LettersLeft(i)' => d \in LettersLeft(i)
<1>1. MayClaim(d, i)' => MayClaim(d, i)
  BY AliveShrinks DEF MayClaim, Untouched
<1>2. QED
  BY <1>1 DEF ReadsLeft, RetriesLeft, LettersLeft, Untouched

\* What holds of the debts of c holds of all of them.
LEMMA DebtsOfOne ==
  ASSUME TypeOK, [Next]_vars, NEW i \in Ids, NEW c \in Consumers,
         \A d \in Consumers \ {c} : Untouched(d)
  PROVE  /\ ReadsLeft(i)' \subseteq ReadsLeft(i) \cup {c}
         /\ c \notin ReadsLeft(i)' => ReadsLeft(i)' \subseteq ReadsLeft(i) \ {c}
         /\ RetriesLeft(i)' \subseteq RetriesLeft(i) \cup ({c} \X (1..Retries))
         /\ \A t \in RetriesLeft(i)' \ RetriesLeft(i) :
              \E k \in 1..Retries : t = <<c, k>> /\ <<c, k>> \in RetriesLeft(i)'
         /\ LettersLeft(i)' \subseteq LettersLeft(i) \cup {c}
         /\ c \notin LettersLeft(i)' => LettersLeft(i)' \subseteq LettersLeft(i) \ {c}
<1>1. \A d \in Consumers \ {c} :
        /\ d \in ReadsLeft(i)' => d \in ReadsLeft(i)
        /\ \A k \in 1..Retries : <<d, k>> \in RetriesLeft(i)' => <<d, k>> \in RetriesLeft(i)
        /\ d \in LettersLeft(i)' => d \in LettersLeft(i)
  BY DebtsUntouched
<1>2. ReadsLeft(i)' \subseteq Consumers /\ LettersLeft(i)' \subseteq Consumers
  BY DEF ReadsLeft, LettersLeft
<1>3. ASSUME NEW t \in RetriesLeft(i)', t \notin RetriesLeft(i)
      PROVE  \E k \in 1..Retries : t = <<c, k>>
  <2>1. PICK d \in Consumers, k \in 1..Retries : t = <<d, k>>
    BY DEF RetriesLeft
  <2>2. d = c
    BY <1>1, <1>3, <2>1
  <2>3. QED
    BY <2>1, <2>2
<1>4. QED
  BY <1>1, <1>2, <1>3

\* A reclaimer moves in its own steps, and when its consumer starts or stops.
LEMMA OwnSteps ==
  ASSUME TypeOK, [Next]_vars, NEW d \in Consumers
  PROVE  \/ reclaimer'[d] = reclaimer[d]
         \/ Start(d) \/ Stop(d) \/ ReclaimerStep(d)
<1>1. CASE Publish \/ (\E i \in Ids : Elapse(i)) \/ UNCHANGED vars
  BY <1>1, EnvironmentTouchesNone DEF Untouched
<1>2. ASSUME NEW c \in Consumers, Step(c), c # d
      PROVE  reclaimer'[d] = reclaimer[d]
  BY <1>2, OthersUntouched DEF Untouched
<1>3. Cancel(d) \/ ReaderStep(d) => reclaimer'[d] = reclaimer[d]
  BY DEF Cancel, ReaderStep, ReaderCheck, ReaderReads, ReaderTimesOut, ReaderReadFails,
     ReaderDispatches, ReaderBatchEnds, ReaderHandled, ReaderHandlerFails, ReaderAcks, local
<1>4. QED
  BY <1>1, <1>2, <1>3 DEF Next, Step, Return, Crash

\* An invariant of the reclaimer alone.
LEMMA CurStaysOk ==
  ASSUME TypeOK, \A c \in Consumers : ReclaimerOk(c) /\ CurOk(c), [Next]_vars,
         NEW d \in Consumers
  PROVE  CurOk(d)'
<1>0. 0 \in 0..MaxEntries /\ {} \in SUBSET Ids /\ ProcessTypeOK /\ 0 \notin Ids
      /\ cursor[d] \in 0..MaxEntries
  BY DEF TypeOK, ProcessTypeOK, Ids
<1>1. CASE reclaimer'[d] = reclaimer[d]
  BY <1>1 DEF CurOk
<1>2. CASE Start(d) \/ Stop(d)
  <2>1. PICK pc \in {"top", "done", "down"} : ReclaimerGoes(d, pc, {}, 0)
    BY <1>2 DEF Start, Stop
  <2>2. pc \in ReclaimerPc
    BY DEF ReclaimerPc
  <2>3. reclaimer'[d].pc = pc /\ reclaimer'[d].batch = {}
    BY <1>0, <2>1, <2>2, ReclaimerMoves
  <2>4. QED
    BY <2>3 DEF CurOk
<1>3. CASE ReclaimerStep(d)
  <2> USE <1>0, ReclaimerFields DEF ReclaimerPc
  <2>1. CASE ReclaimerStops(d) \/ ReclaimerBatchEnds(d)
    <3>1. \E pc \in {"top", "done"} : ReclaimerGoes(d, pc, {}, 0)
      BY <2>1 DEF ReclaimerStops, ReclaimerBatchEnds
    <3>2. QED
      BY <3>1, ReclaimerMoves DEF CurOk
  <2>2. CASE ReclaimerClaims(d)
    <3>1. Claimed(cursor[d]) \in SUBSET Ids
      BY ClaimedPending DEF TypeOK
    <3>2. \E pc \in {"top", "loop"} : ReclaimerGoes(d, pc, Claimed(cursor[d]), 0)
      BY <2>2 DEF ReclaimerClaims
    <3>3. reclaimer'[d].batch = Claimed(cursor[d]) /\ reclaimer'[d].cur = 0
      BY <3>1, <3>2, ReclaimerMoves
    <3>4. QED
      BY <3>1, <3>3 DEF CurOk
  <2>3. CASE ReclaimerClaimFails(d)
    BY <1>1, <2>3 DEF ReclaimerClaimFails, processes, local
  <2>4. CASE ReclaimerGivesUp(d) \/ ReclaimerDispatches(d)
    <3>1. PICK i \in reclaimer[d].batch, pc \in {"dlq", "xack", "handler"} : Counts(d, i, pc)
      BY <2>4 DEF ReclaimerGivesUp, ReclaimerDispatches
    <3>2. i \in 0..MaxEntries /\ reclaimer[d].batch \ {i} \in SUBSET Ids
      BY DEF Ids
    <3>3. /\ reclaimer'[d].pc = pc /\ reclaimer'[d].cur = i
          /\ reclaimer'[d].batch = reclaimer[d].batch \ {i}
      BY <3>1, <3>2, ReclaimerMoves DEF Counts
    <3>4. QED
      BY <3>3 DEF CurOk
  <2>5. CASE ReclaimerHandled(d)
    <3>1. /\ reclaimer'[d].pc = "ack" /\ reclaimer'[d].cur = reclaimer[d].cur
          /\ reclaimer'[d].batch = reclaimer[d].batch
      BY <2>5, ReclaimerMoves DEF ReclaimerHandled
    <3>2. QED
      BY <3>1 DEF CurOk
  <2>6. CASE ReclaimerHandlerFails(d) \/ ReclaimerAcks(d) \/ ReclaimerDropsEntry(d)
             \/ ReclaimerDeadLetters(d)
    <3>1. \/ ReclaimerGoes(d, "loop", reclaimer[d].batch, 0)
          \/ ReclaimerGoes(d, "xack", reclaimer[d].batch, reclaimer[d].cur)
      BY <2>6 DEF ReclaimerHandlerFails, ReclaimerAcks, ReclaimerDropsEntry,
         ReclaimerDeadLetters
    <3>2. /\ reclaimer'[d].batch = reclaimer[d].batch
          /\ \/ reclaimer'[d].cur = 0
             \/ reclaimer'[d].cur = reclaimer[d].cur /\ reclaimer'[d].pc = "xack"
      BY <3>1, ReclaimerMoves
    <3>3. QED
      BY <3>2 DEF CurOk
  <2>7. QED
    BY <1>3, <2>1, <2>2, <2>3, <2>4, <2>5, <2>6 DEF ReclaimerStep
<1>4. QED
  BY <1>1, <1>2, <1>3, OwnSteps

\* Starts and faults only grow.
LEMMA CountsGrow ==
  ASSUME TypeOK, TypeOK', [Next]_vars
  PROVE  starts' + faults' >= starts + faults
<1>1. /\ starts' = starts \/ starts' = starts + 1
      /\ faults' = faults \/ faults' = faults + 1
  BY DEF Next, Publish, Elapse, Start, Cancel, Return, Crash, Stop,
     ReaderStep, ReaderCheck, ReaderReads, ReaderTimesOut, ReaderReadFails,
     ReaderDispatches, ReaderBatchEnds, ReaderHandled, ReaderHandlerFails, ReaderAcks,
     ReclaimerStep, ReclaimerStops, ReclaimerClaims, ReclaimerClaimFails,
     ReclaimerGivesUp, ReclaimerDispatches, ReclaimerBatchEnds, ReclaimerHandled,
     ReclaimerHandlerFails, ReclaimerAcks, ReclaimerDeadLetters, ReclaimerDropsEntry,
     Fault, vars, history
<1>2. starts \in Int /\ faults \in Int
  BY DEF TypeOK, HistoryTypeOK
<1>3. QED
  BY <1>1, <1>2

\* The consumer the step is of, calm about entry i: it takes on no debt.
Calm(c, i) ==
  /\ i \in reader'[c].batch => i \in reader[c].batch
  /\ MayClaim(c, i)' => MayClaim(c, i) /\ attempts[c][i] <= attempts'[c][i]
  /\ c \in LettersLeft(i)' => c \in LettersLeft(i)

LEMMA CalmDebts ==
  ASSUME TypeOK, TypeOK', [Next]_vars, NEW i \in Ids, NEW c \in Consumers,
         \A d \in Consumers \ {c} : Untouched(d), Calm(c, i)
  PROVE  /\ ReadsLeft(i)' \subseteq ReadsLeft(i) /\ RetriesLeft(i)' \subseteq RetriesLeft(i)
         /\ LettersLeft(i)' \subseteq LettersLeft(i)
<1>1. c \in ReadsLeft(i)' => c \in ReadsLeft(i)
  BY DEF ReadsLeft, Calm
<1>2. ASSUME NEW k \in 1..Retries, <<c, k>> \in RetriesLeft(i)'
      PROVE  <<c, k>> \in RetriesLeft(i)
  <2>1. MayClaim(c, i)' /\ attempts'[c][i] < k
    BY <1>2 DEF RetriesLeft
  <2>2. attempts[c][i] <= attempts'[c][i] /\ MayClaim(c, i)
    BY <2>1 DEF Calm
  <2>3. attempts[c][i] \in Int /\ attempts'[c][i] \in Int /\ k \in Int
    BY DEF TypeOK, ProcessTypeOK, Retries
  <2>4. attempts[c][i] < k
    BY <2>1, <2>2, <2>3
  <2>5. QED
    BY <2>2, <2>4 DEF RetriesLeft
<1>3. c \in LettersLeft(i)' => c \in LettersLeft(i)
  BY DEF Calm
<1>4. QED
  BY <1>1, <1>2, <1>3, DebtsOfOne

-----------------------------------------------------------------------------
(* The debts of an entry, step by step                                     *)

\* The steps in which entry i is neither dispatched nor dead-lettered, and
\* nothing is added to what may be claimed.
LEMMA QuietStep ==
  ASSUME TypeOK, TypeOK', Grows, [Next]_vars, NEW i \in Ids, DebtsOk(i), NEW c \in Consumers,
         \A d \in Consumers \ {c} : Untouched(d), Calm(c, i),
         tries'[i] = tries[i], dlq'[i] = dlq[i]
  PROVE  DebtsOk(i)'
<1>1. starts' + faults' >= starts + faults /\ last <= last'
  BY CountsGrow DEF Grows
<1>2. QED
  BY <1>1, CalmDebts, DebtsQuiet

LEMMA EnvironmentDebts ==
  ASSUME TypeOK, TypeOK', Grows, Publish \/ (\E i \in Ids : Elapse(i)) \/ UNCHANGED vars,
         NEW i \in Ids, DebtsOk(i)
  PROVE  DebtsOk(i)'
<1>0. [Next]_vars
  BY DEF Next
<1>1. \A d \in Consumers : Untouched(d)
  BY EnvironmentTouchesNone
<1>2. /\ ReadsLeft(i)' \subseteq ReadsLeft(i) /\ LettersLeft(i)' \subseteq LettersLeft(i)
  BY <1>0, <1>1, DebtsUntouched DEF ReadsLeft, LettersLeft
<1>3. RetriesLeft(i)' \subseteq RetriesLeft(i)
  <2> SUFFICES ASSUME NEW t \in RetriesLeft(i)' PROVE t \in RetriesLeft(i)
    OBVIOUS
  <2>1. PICK d \in Consumers, k \in 1..Retries : t = <<d, k>>
    BY DEF RetriesLeft
  <2>2. QED
    BY <1>0, <1>1, <2>1, DebtsUntouched
<1>4. tries' = tries /\ dlq' = dlq
  BY DEF Publish, Elapse, vars, server, history
<1>5. starts' + faults' >= starts + faults /\ last <= last'
  BY <1>0, CountsGrow DEF Grows
<1>6. QED
  BY <1>2, <1>3, <1>4, <1>5, DebtsQuiet

LEMMA LifeDebts ==
  ASSUME TypeOK, TypeOK', Grows, NEW c \in Consumers,
         Start(c) \/ Cancel(c) \/ Return(c) \/ Crash(c), NEW i \in Ids, DebtsOk(i)
  PROVE  DebtsOk(i)'
<1>0. [Next]_vars /\ \A d \in Consumers \ {c} : Untouched(d)
  BY OthersUntouched DEF Next, Step
<1>1. 0 \in 0..MaxEntries /\ {} \in SUBSET Ids /\ ProcessTypeOK
  BY DEF TypeOK
<1>2. CASE Start(c)
  <2>1. reader'[c].batch = {}
    BY <1>1, <1>2, ReaderMoves DEF Start, ReaderPc
  <2>2. c \notin ReadsLeft(i)'
    BY <2>1 DEF ReadsLeft
  <2>3. starts' + faults' = starts + faults + 1
    BY <1>2 DEF Start, TypeOK, HistoryTypeOK
  <2>4. tries' = tries /\ dlq' = dlq /\ last' = last /\ last <= last'
    BY <1>2 DEF Start, server, Grows
  <2>5. QED
    BY <1>0, <2>2, <2>3, <2>4, DebtsOfOne, DebtsCounted
<1>3. CASE Cancel(c)
  <2>1. Calm(c, i)
    <3>1. /\ reader' = reader /\ reclaimer' = reclaimer /\ attempts' = attempts
          /\ cancelled \subseteq cancelled' /\ attempts[c][i] \in Nat
      BY <1>3 DEF Cancel, local, TypeOK, ProcessTypeOK
    <3>2. Alive(i)' => Alive(i)
      BY <1>0, AliveShrinks
    <3>3. MayClaim(c, i)' => MayClaim(c, i)
      BY <3>1, <3>2 DEF MayClaim
    <3>4. QED
      BY <3>1, <3>3 DEF Calm, LettersLeft
  <2>2. tries' = tries /\ dlq' = dlq
    BY <1>3 DEF Cancel, server, history
  <2>3. QED
    BY <1>0, <2>1, <2>2, QuietStep
<1>4. CASE Stop(c)
  <2>1. reader'[c].batch = {}
    <3>1. ReaderGoes(c, "down", {}, 0) /\ "down" \in ReaderPc
      BY <1>4 DEF Stop, ReaderPc
    <3>2. QED
      BY <1>1, <3>1, ReaderMoves
  <2>2. reclaimer'[c].pc = "down"
    <3>1. ReclaimerGoes(c, "down", {}, 0) /\ "down" \in ReclaimerPc
      BY <1>4 DEF Stop, ReclaimerPc
    <3>2. QED
      BY <1>1, <3>1, ReclaimerMoves
  <2>3. Calm(c, i)
    BY <2>1, <2>2 DEF Calm, MayClaim, LettersLeft
  <2>4. tries' = tries /\ dlq' = dlq
    BY <1>4 DEF Stop, server, history
  <2>5. QED
    BY <1>0, <2>3, <2>4, QuietStep
<1>5. QED
  BY <1>2, <1>3, <1>4 DEF Return, Crash

LEMMA ReaderDebts ==
  ASSUME TypeOK, TypeOK', Grows, NEW c \in Consumers, ReaderOk(c), ReaderStep(c),
         NEW i \in Ids, DebtsOk(i)
  PROVE  DebtsOk(i)'
<1>0. [Next]_vars /\ \A d \in Consumers \ {c} : Untouched(d)
  BY OthersUntouched DEF Next, Step
<1>1. /\ 0 \in 0..MaxEntries /\ {} \in SUBSET Ids /\ ProcessTypeOK
      /\ reclaimer' = reclaimer /\ attempts' = attempts /\ cancelled' = cancelled /\ dlq' = dlq
      /\ attempts[c][i] <= attempts'[c][i]
  <2>1. reclaimer' = reclaimer /\ attempts' = attempts /\ cancelled' = cancelled /\ dlq' = dlq
    BY DEF ReaderStep, ReaderCheck, ReaderReads, ReaderTimesOut, ReaderReadFails,
       ReaderDispatches, ReaderBatchEnds, ReaderHandled, ReaderHandlerFails, ReaderAcks,
       local, server
  <2>2. attempts[c][i] <= attempts'[c][i]
    BY <2>1 DEF TypeOK, ProcessTypeOK
  <2>3. QED
    BY <2>1, <2>2 DEF TypeOK
<1>2. ASSUME i \in reader'[c].batch => i \in reader[c].batch
      PROVE  Calm(c, i)
  BY <1>0, <1>1, <1>2, AliveShrinks DEF Calm, MayClaim, LettersLeft
<1> USE ReaderFields DEF ReaderPc
<1>3. CASE ReaderReads(c)
  <2>1. XReadGroup /\ tries' = tries /\ starts' = starts /\ faults' = faults
    BY <1>3 DEF ReaderReads, history
  <2>2. Unread \in SUBSET Ids
    BY DEF Unread
  <2>3. reader'[c].batch = Unread
    BY <1>1, <1>3, <2>2, ReaderMoves DEF ReaderReads
  <2>4. CASE i \in Unread
    <3>1. i > last /\ i <= last'
      BY <2>1, <2>4, UnreadDelivered DEF TypeOK
    <3>2. /\ RetriesLeft(i)' \subseteq RetriesLeft(i) /\ LettersLeft(i)' \subseteq LettersLeft(i)
          /\ ReadsLeft(i)' \subseteq ReadsLeft(i) \cup {c}
      <4>1. MayClaim(c, i)' => MayClaim(c, i)
        BY <1>0, <1>1, AliveShrinks DEF MayClaim
      <4>2. \A k \in 1..Retries : <<c, k>> \in RetriesLeft(i)' => <<c, k>> \in RetriesLeft(i)
        BY <1>1, <4>1 DEF RetriesLeft
      <4>3. c \in LettersLeft(i)' => c \in LettersLeft(i)
        BY <1>1, <4>1 DEF LettersLeft
      <4>4. QED
        BY <1>0, <4>2, <4>3, DebtsOfOne
    <3>3. QED
      BY <1>1, <2>1, <3>1, <3>2, DebtsRead
  <2>5. CASE i \notin Unread
    BY <1>0, <1>1, <1>2, <2>1, <2>3, <2>5, QuietStep
  <2>6. QED
    BY <2>4, <2>5
<1>4. CASE ReaderDispatches(c)
  <2>1. PICK j \in reader[c].batch :
          /\ ReaderGoes(c, "handler", reader[c].batch \ {j}, j)
          /\ tries' = [tries EXCEPT ![j] = @ + 1]
    BY <1>4 DEF ReaderDispatches
  <2>2. j \in Ids /\ j \in 0..MaxEntries /\ reader[c].batch \ {j} \in SUBSET Ids
    BY <1>1 DEF Ids
  <2>3. reader'[c].batch = reader[c].batch \ {j}
    BY <1>1, <2>1, <2>2, ReaderMoves
  <2>4. Calm(c, i)
    BY <1>2, <2>3
  <2>5. CASE i # j
    <3>1. tries'[i] = tries[i]
      BY <2>1, <2>5 DEF TypeOK, HistoryTypeOK
    <3>2. QED
      BY <1>0, <1>1, <2>4, <3>1, QuietStep
  <2>6. CASE i = j
    <3>1. tries'[i] = tries[i] + 1
      BY <2>1, <2>6 DEF TypeOK, HistoryTypeOK
    <3>2. c \in ReadsLeft(i) /\ c \notin ReadsLeft(i)'
      BY <2>3, <2>6 DEF ReadsLeft
    <3>3. last' = last /\ starts' = starts /\ faults' = faults
      BY <1>4 DEF ReaderDispatches, server
    <3>4. ReadsLeft(i)' \subseteq ReadsLeft(i) \ {c}
      BY <1>0, <3>2, DebtsOfOne
    <3>5. RetriesLeft(i)' \subseteq RetriesLeft(i) /\ LettersLeft(i)' \subseteq LettersLeft(i)
      BY <1>0, <2>4, CalmDebts
    <3>6. QED
      BY <1>1, <3>1, <3>2, <3>3, <3>4, <3>5, DebtsReaderPays
  <2>7. QED
    BY <2>5, <2>6
<1>5. CASE ReaderCheck(c) \/ ReaderTimesOut(c) \/ ReaderReadFails(c) \/ ReaderBatchEnds(c)
  <2>1. \E pc \in {"top", "done", "xread"} : ReaderGoes(c, pc, {}, 0)
    BY <1>5 DEF ReaderCheck, ReaderTimesOut, ReaderReadFails, ReaderBatchEnds
  <2>2. reader'[c].batch = {} /\ tries' = tries
    BY <1>1, <1>5, <2>1, ReaderMoves
    DEF ReaderCheck, ReaderTimesOut, ReaderReadFails, ReaderBatchEnds, history
  <2>3. QED
    BY <1>0, <1>1, <1>2, <2>2, QuietStep
<1>6. CASE ReaderHandled(c) \/ ReaderHandlerFails(c) \/ ReaderAcks(c)
  <2>1. reader'[c].batch = reader[c].batch /\ tries' = tries
    BY <1>1, <1>6, ReaderMoves DEF ReaderHandled, ReaderHandlerFails, ReaderAcks, history
  <2>2. QED
    BY <1>0, <1>1, <1>2, <2>1, QuietStep
<1>7. QED
  BY <1>3, <1>4, <1>5, <1>6 DEF ReaderStep

\* XACK takes the entry off the pending list, and it was delivered.
LEMMA AckedIsNotAlive ==
  ASSUME TypeOK, TypeOK', NEW i \in 1..last, last' = last, XAck(i)
  PROVE  ~Alive(i)'
  BY DEF XAck, Alive, TypeOK, ServerTypeOK

LEMMA ReclaimerDebts ==
  ASSUME TypeOK, TypeOK', Grows, NEW c \in Consumers, ReclaimerOk(c), CurOk(c),
         ReclaimerStep(c), NEW i \in Ids, DebtsOk(i)
  PROVE  DebtsOk(i)'
<1>0. [Next]_vars /\ \A d \in Consumers \ {c} : Untouched(d)
  BY OthersUntouched DEF Next, Step
<1>1. /\ 0 \in 0..MaxEntries /\ {} \in SUBSET Ids /\ ProcessTypeOK /\ 1..last \subseteq Ids
      /\ reader' = reader /\ cancelled' = cancelled /\ last' = last /\ last <= last'
      /\ cursor[c] \in 0..MaxEntries /\ 0 \notin Ids
  <2>1. reader' = reader /\ cancelled' = cancelled /\ last' = last
    BY DEF ReclaimerStep, ReclaimerStops, ReclaimerClaims, ReclaimerClaimFails,
       ReclaimerGivesUp, ReclaimerDispatches, ReclaimerBatchEnds, ReclaimerHandled,
       ReclaimerHandlerFails, ReclaimerAcks, ReclaimerDeadLetters, ReclaimerDropsEntry,
       processes, server
  <2>2. 1..last \subseteq Ids /\ 0 \notin Ids
    BY DEF TypeOK, ServerTypeOK, Ids
  <2>3. last <= last' /\ cursor[c] \in 0..MaxEntries /\ ProcessTypeOK
    BY DEF TypeOK, ProcessTypeOK, Grows
  <2>4. QED
    BY <2>1, <2>2, <2>3
<1>2. Alive(i)' => Alive(i)
  BY <1>0, AliveShrinks
<1>3. ReadsLeft(i)' \subseteq ReadsLeft(i)
  BY <1>1 DEF ReadsLeft
<1>4. attempts[c][i] \in Nat /\ attempts[c] \in [Ids -> Nat]
  BY DEF TypeOK, ProcessTypeOK
<1> USE ReclaimerFields DEF ReclaimerPc
<1>5. CASE ReclaimerStops(c)
  <2>1. reclaimer'[c].pc = "done" /\ reclaimer'[c].batch = {} /\ tries' = tries /\ dlq' = dlq
    BY <1>1, <1>5, ReclaimerMoves DEF ReclaimerStops, server, history
  <2>2. Calm(c, i)
    BY <1>1, <1>5, <2>1 DEF ReclaimerStops, Calm, MayClaim, LettersLeft
  <2>3. QED
    BY <1>0, <2>1, <2>2, QuietStep
<1>6. CASE ReclaimerClaims(c)
  <2>1. Claimed(cursor[c]) \in SUBSET Ids /\ Claimed(cursor[c]) \subseteq pending
    BY <1>1, ClaimedPending DEF TypeOK
  <2>2. \E pc \in {"top", "loop"} : ReclaimerGoes(c, pc, Claimed(cursor[c]), 0)
    BY <1>6 DEF ReclaimerClaims
  <2>3. reclaimer'[c].pc \in {"top", "loop"} /\ reclaimer'[c].batch = Claimed(cursor[c])
    BY <1>1, <2>1, <2>2, ReclaimerMoves
  <2>4. reclaimer[c].pc = "top" /\ c \notin cancelled /\ attempts' = attempts
        /\ tries' = tries /\ dlq' = dlq
    BY <1>6 DEF ReclaimerClaims, history
  <2>5. MayClaim(c, i)' => MayClaim(c, i)
    BY <1>1, <1>2, <2>1, <2>3, <2>4 DEF MayClaim, Alive
  <2>6. Calm(c, i)
    BY <1>1, <1>4, <2>3, <2>4, <2>5 DEF Calm, LettersLeft
  <2>7. QED
    BY <1>0, <2>4, <2>6, QuietStep
<1>7. CASE ReclaimerClaimFails(c)
  <2>1. reclaimer' = reclaimer /\ attempts' = attempts /\ tries' = tries /\ dlq' = dlq
    BY <1>7 DEF ReclaimerClaimFails, processes, local
  <2>2. Calm(c, i)
    BY <1>1, <1>2, <1>4, <2>1 DEF Calm, MayClaim, LettersLeft
  <2>3. QED
    BY <1>0, <2>1, <2>2, QuietStep
<1>8. CASE ReclaimerGivesUp(c) \/ ReclaimerDispatches(c)
  <2>1. PICK j \in reclaimer[c].batch, pc \in {"dlq", "xack", "handler"} :
          /\ Counts(c, j, pc)
          /\ \/ pc = "handler" /\ attempts[c][j] + 1 < MaxDeliveries
                /\ tries' = [tries EXCEPT ![j] = @ + 1]
             \/ pc # "handler" /\ tries' = tries
          /\ dlq' = dlq /\ starts' = starts /\ faults' = faults
    BY <1>8 DEF ReclaimerGivesUp, ReclaimerDispatches, server
  <2>2. j \in Ids /\ j \in 0..MaxEntries /\ reclaimer[c].batch \ {j} \in SUBSET Ids
    BY <1>1 DEF Ids
  <2>3. /\ reclaimer[c].pc = "loop" /\ attempts' = [attempts EXCEPT ![c][j] = @ + 1]
        /\ reclaimer'[c].pc = pc /\ reclaimer'[c].batch = reclaimer[c].batch \ {j}
        /\ reclaimer'[c].cur = j
    BY <1>1, <2>1, <2>2, ReclaimerMoves DEF Counts
  <2>4. /\ attempts'[c][i] = IF i = j THEN attempts[c][i] + 1 ELSE attempts[c][i]
        /\ attempts[c][i] <= attempts'[c][i]
    BY <1>4, <2>3 DEF TypeOK, ProcessTypeOK
  <2>5. MayClaim(c, i)' => MayClaim(c, i)
    BY <1>1, <1>2, <2>3 DEF MayClaim
  <2>6. c \in LettersLeft(i)' => c \in LettersLeft(i)
    <3>1. i = j => MayClaim(c, i)
      BY <2>3 DEF MayClaim
    <3>2. QED
      BY <2>3, <2>5, <3>1 DEF LettersLeft
  <2>7. Calm(c, i)
    BY <1>1, <2>4, <2>5, <2>6 DEF Calm
  <2>8. CASE tries'[i] = tries[i]
    BY <1>0, <2>1, <2>7, <2>8, QuietStep
  <2>9. CASE tries'[i] # tries[i]
    <3>1. i = j /\ attempts[c][i] + 1 < MaxDeliveries /\ tries'[i] = tries[i] + 1
      BY <2>1, <2>9 DEF TypeOK, HistoryTypeOK
    <3>2. attempts[c][i] + 1 \in 1..Retries
      BY <1>4, <3>1 DEF Retries
    <3>3. <<c, attempts[c][i] + 1>> \in RetriesLeft(i)
      BY <1>4, <2>3, <3>1, <3>2 DEF RetriesLeft, MayClaim
    <3>4. <<c, attempts[c][i] + 1>> \notin RetriesLeft(i)'
      BY <1>4, <2>4, <3>1 DEF RetriesLeft
    <3>5. /\ RetriesLeft(i)' \subseteq RetriesLeft(i) \ {<<c, attempts[c][i] + 1>>}
          /\ LettersLeft(i)' \subseteq LettersLeft(i)
      BY <1>0, <2>7, <3>4, CalmDebts
    <3>6. QED
      BY <1>1, <1>3, <2>1, <3>1, <3>3, <3>5, DebtsReclaimerPays
  <2>10. QED
    BY <2>8, <2>9
<1>9. CASE ReclaimerBatchEnds(c) \/ ReclaimerHandled(c) \/ ReclaimerHandlerFails(c)
           \/ ReclaimerAcks(c)
  <2>1. attempts' = attempts /\ tries' = tries /\ dlq' = dlq
    BY <1>9 DEF ReclaimerBatchEnds, ReclaimerHandled, ReclaimerHandlerFails, ReclaimerAcks,
       server, history
  <2>2. /\ reclaimer'[c].pc \in {"top", "loop", "ack"} /\ reclaimer[c].pc \in {"loop", "handler", "ack"}
        /\ reclaimer'[c].batch = reclaimer[c].batch
    <3>1. CASE ReclaimerBatchEnds(c)
      BY <1>1, <3>1, ReclaimerMoves DEF ReclaimerBatchEnds
    <3>2. CASE ReclaimerHandled(c)
      BY <1>1, <3>2, ReclaimerMoves DEF ReclaimerHandled
    <3>3. CASE ReclaimerHandlerFails(c)
      BY <1>1, <3>3, ReclaimerMoves DEF ReclaimerHandlerFails
    <3>4. CASE ReclaimerAcks(c)
      BY <1>1, <3>4, ReclaimerMoves DEF ReclaimerAcks
    <3>5. QED
      BY <1>9, <3>1, <3>2, <3>3, <3>4
  <2>3. Calm(c, i)
    BY <1>1, <1>2, <1>4, <2>1, <2>2 DEF Calm, MayClaim, LettersLeft
  <2>4. QED
    BY <1>0, <2>1, <2>3, QuietStep
<1>10. CASE ReclaimerDeadLetters(c)
  <2> DEFINE j == reclaimer[c].cur
  <2>1. reclaimer[c].pc = "dlq" /\ j \in Ids /\ j \notin reclaimer[c].batch
    BY <1>1, <1>10 DEF ReclaimerDeadLetters, ReclaimerOk, CurOk
  <2>2. attempts' = attempts /\ tries' = tries /\ starts' = starts
    BY <1>10 DEF ReclaimerDeadLetters
  <2>3. /\ reclaimer'[c].batch = reclaimer[c].batch
        /\ \/ reclaimer'[c].pc = "loop"
           \/ reclaimer'[c].pc = "xack" /\ reclaimer'[c].cur = j
    BY <1>1, <1>10, ReclaimerMoves DEF ReclaimerDeadLetters
  <2>4. MayClaim(c, i)' => MayClaim(c, i)
    BY <1>1, <1>2, <2>1, <2>3 DEF MayClaim
  <2>5. c \in LettersLeft(i)' => c \in LettersLeft(i)
    BY <2>1, <2>3, <2>4 DEF LettersLeft
  <2>6. Calm(c, i)
    BY <1>1, <1>4, <2>2, <2>4, <2>5 DEF Calm
  <2>7. CASE dlq'[i] = dlq[i]
    BY <1>0, <2>2, <2>6, <2>7, QuietStep
  <2>8. CASE dlq'[i] # dlq[i]
    <3>1. AddToDlq(j)
      BY <1>10, <2>8 DEF ReclaimerDeadLetters
    <3>2. i = j /\ dlq'[i] = dlq[i] + 1
      BY <2>1, <2>8, <3>1 DEF AddToDlq, TypeOK, ServerTypeOK
    <3>3. \/ reclaimer'[c].pc = "xack" /\ reclaimer'[c].cur = i /\ faults' = faults
          \/ faults' = faults + 1
      BY <1>1, <1>10, <2>8, <3>2, ReclaimerMoves DEF ReclaimerDeadLetters, Fault
    <3>4. CASE reclaimer'[c].pc = "xack" /\ reclaimer'[c].cur = i /\ faults' = faults
      <4>1. c \in LettersLeft(i) /\ c \notin LettersLeft(i)'
        BY <2>1, <3>2, <3>4 DEF LettersLeft
      <4>2. LettersLeft(i)' \subseteq LettersLeft(i) \ {c}
        BY <1>0, <4>1, DebtsOfOne
      <4>3. RetriesLeft(i)' \subseteq RetriesLeft(i)
        BY <1>0, <2>6, CalmDebts
      <4>4. QED
        BY <1>1, <1>3, <2>2, <3>2, <3>4, <4>1, <4>2, <4>3, DebtsLetterPaid
    <3>5. CASE faults' = faults + 1
      <4>1. starts' + faults' = starts + faults + 1
        BY <2>2, <3>5 DEF TypeOK, HistoryTypeOK
      <4>2. LettersLeft(i)' \subseteq LettersLeft(i)
        BY <1>0, <2>6, CalmDebts
      <4>3. RetriesLeft(i)' \subseteq RetriesLeft(i) \cup ({c} \X (1..Retries))
        BY <1>0, DebtsOfOne
      <4>4. QED
        BY <1>1, <1>3, <2>2, <3>2, <4>1, <4>2, <4>3, DebtsCounted
    <3>6. QED
      BY <3>3, <3>4, <3>5
  <2>9. QED
    BY <2>7, <2>8
<1>11. CASE ReclaimerDropsEntry(c)
  <2> DEFINE j == reclaimer[c].cur
  <2>1. reclaimer[c].pc = "xack" /\ j \in 1..last /\ j \notin reclaimer[c].batch
    BY <1>11 DEF ReclaimerDropsEntry, ReclaimerOk, CurOk
  <2>2. /\ attempts' = [attempts EXCEPT ![c][j] = 0]
        /\ tries' = tries /\ dlq' = dlq /\ starts' = starts
    BY <1>11 DEF ReclaimerDropsEntry
  <2>3. reclaimer'[c].pc = "loop" /\ reclaimer'[c].batch = reclaimer[c].batch
    BY <1>1, <1>11, ReclaimerMoves DEF ReclaimerDropsEntry
  <2>4. MayClaim(c, i)' => MayClaim(c, i)
    BY <1>1, <1>2, <2>1, <2>3 DEF MayClaim
  <2>5. CASE i # j
    <3>1. attempts[c][i] <= attempts'[c][i]
      BY <1>4, <2>2, <2>5 DEF TypeOK, ProcessTypeOK
    <3>2. c \in LettersLeft(i)' => c \in LettersLeft(i)
      BY <2>1, <2>3, <2>4, <2>5 DEF LettersLeft
    <3>3. Calm(c, i)
      BY <1>1, <2>4, <3>1, <3>2 DEF Calm
    <3>4. QED
      BY <1>0, <2>2, <3>3, QuietStep
  <2>6. CASE i = j
    <3>1. XAck(i) \/ c \in cancelled \/ faults' = faults + 1
      BY <1>11, <2>6 DEF ReclaimerDropsEntry, Fault
    <3>2. CASE faults' = faults + 1
      <4>1. starts' + faults' = starts + faults + 1
        BY <2>2, <3>2 DEF TypeOK, HistoryTypeOK
      <4>2. /\ RetriesLeft(i)' \subseteq RetriesLeft(i) \cup ({c} \X (1..Retries))
            /\ LettersLeft(i)' \subseteq LettersLeft(i) \cup {c}
        BY <1>0, DebtsOfOne
      <4>3. QED
        BY <1>1, <1>3, <2>2, <4>1, <4>2, DebtsCounted
    <3>3. CASE XAck(i) \/ c \in cancelled
      <4>1. ~MayClaim(c, i)'
        BY <1>1, <2>1, <2>3, <2>6, <3>3, AckedIsNotAlive DEF MayClaim
      <4>2. Calm(c, i)
        BY <1>1, <2>3, <4>1 DEF Calm, LettersLeft
      <4>3. QED
        BY <1>0, <2>2, <4>2, QuietStep
    <3>4. QED
      BY <3>1, <3>2, <3>3
  <2>7. QED
    BY <2>5, <2>6
<1>12. QED
  BY <1>5, <1>6, <1>7, <1>8, <1>9, <1>10, <1>11 DEF ReclaimerStep

-----------------------------------------------------------------------------
(* The theorems                                                            *)

LEMMA InitBoundInv == Init => BoundInv
<1> SUFFICES ASSUME Init PROVE BoundInv
  OBVIOUS
<1>1. \A c \in Consumers : CurOk(c)
  BY DEF Init, At, CurOk
<1>2. ASSUME NEW i \in Ids PROVE DebtsOk(i)
  <2>1. ReadsLeft(i) = {} /\ RetriesLeft(i) = {} /\ LettersLeft(i) = {}
    BY DEF Init, At, ReadsLeft, RetriesLeft, LettersLeft, MayClaim
  <2>2. tries[i] = 0 /\ dlq[i] = 0 /\ starts = 0 /\ faults = 0 /\ Undelivered(i) = 1
    BY DEF Init, Undelivered, Ids
  <2>3. Retries * 0 = 0
    BY DEF Retries
  <2>4. QED
    BY <2>1, <2>2, <2>3, FS_EmptySet DEF DebtsOk
<1>3. QED
  BY <1>1, <1>2 DEF BoundInv

LEMMA NextBoundInv ==
  ASSUME IInv, IInv', BoundInv, [Next]_vars
  PROVE  BoundInv'
<1>0. /\ TypeOK /\ TypeOK' /\ \A c \in Consumers : ReaderOk(c) /\ ReclaimerOk(c)
      /\ \A c \in Consumers : CurOk(c)
  BY DEF IInv, BoundInv
<1>1. Grows
  BY <1>0, NextGrows
<1>2. \A c \in Consumers : CurOk(c)'
  BY <1>0, CurStaysOk
<1>3. ASSUME NEW i \in Ids PROVE DebtsOk(i)'
  <2>1. DebtsOk(i)
    BY DEF BoundInv
  <2>2. CASE Publish \/ (\E k \in Ids : Elapse(k)) \/ UNCHANGED vars
    BY <1>0, <1>1, <2>1, <2>2, EnvironmentDebts
  <2>3. ASSUME NEW c \in Consumers, Start(c) \/ Cancel(c) \/ Return(c) \/ Crash(c)
        PROVE  DebtsOk(i)'
    BY <1>0, <1>1, <2>1, <2>3, LifeDebts
  <2>4. ASSUME NEW c \in Consumers, ReaderStep(c)
        PROVE  DebtsOk(i)'
    BY <1>0, <1>1, <2>1, <2>4, ReaderDebts
  <2>5. ASSUME NEW c \in Consumers, ReclaimerStep(c)
        PROVE  DebtsOk(i)'
    BY <1>0, <1>1, <2>1, <2>5, ReclaimerDebts
  <2>6. QED
    BY <2>2, <2>3, <2>4, <2>5 DEF Next
<1>4. QED
  BY <1>2, <1>3 DEF BoundInv

LEMMA BoundInvariance == Spec => []BoundInv
  BY Invariance, InitBoundInv, NextBoundInv, PTL DEF Spec

\* An entry is dispatched at most once by the read loops, plus MaxDeliveries - 1
\* times per call of Run and per failed command, and dead-lettered at most once
\* per call of Run and per failed command, whatever the consumers do.
THEOREM DeliveriesAreBounded == Spec => []DeliveriesBounded
<1>1. ASSUME IInv, BoundInv, NEW i \in Ids
      PROVE  /\ tries[i] <= 1 + Retries * (starts + faults)
             /\ dlq[i] <= starts + faults
  <2>1. DebtsFinite(i) /\ TypeOK
    BY <1>1 DEF BoundInv, DebtsOk, DebtsFinite, IInv
  <2>2. Retries * (starts + faults) \in Int
    BY <2>1, DebtTypes DEF Retries
  <2>3. /\ Dispatched(i) <= 1 + Retries * (starts + faults)
        /\ DeadLettered(i) <= starts + faults
    BY <1>1 DEF BoundInv, DebtsOk, Dispatched, DeadLettered
  <2>4. tries[i] <= Dispatched(i) /\ dlq[i] <= DeadLettered(i)
    BY <2>1, DebtTypes DEF Dispatched, DeadLettered
  <2>5. QED
    BY <2>1, <2>2, <2>3, <2>4, DebtTypes
<1>2. ASSUME TypeOK
      PROVE  Retries * (starts + faults)
               = IF MaxDeliveries > 0 THEN (MaxDeliveries - 1) * (starts + faults) ELSE 0
  <2>1. starts + faults \in Nat
    BY <1>2 DEF TypeOK, HistoryTypeOK
  <2>2. QED
    BY <2>1 DEF Retries
<1>3. IInv /\ BoundInv => DeliveriesBounded
  BY <1>1, <1>2 DEF DeliveriesBounded, IInv
<1>4. QED
  BY <1>3, Invariance, BoundInvariance, PTL

\* Once a reclaimer has counted an entry out, it goes to the dead-letter stream
\* or to its XACK each time it is claimed, never back to the handler.
THEOREM ExhaustedStaysOut == Spec => ExhaustedNotDispatched
<1>1. ASSUME IInv, BoundInv, [Next]_vars, NEW c \in Consumers, NEW i \in Ids,
             attempts[c][i] >= MaxDeliveries, reclaimer[c].pc = "loop", reclaimer'[c].cur = i
      PROVE  reclaimer'[c].pc \in {"dlq", "xack"}
  <2>0. /\ 0 \in 0..MaxEntries /\ {} \in SUBSET Ids /\ ProcessTypeOK /\ i # 0 /\ TypeOK
        /\ attempts[c][i] \in Nat
    BY <1>1 DEF IInv, TypeOK, ProcessTypeOK, Ids
  <2>1. CASE reclaimer'[c] = reclaimer[c]
    BY <1>1, <2>0, <2>1 DEF BoundInv, CurOk
  <2>2. CASE Start(c) \/ Stop(c)
    <3>1. PICK pc \in {"top", "done", "down"} : ReclaimerGoes(c, pc, {}, 0)
      BY <2>2 DEF Start, Stop
    <3>2. pc \in ReclaimerPc
      BY DEF ReclaimerPc
    <3>3. reclaimer'[c].cur = 0
      BY <2>0, <3>1, <3>2, ReclaimerMoves
    <3>4. QED
      BY <1>1, <2>0, <3>3
  <2>3. CASE ReclaimerStep(c)
    <3>1. ReclaimerGivesUp(c) \/ ReclaimerDispatches(c) \/ ReclaimerBatchEnds(c)
          \/ reclaimer' = reclaimer
      BY <1>1, <2>3 DEF ReclaimerStep, ReclaimerStops, ReclaimerClaims, ReclaimerClaimFails,
         ReclaimerHandled, ReclaimerHandlerFails, ReclaimerAcks, ReclaimerDeadLetters,
         ReclaimerDropsEntry
    <3>2. CASE ReclaimerBatchEnds(c)
      BY <1>1, <2>0, <3>2, ReclaimerMoves DEF ReclaimerBatchEnds, ReclaimerPc
    <3>3. CASE ReclaimerGivesUp(c) \/ ReclaimerDispatches(c)
      <4>1. PICK j \in reclaimer[c].batch, pc \in {"dlq", "xack", "handler"} :
              /\ Counts(c, j, pc)
              /\ pc = "handler" => attempts[c][j] + 1 < MaxDeliveries
        BY <3>3 DEF ReclaimerGivesUp, ReclaimerDispatches
      <4>2. j \in 0..MaxEntries /\ reclaimer[c].batch \ {j} \in SUBSET Ids
        BY <2>0, ReclaimerFields DEF Ids
      <4>3. reclaimer'[c].pc = pc /\ reclaimer'[c].cur = j
        <5>1. pc \in ReclaimerPc /\ ReclaimerGoes(c, pc, reclaimer[c].batch \ {j}, j)
          BY <4>1 DEF Counts, ReclaimerPc
        <5>2. QED
          BY <2>0, <4>2, <5>1, ReclaimerMoves
      <4>4. QED
        BY <1>1, <2>0, <4>1, <4>3
    <3>4. QED
      BY <2>1, <3>1, <3>2, <3>3
  <2>4. \/ reclaimer'[c] = reclaimer[c]
        \/ Start(c) \/ Stop(c) \/ ReclaimerStep(c)
    BY <1>1, <2>0, OwnSteps
  <2>5. QED
    BY <2>1, <2>2, <2>3, <2>4
<1>2. IInv /\ BoundInv /\ [Next]_vars
        => [\A c \in Consumers, i \in Ids :
              /\ attempts[c][i] >= MaxDeliveries
              /\ reclaimer[c].pc = "loop" /\ reclaimer'[c].cur = i
              => reclaimer'[c].pc \in {"dlq", "xack"}]_vars
  BY <1>1
<1>3. QED
  BY <1>2, Invariance, BoundInvariance, PTL DEF Spec, ExhaustedNotDispatched

=================================================================================
