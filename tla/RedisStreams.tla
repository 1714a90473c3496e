------------------------------ MODULE RedisStreams ------------------------------
(***************************************************************************)
(* The streams mode of runtime/redis: consumer processes of one consumer   *)
(* group reading one Redis stream, with publishers adding to it.           *)
(*                                                                         *)
(* Each consumer process is one call of Consumer.Run: a reader goroutine   *)
(* (readLoop, XREADGROUP ">"), and, when MaxDeliveries > 0, a reclaimer    *)
(* goroutine (runReclaimer, XAUTOCLAIM).  Both call Dispatch, which runs   *)
(* the handler and then XACKs.  A process may crash at any step (a panic   *)
(* of a handler ends it), its context may be cancelled, it may be started  *)
(* again, and any Redis command may fail, with or without having taken     *)
(* effect on the server.                                                   *)
(*                                                                         *)
(* Entry ids are 1, 2, 3...: Redis ids are ordered and the code only       *)
(* compares them through the server.  The consumer name is left out: the   *)
(* commands the code sends never depend on which consumer owns an entry.   *)
(***************************************************************************)
EXTENDS Integers, FiniteSets

CONSTANTS
  Consumers,      \* the consumer processes of the group
  MaxDeliveries,  \* ConsumerConfig.MaxDeliveries (0: no reclaimer)
  DeadLetter,     \* ConsumerConfig.DeadLetter
  Count,          \* ConsumerConfig.Count, entries per read or claim
  MaxLen,         \* PublisherConfig.MaxLen (0: no trimming)
  MaxEntries,     \* bound: entries ever published
  MaxStarts,      \* bound: calls of Consumer.Run
  MaxFaults       \* bound: failing Redis commands

ASSUME ConfigAssumption ==
  /\ MaxDeliveries \in Nat /\ DeadLetter \in BOOLEAN
  /\ Count \in Nat \ {0} /\ MaxLen \in Nat

ASSUME BoundAssumption ==
  MaxEntries \in Nat /\ MaxStarts \in Nat /\ MaxFaults \in Nat

VARIABLES
  \* the Redis server: the stream, its consumer group, the ".dlq" stream
  added,      \* entries XADDed so far
  trimmed,    \* entries 1..trimmed were removed by MAXLEN
  last,       \* the group's last delivered id
  pending,    \* the group's pending entries list
  idle,       \* pending entries idle for at least ClaimMinIdle
  dlq,        \* copies of each entry in the dead-letter stream
  \* the consumer processes
  cancelled,  \* consumers whose context is cancelled
  reader,     \* the readLoop goroutine of each consumer
  reclaimer,  \* the runReclaimer goroutine of each consumer
  cursor,     \* its XAUTOCLAIM cursor
  attempts,   \* its claims of each entry (0: not in the map)
  \* history
  starts,     \* calls of Consumer.Run so far
  faults,     \* failed Redis commands so far
  handled,    \* entries some handler has processed successfully
  exhausted,  \* entries some reclaimer counted MaxDeliveries claims of
  tries       \* calls of Dispatch made for each entry

server    == <<added, trimmed, last, pending, idle, dlq>>
local     == <<reclaimer, cursor, attempts>>
processes == <<cancelled, reader, local>>
history   == <<starts, faults, handled, exhausted, tries>>
vars      == <<server, processes, history>>

Ids == 1..MaxEntries

ReaderPc    == {"down", "top", "xread", "loop", "handler", "ack", "done"}
ReclaimerPc == {"down", "top", "loop", "handler", "ack", "dlq", "xack", "done"}

\* A goroutine: where it is, the entries of its batch still to come, and the
\* entry it is at (0: none).
At(pc, batch, cur) == [pc |-> pc, batch |-> batch, cur |-> cur]
Goroutine(Pcs) == [pc : Pcs, batch : SUBSET Ids, cur : 0..MaxEntries]

Init ==
  /\ added = 0 /\ trimmed = 0 /\ last = 0
  /\ pending = {} /\ idle = {} /\ dlq = [i \in Ids |-> 0]
  /\ cancelled = {}
  /\ reader = [c \in Consumers |-> At("down", {}, 0)]
  /\ reclaimer = [c \in Consumers |-> At("down", {}, 0)]
  /\ cursor = [c \in Consumers |-> 0]
  /\ attempts = [c \in Consumers |-> [i \in Ids |-> 0]]
  /\ starts = 0 /\ faults = 0
  /\ handled = {} /\ exhausted = {} /\ tries = [i \in Ids |-> 0]

-----------------------------------------------------------------------------
(* Redis commands.                                                         *)

IsLeast(i, S) == i \in S /\ \A j \in S : i <= j

\* A command fails although the context is live: a network or server error.
Fault == faults < MaxFaults /\ faults' = faults + 1

\* XACK: leaves the pending list, whoever owns the entry.
XAck(i) == pending' = pending \ {i} /\ idle' = idle \ {i}

\* What XREADGROUP ">" returns: the next Count entries that are still there.
ReadFrom == IF last > trimmed THEN last ELSE trimmed
Unread == {i \in Ids : ReadFrom < i /\ i <= added /\ i <= ReadFrom + Count}

XReadGroup ==
  /\ Unread # {}
  /\ last' = IF ReadFrom + Count < added THEN ReadFrom + Count ELSE added
  /\ pending' = pending \cup Unread

\* XAUTOCLAIM from a cursor: entries idle long enough are claimed, trimmed
\* ones leave the pending list, Count bounds both together.
Scanned(from) == {i \in pending : i >= from}
Eligible(from) == {i \in Scanned(from) : i \in idle \/ i <= trimmed}
Before(i, from) == Cardinality({j \in Eligible(from) : j < i})
Taken(from) == {i \in Eligible(from) : Before(i, from) < Count}
Claimed(from) == {i \in Taken(from) : i > trimmed}
NextCursor(n, from) ==
  LET rest == {i \in Scanned(from) : Before(i, from) >= Count}
  IN  IF rest = {} THEN n = 0 ELSE IsLeast(n, rest)
XAutoClaim(from) ==
  /\ pending' = pending \ (Taken(from) \ Claimed(from))
  /\ idle' = idle \ Taken(from)

\* Time passes: a pending entry reaches ClaimMinIdle, handled or not.
Elapse(i) ==
  /\ i \in pending \ idle
  /\ idle' = idle \cup {i}
  /\ UNCHANGED <<added, trimmed, last, pending, dlq, processes, history>>

\* Publisher.Publish: XADD with an exact MAXLEN when MaxLen > 0.  A failed
\* call that took no effect changes nothing; one that did is this step too.
Publish ==
  /\ added < MaxEntries
  /\ added' = added + 1
  /\ trimmed' = IF MaxLen > 0 /\ added + 1 - MaxLen > trimmed
                THEN added + 1 - MaxLen ELSE trimmed
  /\ UNCHANGED <<last, pending, idle, dlq, processes, history>>

-----------------------------------------------------------------------------
(* The life of a consumer process.                                         *)

ReaderGoes(c, pc, batch, cur) == reader' = [reader EXCEPT ![c] = At(pc, batch, cur)]
ReclaimerGoes(c, pc, batch, cur) ==
  reclaimer' = [reclaimer EXCEPT ![c] = At(pc, batch, cur)]
Forget(c) ==
  /\ cursor' = [cursor EXCEPT ![c] = 0]
  /\ attempts' = [attempts EXCEPT ![c] = [i \in Ids |-> 0]]

\* runStreams once the group exists: the reader is started, and the reclaimer
\* only when MaxDeliveries > 0.
Start(c) ==
  /\ reader[c].pc = "down" /\ starts < MaxStarts
  /\ starts' = starts + 1
  /\ ReaderGoes(c, "top", {}, 0)
  /\ ReclaimerGoes(c, IF MaxDeliveries > 0 THEN "top" ELSE "done", {}, 0)
  /\ UNCHANGED <<server, cancelled, cursor, attempts, faults, handled, exhausted, tries>>

Cancel(c) ==
  /\ reader[c].pc # "down" /\ c \notin cancelled
  /\ cancelled' = cancelled \cup {c}
  /\ UNCHANGED <<server, reader, local, history>>

\* The goroutines and their local variables are gone.
Stop(c) ==
  /\ ReaderGoes(c, "down", {}, 0) /\ ReclaimerGoes(c, "down", {}, 0) /\ Forget(c)
  /\ cancelled' = cancelled \ {c}
  /\ UNCHANGED <<server, history>>

\* wg.Wait() after readLoop: Run returns when both goroutines have.
Return(c) == reader[c].pc = "done" /\ reclaimer[c].pc = "done" /\ Stop(c)

Crash(c) == reader[c].pc # "down" /\ Stop(c)

-----------------------------------------------------------------------------
(* readLoop                                                                *)

ReaderCheck(c) ==
  /\ reader[c].pc = "top"
  /\ ReaderGoes(c, IF c \in cancelled THEN "done" ELSE "xread", {}, 0)
  /\ UNCHANGED <<server, cancelled, local, history>>

\* Entries arrive, also when the context was cancelled during the BLOCK.
ReaderReads(c) ==
  /\ reader[c].pc = "xread"
  /\ XReadGroup
  /\ ReaderGoes(c, "loop", Unread, 0)
  /\ UNCHANGED <<added, trimmed, idle, dlq, cancelled, local, history>>

\* redis.Nil when BLOCK ends with nothing to read, or a context cancelled
\* before the command was sent.
ReaderTimesOut(c) ==
  /\ reader[c].pc = "xread"
  /\ Unread = {} \/ c \in cancelled
  /\ ReaderGoes(c, "top", {}, 0)
  /\ UNCHANGED <<server, cancelled, local, history>>

\* Any other error ends readLoop, unless the context is cancelled; the
\* server may have delivered the entries of the lost reply.
ReaderReadFails(c) ==
  /\ reader[c].pc = "xread"
  /\ Fault
  /\ XReadGroup \/ UNCHANGED <<last, pending>>
  /\ ReaderGoes(c, IF c \in cancelled THEN "top" ELSE "done", {}, 0)
  /\ UNCHANGED <<added, trimmed, idle, dlq, cancelled, local,
                 starts, handled, exhausted, tries>>

\* The next entry of the batch is dispatched, whatever the context says.
ReaderDispatches(c) ==
  /\ reader[c].pc = "loop"
  /\ \E i \in reader[c].batch :
       /\ IsLeast(i, reader[c].batch)
       /\ ReaderGoes(c, "handler", reader[c].batch \ {i}, i)
       /\ tries' = [tries EXCEPT ![i] = @ + 1]
  /\ UNCHANGED <<server, cancelled, local, starts, faults, handled, exhausted>>

ReaderBatchEnds(c) ==
  /\ reader[c].pc = "loop" /\ reader[c].batch = {}
  /\ ReaderGoes(c, "top", {}, 0)
  /\ UNCHANGED <<server, cancelled, local, history>>

ReaderHandled(c) ==
  /\ reader[c].pc = "handler"
  /\ handled' = handled \cup {reader[c].cur}
  /\ ReaderGoes(c, "ack", reader[c].batch, reader[c].cur)
  /\ UNCHANGED <<server, cancelled, local, starts, faults, exhausted, tries>>

ReaderHandlerFailsAcked(c) ==  \* mutant: the entry is acknowledged anyway
  /\ reader[c].pc = "handler"
  /\ XAck(reader[c].cur)
  /\ ReaderGoes(c, "loop", reader[c].batch, 0)
  /\ UNCHANGED <<added, trimmed, last, dlq, cancelled, local, history>>

\* Dispatch returns the error: reported to OnError, the entry stays pending.
ReaderHandlerFails(c) ==
  /\ reader[c].pc = "handler"
  /\ ReaderGoes(c, "loop", reader[c].batch, 0)
  /\ UNCHANGED <<server, cancelled, local, history>>

\* streamIncoming.Ack, with a context that is never cancelled.
ReaderAcks(c) ==
  /\ reader[c].pc = "ack"
  /\ \/ XAck(reader[c].cur) /\ UNCHANGED faults
     \/ XAck(reader[c].cur) /\ Fault
     \/ UNCHANGED <<pending, idle>> /\ Fault
  /\ ReaderGoes(c, "loop", reader[c].batch, 0)
  /\ UNCHANGED <<added, trimmed, last, dlq, cancelled, local,
                 starts, handled, exhausted, tries>>

ReaderStep(c) ==
  \/ ReaderCheck(c) \/ ReaderReads(c) \/ ReaderTimesOut(c) \/ ReaderReadFails(c)
  \/ ReaderDispatches(c) \/ ReaderBatchEnds(c)
  \/ ReaderHandled(c) \/ ReaderHandlerFails(c) \/ ReaderAcks(c)

-----------------------------------------------------------------------------
(* runReclaimer                                                            *)

ReclaimerStops(c) ==
  /\ reclaimer[c].pc = "top" /\ c \in cancelled
  /\ ReclaimerGoes(c, "done", {}, 0) /\ Forget(c)
  /\ UNCHANGED <<server, cancelled, reader, history>>

ReclaimerClaims(c) ==
  /\ reclaimer[c].pc = "top" /\ c \notin cancelled
  /\ XAutoClaim(cursor[c])
  /\ \E n \in 0..MaxEntries :
       NextCursor(n, cursor[c]) /\ cursor' = [cursor EXCEPT ![c] = n]
  /\ LET claimed == Claimed(cursor[c])
     IN  ReclaimerGoes(c, IF claimed = {} THEN "top" ELSE "loop", claimed, 0)
  /\ UNCHANGED <<added, trimmed, last, dlq, cancelled, reader, attempts, history>>

ReclaimerClaimFailsReturns(c) ==  \* mutant: return instead of continue
  /\ reclaimer[c].pc = "top" /\ c \notin cancelled
  /\ Fault
  /\ ReclaimerGoes(c, "done", {}, 0)
  /\ UNCHANGED <<server, cancelled, reader, cursor, attempts,
                 starts, handled, exhausted, tries>>

\* onError, Sleep(Block), continue: the cursor stays where it was.
ReclaimerClaimFails(c) ==
  /\ reclaimer[c].pc = "top" /\ c \notin cancelled
  /\ Fault
  /\ XAutoClaim(cursor[c]) \/ UNCHANGED <<pending, idle>>
  /\ UNCHANGED <<added, trimmed, last, dlq, processes,
                 starts, handled, exhausted, tries>>

CountsNothing(c, i, pc) ==  \* mutant: attempts[entry.ID]++ is missing
  /\ reclaimer[c].pc = "loop"
  /\ IsLeast(i, reclaimer[c].batch)
  /\ UNCHANGED attempts
  /\ ReclaimerGoes(c, pc, reclaimer[c].batch \ {i}, i)

\* The next claimed entry is counted, attempts[entry.ID]++ ...
Counts(c, i, pc) ==
  /\ reclaimer[c].pc = "loop"
  /\ IsLeast(i, reclaimer[c].batch)
  /\ attempts' = [attempts EXCEPT ![c][i] = @ + 1]
  /\ ReclaimerGoes(c, pc, reclaimer[c].batch \ {i}, i)

ReclaimerGivesUpEarly(c) ==  \* mutant: off by one
  /\ \E i \in reclaimer[c].batch :
       /\ attempts[c][i] + 2 >= MaxDeliveries
       /\ Counts(c, i, IF DeadLetter THEN "dlq" ELSE "xack")
       /\ exhausted' = exhausted \cup {i}
  /\ UNCHANGED <<server, cancelled, reader, cursor, starts, faults, handled, tries>>

\* ... and is given up at MaxDeliveries ...
ReclaimerGivesUp(c) ==
  /\ \E i \in reclaimer[c].batch :
       /\ attempts[c][i] + 1 >= MaxDeliveries
       /\ Counts(c, i, IF DeadLetter THEN "dlq" ELSE "xack")
       /\ exhausted' = exhausted \cup {i}
  /\ UNCHANGED <<server, cancelled, reader, cursor, starts, faults, handled, tries>>

ReclaimerDispatchesPast(c) ==  \* mutant: attempts == MaxDeliveries, not >=
  /\ \E i \in reclaimer[c].batch :
       /\ attempts[c][i] + 1 # MaxDeliveries
       /\ Counts(c, i, "handler")
       /\ tries' = [tries EXCEPT ![i] = @ + 1]
  /\ UNCHANGED <<server, cancelled, reader, cursor, starts, faults, handled, exhausted>>

\* ... or dispatched again below that.
ReclaimerDispatches(c) ==
  /\ \E i \in reclaimer[c].batch :
       /\ attempts[c][i] + 1 < MaxDeliveries
       /\ Counts(c, i, "handler")
       /\ tries' = [tries EXCEPT ![i] = @ + 1]
  /\ UNCHANGED <<server, cancelled, reader, cursor, starts, faults, handled, exhausted>>

ReclaimerBatchEnds(c) ==
  /\ reclaimer[c].pc = "loop" /\ reclaimer[c].batch = {}
  /\ ReclaimerGoes(c, "top", {}, 0)
  /\ UNCHANGED <<server, cancelled, reader, cursor, attempts, history>>

ReclaimerHandled(c) ==
  /\ reclaimer[c].pc = "handler"
  /\ handled' = handled \cup {reclaimer[c].cur}
  /\ ReclaimerGoes(c, "ack", reclaimer[c].batch, reclaimer[c].cur)
  /\ UNCHANGED <<server, cancelled, reader, cursor, attempts,
                 starts, faults, exhausted, tries>>

ReclaimerHandlerFailsAcked(c) ==  \* mutant: the entry is acknowledged anyway
  /\ reclaimer[c].pc = "handler"
  /\ XAck(reclaimer[c].cur)
  /\ ReclaimerGoes(c, "loop", reclaimer[c].batch, 0)
  /\ UNCHANGED <<added, trimmed, last, dlq, cancelled, reader, cursor, attempts, history>>

ReclaimerHandlerFails(c) ==
  /\ reclaimer[c].pc = "handler"
  /\ ReclaimerGoes(c, "loop", reclaimer[c].batch, 0)
  /\ UNCHANGED <<server, cancelled, reader, cursor, attempts, history>>

\* Ack inside Dispatch; attempts keeps its count of the entry.
ReclaimerAcks(c) ==
  /\ reclaimer[c].pc = "ack"
  /\ \/ XAck(reclaimer[c].cur) /\ UNCHANGED faults
     \/ XAck(reclaimer[c].cur) /\ Fault
     \/ UNCHANGED <<pending, idle>> /\ Fault
  /\ ReclaimerGoes(c, "loop", reclaimer[c].batch, 0)
  /\ UNCHANGED <<added, trimmed, last, dlq, cancelled, reader, cursor, attempts,
                 starts, handled, exhausted, tries>>

AddToDlq(i) == dlq' = [dlq EXCEPT ![i] = @ + 1]

ReclaimerDeadLettersOnce(c) ==  \* mutant: acknowledged although the XADD failed
  LET i == reclaimer[c].cur IN
  /\ reclaimer[c].pc = "dlq"
  /\ \/ c \notin cancelled /\ AddToDlq(i) /\ UNCHANGED faults
     \/ c \in cancelled /\ UNCHANGED <<dlq, faults>>
     \/ Fault /\ (AddToDlq(i) \/ UNCHANGED dlq)
  /\ ReclaimerGoes(c, "xack", reclaimer[c].batch, i)
  /\ UNCHANGED <<added, trimmed, last, pending, idle, cancelled, reader, cursor,
                 attempts, starts, handled, exhausted, tries>>

\* XADD to the dead-letter stream, with the context of Run; on an error the
\* entry is left alone until it is claimed again.
ReclaimerDeadLetters(c) ==
  LET i == reclaimer[c].cur IN
  /\ reclaimer[c].pc = "dlq"
  /\ \/ /\ c \notin cancelled
        /\ AddToDlq(i) /\ UNCHANGED faults
        /\ ReclaimerGoes(c, "xack", reclaimer[c].batch, i)
     \/ /\ \/ c \in cancelled /\ UNCHANGED <<dlq, faults>>
           \/ Fault /\ (AddToDlq(i) \/ UNCHANGED dlq)
        /\ ReclaimerGoes(c, "loop", reclaimer[c].batch, 0)
  /\ UNCHANGED <<added, trimmed, last, pending, idle, cancelled, reader, cursor,
                 attempts, starts, handled, exhausted, tries>>

\* `_ = XAck(ctx)`: the error is ignored and attempts forgotten either way.
ReclaimerDropsEntry(c) ==
  LET i == reclaimer[c].cur IN
  /\ reclaimer[c].pc = "xack"
  /\ \/ c \notin cancelled /\ XAck(i) /\ UNCHANGED faults
     \/ c \notin cancelled /\ XAck(i) /\ Fault
     \/ c \in cancelled /\ UNCHANGED <<pending, idle, faults>>
     \/ UNCHANGED <<pending, idle>> /\ Fault
  /\ attempts' = [attempts EXCEPT ![c][i] = 0]
  /\ ReclaimerGoes(c, "loop", reclaimer[c].batch, 0)
  /\ UNCHANGED <<added, trimmed, last, dlq, cancelled, reader, cursor,
                 starts, handled, exhausted, tries>>

ReclaimerStep(c) ==
  \/ ReclaimerStops(c) \/ ReclaimerClaims(c) \/ ReclaimerClaimFails(c)
  \/ ReclaimerGivesUp(c) \/ ReclaimerDispatches(c) \/ ReclaimerBatchEnds(c)
  \/ ReclaimerHandled(c) \/ ReclaimerHandlerFails(c) \/ ReclaimerAcks(c)
  \/ ReclaimerDeadLetters(c) \/ ReclaimerDropsEntry(c)

-----------------------------------------------------------------------------
Next ==
  \/ Publish
  \/ \E i \in Ids : Elapse(i)
  \/ \E c \in Consumers :
       \/ Start(c) \/ Cancel(c) \/ Return(c) \/ Crash(c)
       \/ ReaderStep(c) \/ ReclaimerStep(c)

Spec == Init /\ [][Next]_vars

(* Goroutines are scheduled, handlers return, blocking reads end and time   *)
(* passes.  Nobody is obliged to publish, start, cancel or crash.           *)
Fairness ==
  /\ \A c \in Consumers :
       WF_vars(ReaderStep(c)) /\ WF_vars(ReclaimerStep(c)) /\ WF_vars(Return(c))
  /\ \A i \in Ids : WF_vars(Elapse(i))

FairSpec == Spec /\ Fairness

-----------------------------------------------------------------------------
(* Properties                                                              *)

\* The variables hold what the server and the goroutines can hold; the group
\* never runs ahead of the stream, and only delivered entries are pending.
ServerTypeOK ==
  /\ added \in 0..MaxEntries /\ trimmed \in 0..added /\ last \in 0..added
  /\ pending \subseteq 1..last /\ idle \subseteq pending
  /\ dlq \in [Ids -> Nat]

ProcessTypeOK ==
  /\ cancelled \subseteq Consumers
  /\ reader \in [Consumers -> Goroutine(ReaderPc)]
  /\ reclaimer \in [Consumers -> Goroutine(ReclaimerPc)]
  /\ cursor \in [Consumers -> 0..MaxEntries]
  /\ attempts \in [Consumers -> [Ids -> Nat]]

HistoryTypeOK ==
  /\ starts \in 0..MaxStarts /\ faults \in 0..MaxFaults
  /\ handled \subseteq Ids /\ exhausted \subseteq Ids
  /\ tries \in [Ids -> Nat]

TypeOK == ServerTypeOK /\ ProcessTypeOK /\ HistoryTypeOK

GivenUp(i) == i \in exhausted /\ (DeadLetter => dlq[i] > 0)

\* At-least-once: whatever crashes, restarts, cancellations and failed Redis
\* commands happen, an entry published is still to be read, or pending, or
\* was handled successfully, or was counted out by a reclaimer (and then sits
\* in the dead-letter stream when DeadLetter is set), or was trimmed by
\* MAXLEN.  This is what the place of each XACK in readLoop, runReclaimer and
\* the generated dispatch is for.
NoEntryLost ==
  \A i \in 1..added :
    \/ i > last \/ i \in pending \/ i <= trimmed
    \/ i \in handled \/ GivenUp(i)

\* An entry is counted out only after Dispatch was really called for it: at
\* least MaxDeliveries - 1 times, since runReclaimer compares before it
\* dispatches, and the read loop may never have come to it.
GivenUpOnlyAfterTries ==
  \A i \in exhausted : tries[i] >= MaxDeliveries - 1

\* The abstract at-least-once queue this system implements.
Outstanding == {i \in 1..added : i > last} \cup pending
GivenUpEntries == {i \in Ids : GivenUp(i)}

Queue == INSTANCE AtLeastOnce WITH
  Messages <- Ids, published <- 1..added, outstanding <- Outstanding,
  handled <- handled, givenUp <- GivenUpEntries

\* Without MAXLEN trimming, every step of the goroutines and of the server is
\* a step of the abstract queue or leaves it unchanged: reads, claims, crashes
\* and lost replies never settle an entry, and XACK settles only an entry that
\* was handled or given up before.
ImplementsAtLeastOnce == Queue!Spec

\* The attempts map lives in one call of Run and forgets an entry when its
\* XACK is sent: an entry is dispatched once by the read loop, and then at
\* most MaxDeliveries - 1 times per call of Run and per failed command.  The
\* dead-letter stream gets it at most once per call of Run and per failed
\* command: XADD and XACK of runReclaimer are two steps.
DeliveriesBounded ==
  \A i \in Ids :
    /\ tries[i] <= 1 + (IF MaxDeliveries > 0
                        THEN (MaxDeliveries - 1) * (starts + faults) ELSE 0)
    /\ dlq[i] <= starts + faults

\* A reclaimer that has counted an entry out never dispatches it again until
\* its XACK was sent: a dead-letter XADD that fails is retried on the next
\* claim, it does not hand the entry back to the handler.
ExhaustedNotDispatched ==
  [][\A c \in Consumers, i \in Ids :
       /\ attempts[c][i] >= MaxDeliveries
       /\ reclaimer[c].pc = "loop" /\ reclaimer'[c].cur = i
       => reclaimer'[c].pc \in {"dlq", "xack"}]_vars

\* A consumer in good health: it runs, reads, and is not told to stop.
Healthy(c) == reader[c].pc \notin {"down", "done"} /\ c \notin cancelled

\* While one consumer stays healthy, every entry published is delivered and
\* leaves the pending list: failed handlers are retried or given up, and what
\* crashed or stopped consumers left behind is recovered by XAUTOCLAIM.
EveryEntrySettles ==
  \A c \in Consumers :
    <>[]Healthy(c) => \A i \in Ids : (added >= i) ~> (last >= i /\ i \notin pending)

(* The inductive invariant behind NoEntryLost, GivenUpOnlyAfterTries and     *)
(* ImplementsAtLeastOnce.                                                  *)

\* A reader works on delivered entries; it XACKs only what was handled.
ReaderOk(c) ==
  /\ reader[c].batch \subseteq 1..last
  /\ reader[c].pc \in {"handler", "ack"} => reader[c].cur \in 1..last
  /\ reader[c].pc = "ack" => reader[c].cur \in handled

\* A reclaimer XACKs only what was handled, or counted out and dead-lettered.
ReclaimerOk(c) ==
  LET i == reclaimer[c].cur IN
  /\ reclaimer[c].batch \subseteq 1..last
  /\ reclaimer[c].pc \in {"handler", "ack", "dlq", "xack"} => i \in 1..last
  /\ reclaimer[c].pc = "ack" => i \in handled
  /\ reclaimer[c].pc \in {"dlq", "xack"} => i \in exhausted
  /\ reclaimer[c].pc = "xack" => GivenUp(i)

\* Every claim an attempts map counts short of MaxDeliveries was dispatched.
AttemptsWereTries ==
  \A c \in Consumers, i \in Ids :
    \/ attempts[c][i] <= tries[i]
    \/ tries[i] >= MaxDeliveries - 1

\* Holds of every state reached, and of whatever a step leads to from there:
\* the reason the XACKs of readLoop and runReclaimer lose nothing.
IInv ==
  /\ TypeOK
  /\ NoEntryLost
  /\ \A c \in Consumers : ReaderOk(c) /\ ReclaimerOk(c)
  /\ AttemptsWereTries
  /\ GivenUpOnlyAfterTries
  /\ \A i \in Ids : dlq[i] > 0 => i \in exhausted
  /\ handled \cup exhausted \subseteq 1..last

(* What the comments of redis.go say of the program.                       *)

\* "A handler error leaves the entry pending (streams mode) for redelivery"
\* (Run, redis.go:316): an entry that was dispatched does not stay pending
\* for ever next to a healthy consumer.
PendingIsRedelivered ==
  \A c \in Consumers :
    <>[]Healthy(c) =>
      \A i \in Ids : (tries[i] = 1 /\ i \in pending) ~> (tries[i] > 1 \/ i \notin pending)

\* "MaxDeliveries dead-letters an entry after this many delivery attempts"
\* (ConsumerConfig, redis.go:239): it was handed to Dispatch that many times.
DeadLetterAfterMaxDeliveries ==
  \A i \in Ids : dlq[i] > 0 => tries[i] >= MaxDeliveries

\* "Run consumes until ctx is cancelled" (redis.go:315): with its reader gone
\* and the context live, Run does not linger without consuming.
RunConsumesUntilCancelled ==
  \A c \in Consumers :
    (reader[c].pc = "done" /\ c \notin cancelled)
      ~> (c \in cancelled \/ reader[c].pc = "down")

=============================================================================
