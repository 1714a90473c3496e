------------------------------- MODULE RedisPubSub -------------------------------
(***************************************************************************)
(* The pubsub mode of runtime/redis: publishers PUBLISHing to channels and *)
(* one consumer whose Run PSUBSCRIBEs to a set of glob patterns.           *)
(*                                                                         *)
(* The server copies a message to the subscriber once per matching         *)
(* pattern, into its connection; a go-redis goroutine moves it from there  *)
(* to the Go channel that runPubSub selects on, and drops it when that     *)
(* channel stays full.  The connection may break: go-redis connects and    *)
(* subscribes again on its own.  Run may be cancelled at any step and      *)
(* called again, and the process may crash.                                *)
(*                                                                         *)
(* Message number i is the i-th PUBLISH.                                   *)
(***************************************************************************)
EXTENDS Integers, Sequences, FiniteSets

CONSTANTS
  Channels,     \* addresses messages are published to
  Patterns,     \* ConsumerConfig.Addresses: channel names and glob patterns
  Matches,      \* Matches[p]: the channels glob pattern p matches
  BufferSize,   \* capacity of the Go channel of pubsub.Channel()
  MaxMessages,  \* bound: messages published
  MaxRuns,      \* bound: calls of Run
  MaxFailures   \* bound: broken connections and crashes

ASSUME ConfigAssumption ==
  /\ IsFiniteSet(Patterns) /\ Patterns # {} /\ Matches \in [Patterns -> SUBSET Channels]
  /\ BufferSize \in Nat \ {0}
ASSUME BoundAssumption == MaxMessages \in Nat /\ MaxRuns \in Nat /\ MaxFailures \in Nat

VARIABLES
  published,   \* the messages so far: their channel, and whether they decode
  subscribed,  \* the server has the subscription, on a live connection
  wire,        \* copies sent on that connection, not yet received
  buffer,      \* copies in the Go channel
  run,         \* where Run is
  ready,       \* the ready channel is closed
  cancelled,   \* the context of Run is cancelled
  \* history
  runs, failures,
  sent,        \* copies of each message the server sent
  dispatched,  \* copies handed to Dispatch, in order
  reported,    \* copies of each message reported to OnError as undecodable
  lost         \* copies of each message nobody took from the Go channel

network  == <<published, subscribed, wire>>
process  == <<buffer, run, ready, cancelled>>
outcomes == <<sent, dispatched, reported, lost>>
vars     == <<network, process, runs, failures, outcomes>>

Ids == 1..MaxMessages
Message == [channel : Channels, decodes : BOOLEAN]
Pcs == {"idle", "receive", "select", "handler"}
None == [i \in Ids |-> 0]

Init ==
  /\ published = <<>> /\ subscribed = FALSE /\ wire = <<>>
  /\ buffer = <<>> /\ run = "idle" /\ ready = FALSE /\ cancelled = FALSE
  /\ runs = 0 /\ failures = 0
  /\ sent = None /\ dispatched = <<>> /\ reported = None /\ lost = None

Occurrences(i, seq) == Cardinality({k \in DOMAIN seq : seq[k] = i})
Plus(f, i, n) == [f EXCEPT ![i] = @ + n]
Loses(seq) == lost' = [i \in Ids |-> lost[i] + Occurrences(i, seq)]
Fails == failures < MaxFailures /\ failures' = failures + 1

-----------------------------------------------------------------------------
(* The server and go-redis.                                                *)

\* PUBLISH reaches a subscriber once for each of its patterns that match.
Copies(m) == Cardinality({p \in Patterns : m.channel \in Matches[p]})

\* Publisher.Publish with its JSON envelope, which always decodes, or another
\* program's payload, which may not.
Publish(m) ==
  LET i == Len(published) + 1
      n == IF subscribed THEN Copies(m) ELSE 0
  IN
  /\ i <= MaxMessages
  /\ published' = Append(published, m)
  /\ wire' = wire \o [k \in 1..n |-> i]
  /\ sent' = Plus(sent, i, n)
  /\ UNCHANGED <<subscribed, process, runs, failures, dispatched, reported, lost>>

\* The go-redis goroutine of pubsub.Channel() drops a copy when the Go
\* channel stays full.
Deliver ==
  /\ run \in {"select", "handler"} /\ wire # <<>>
  /\ wire' = Tail(wire)
  /\ IF Len(buffer) < BufferSize
     THEN buffer' = Append(buffer, Head(wire)) /\ UNCHANGED lost
     ELSE Loses(<<Head(wire)>>) /\ UNCHANGED buffer
  /\ UNCHANGED <<published, subscribed, run, ready, cancelled, runs, failures,
                 sent, dispatched, reported>>

\* The connection breaks with what is under way on it.
Break ==
  /\ subscribed /\ Fails
  /\ subscribed' = FALSE /\ wire' = <<>> /\ Loses(wire)
  /\ UNCHANGED <<published, process, runs, sent, dispatched, reported>>

\* go-redis subscribes again, without runPubSub noticing.
Reconnect ==
  /\ run \in {"select", "handler"} /\ ~subscribed
  /\ subscribed' = TRUE
  /\ UNCHANGED <<published, wire, process, runs, failures, outcomes>>

-----------------------------------------------------------------------------
(* Consumer.Run                                                            *)

Run ==
  /\ run = "idle" /\ runs < MaxRuns
  /\ runs' = runs + 1 /\ cancelled' = FALSE
  /\ run' = "receive"
  /\ UNCHANGED <<network, buffer, ready, failures, outcomes>>

Cancel ==
  /\ run # "idle" /\ ~cancelled /\ cancelled' = TRUE
  /\ UNCHANGED <<network, buffer, run, ready, runs, failures, outcomes>>

PSubscribe ==
  /\ run = "receive" /\ ~subscribed /\ ~cancelled
  /\ subscribed' = TRUE
  /\ UNCHANGED <<published, wire, process, runs, failures, outcomes>>

ReceiveUnconfirmed ==  \* mutant: Ready is closed without the confirmation
  /\ run = "receive"
  /\ ready' = TRUE /\ run' = "select"
  /\ UNCHANGED <<network, buffer, cancelled, runs, failures, outcomes>>

\* The first Receive is the confirmation of PSUBSCRIBE: then Ready is closed.
Receive ==
  /\ run = "receive" /\ subscribed
  /\ ready' = TRUE /\ run' = "select"
  /\ UNCHANGED <<network, buffer, cancelled, runs, failures, outcomes>>

\* The deferred pubsub.Close: the subscription goes, with what was under way.
Returns ==
  /\ run' = "idle"
  /\ subscribed' = FALSE /\ wire' = <<>> /\ buffer' = <<>> /\ Loses(wire \o buffer)
  /\ UNCHANGED <<published, sent, dispatched, reported>>

\* Receive fails: always when cancelled before there is a connection.
ReceiveFails ==
  /\ run = "receive"
  /\ \/ cancelled /\ ~subscribed /\ UNCHANGED failures
     \/ Fails
  /\ Returns
  /\ UNCHANGED <<ready, cancelled, runs>>

Crash ==
  /\ run # "idle" /\ Fails
  /\ Returns
  /\ ready' = FALSE /\ cancelled' = FALSE
  /\ UNCHANGED runs

-----------------------------------------------------------------------------
(* The loop of runPubSub.                                                  *)

ContextDoneOnMessage ==  \* mutant: the context is looked at once per message
  /\ run = "select" /\ cancelled /\ buffer # <<>>
  /\ Returns
  /\ UNCHANGED <<ready, cancelled, runs, failures>>

\* select: with the context done and a message there, either case is taken.
ContextDone ==
  /\ run = "select" /\ cancelled
  /\ Returns
  /\ UNCHANGED <<ready, cancelled, runs, failures>>

TakeMessage ==
  /\ run = "select" /\ buffer # <<>>
  /\ published[Head(buffer)].decodes
  /\ buffer' = Tail(buffer)
  /\ dispatched' = Append(dispatched, Head(buffer))
  /\ run' = "handler"
  /\ UNCHANGED <<network, ready, cancelled, runs, failures, sent, reported, lost>>

TakeUndecodableQuietly ==  \* mutant: onError is not called
  /\ run = "select" /\ buffer # <<>>
  /\ ~published[Head(buffer)].decodes
  /\ buffer' = Tail(buffer)
  /\ UNCHANGED <<network, run, ready, cancelled, runs, failures, outcomes>>

\* An envelope that does not decode is reported, and the loop goes on.
TakeUndecodable ==
  /\ run = "select" /\ buffer # <<>>
  /\ ~published[Head(buffer)].decodes
  /\ buffer' = Tail(buffer)
  /\ reported' = Plus(reported, Head(buffer), 1)
  /\ UNCHANGED <<network, run, ready, cancelled, runs, failures, sent, dispatched, lost>>

DispatchRequeues ==  \* mutant: a failed dispatch goes to the end of the channel
  /\ run = "handler"
  /\ run' = "select"
  /\ \/ UNCHANGED buffer
     \/ /\ Len(buffer) < BufferSize
        /\ buffer' = Append(buffer, dispatched[Len(dispatched)])
  /\ UNCHANGED <<network, ready, cancelled, runs, failures, outcomes>>

\* A failed dispatch is only reported: there is nothing to acknowledge.
DispatchReturns ==
  /\ run = "handler"
  /\ run' = "select"
  /\ UNCHANGED <<network, buffer, ready, cancelled, runs, failures, outcomes>>

RunStep ==
  \/ PSubscribe \/ Receive \/ ReceiveFails
  \/ ContextDone \/ TakeMessage \/ TakeUndecodable \/ DispatchReturns

Next ==
  \/ \E m \in Message : Publish(m)
  \/ Deliver \/ Break \/ Reconnect
  \/ Run \/ Cancel \/ Crash
  \/ RunStep

Spec == Init /\ [][Next]_vars

\* Run is scheduled, handlers return and commands end.  Of the two cases of
\* select, ContextDone is taken in the end: Go picks one at random.
Fairness == WF_vars(RunStep) /\ SF_vars(ContextDone)
FairSpec == Spec /\ Fairness

-----------------------------------------------------------------------------
(* Properties                                                              *)

TypeOK ==
  /\ published \in Seq(Message) /\ Len(published) <= MaxMessages
  /\ subscribed \in BOOLEAN /\ ready \in BOOLEAN /\ cancelled \in BOOLEAN
  /\ wire \in Seq(1..Len(published)) /\ buffer \in Seq(1..Len(published))
  /\ Len(buffer) <= BufferSize
  /\ dispatched \in Seq(1..Len(published))
  /\ run \in Pcs /\ runs \in 0..MaxRuns /\ failures \in 0..MaxFailures
  /\ sent \in [Ids -> Nat] /\ reported \in [Ids -> Nat] /\ lost \in [Ids -> Nat]

\* Every copy the server sent is still under way, was handed to Dispatch, was
\* reported, or was lost outside the loop (a full channel, a broken
\* connection, the end of Run): runPubSub itself drops nothing silently.  And
\* none is made up: there are at most as many copies as patterns of the
\* consumer match the channel, failed handlers, reconnections and new calls of
\* Run included.
EveryCopyAccounted ==
  \A i \in Ids :
    /\ sent[i] = Occurrences(i, wire) + Occurrences(i, buffer)
                 + Occurrences(i, dispatched) + reported[i] + lost[i]
    /\ sent[i] <= IF i <= Len(published) THEN Copies(published[i]) ELSE 0

\* Messages reach the handlers in the order they were published, across
\* channels, patterns, drops, reconnections and calls of Run.
DispatchedInOrder ==
  \A j, k \in DOMAIN dispatched : j < k => dispatched[j] <= dispatched[k]

\* Ready is closed by a Run whose subscription the server has confirmed, and
\* until the connection breaks a message published from then on is sent.
ReadyAfterSubscribed == [][ready' /\ ~ready => subscribed']_vars

\* "Run consumes until ctx is cancelled" (redis.go:315): neither undecodable
\* messages, failed handlers nor reconnections end it, and a cancelled Run
\* returns, although messages may keep its loop busy.
RunsUntilCancelled ==
  /\ [][run' = "idle" /\ run # "idle" => cancelled \/ failures' > failures]_vars
  /\ cancelled ~> run = "idle"

=============================================================================
