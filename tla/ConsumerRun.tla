------------------------------- MODULE ConsumerRun -------------------------------
(***************************************************************************)
(* The life of one redis.Consumer: NewConsumer, Run in both modes, Ready   *)
(* and Close, for any configuration, with Redis commands that may fail.    *)
(* What happens to the entries read is the subject of RedisStreams and     *)
(* RedisPubSub; here a read that succeeds only comes back to the loop.     *)
(*                                                                         *)
(* Runners are the goroutines that call Run on the same Consumer, each     *)
(* with a context of its own, one call after the other.                    *)
(***************************************************************************)
EXTENDS RedisConfig

CONSTANTS
  Streams,       \* the addresses configurations are made of
  AddressLists,  \* the ConsumerConfig.Addresses considered
  Runners,       \* goroutines that call Run
  MaxRuns,       \* bound: calls of Run
  MaxFaults      \* bound: failing Redis commands

ASSUME BoundAssumption == MaxRuns \in Nat /\ MaxFaults \in Nat
ASSUME ListAssumption == AddressLists \subseteq Seq(Streams)

VARIABLES
  consumer,    \* "none", "rejected" or "made" by NewConsumer
  cfg,         \* its ConsumerConfig, with the mode normalised
  client,      \* "open", or "closed" by Consumer.Close
  ready,       \* the ready channel is closed
  panicked,    \* the ready channel was closed twice
  runner,      \* each goroutine inside Run
  cancelled,   \* the runners whose context is cancelled
  reclaimer,   \* the reclaimer goroutine each call of Run started
  groups,      \* streams that have the consumer group, on the server
  subscribed,  \* runners whose PSUBSCRIBE is in force on the server
  runs, faults \* calls of Run, failed commands

vars == <<consumer, cfg, client, ready, panicked, runner, cancelled, reclaimer,
          groups, subscribed, runs, faults>>
made == <<consumer, cfg>>
channel == <<ready, panicked>>

Configs ==
  [mode : {"", "streams", "pubsub", "other"}, addresses : AddressLists,
   group : BOOLEAN, addr : BOOLEAN, client : BOOLEAN, reclaims : BOOLEAN]

Pcs == {"idle", "create", "subscribe", "receive", "ready", "close",
        "top", "read", "wait", "consume"}
Results == {"none", "error", "ctx", "nil"}

\* A goroutine in Run: where it is, the next address of the XGROUP CREATE
\* loop, and what the last call returned or is about to.
At(pc, todo, result) == [pc |-> pc, todo |-> todo, result |-> result]

Init ==
  /\ consumer = "none" /\ cfg \in Configs /\ client = "open"
  /\ ready = FALSE /\ panicked = FALSE
  /\ runner = [r \in Runners |-> At("idle", 1, "none")]
  /\ cancelled = {} /\ reclaimer = [r \in Runners |-> "none"]
  /\ groups \in SUBSET Streams /\ subscribed = {}
  /\ runs = 0 /\ faults = 0

-----------------------------------------------------------------------------
\* Validates the configuration and creates the client unless one is given.
NewConsumer ==
  /\ consumer = "none"
  /\ IF ConsumerAccepts(cfg)
     THEN consumer' = "made" /\ cfg' = [cfg EXCEPT !.mode = parseMode(@)]
     ELSE consumer' = "rejected" /\ UNCHANGED cfg
  /\ UNCHANGED <<client, channel, runner, cancelled, reclaimer, groups, subscribed,
                 runs, faults>>

\* Close closes the client only when NewConsumer created it; go-redis then
\* closes the connections of its subscriptions too.
Close ==
  /\ consumer = "made" /\ ~cfg.client /\ client = "open"
  /\ client' = "closed" /\ subscribed' = {}
  /\ UNCHANGED <<made, channel, runner, cancelled, reclaimer, groups, runs, faults>>

-----------------------------------------------------------------------------
Goes(r, pc, todo, result) == runner' = [runner EXCEPT ![r] = At(pc, todo, result)]

\* A command needs an open client and a live context, and may fail anyway.
Works(r) == client = "open" /\ r \notin cancelled
Fault == faults < MaxFaults /\ faults' = faults + 1
Fails(r) == IF Works(r) THEN Fault ELSE UNCHANGED faults

Run(r) ==
  /\ consumer = "made" /\ runner[r].pc = "idle" /\ runs < MaxRuns
  /\ runs' = runs + 1
  /\ cancelled' = cancelled \ {r}
  /\ Goes(r, IF cfg.mode = "streams" THEN "create" ELSE "subscribe", 1, "none")
  /\ UNCHANGED <<made, client, channel, reclaimer, groups, subscribed, faults>>

Cancel(r) ==
  /\ runner[r].pc # "idle" /\ r \notin cancelled
  /\ cancelled' = cancelled \cup {r}
  /\ UNCHANGED <<made, client, channel, runner, reclaimer, groups, subscribed,
                 runs, faults>>

CreateGroupGoesOn(r) ==  \* mutant: the error is not returned
  LET k == runner[r].todo IN
  /\ runner[r].pc = "create" /\ k <= Len(cfg.addresses)
  /\ \/ Works(r) /\ groups' = groups \cup {cfg.addresses[k]} /\ UNCHANGED faults
     \/ Fails(r) /\ UNCHANGED groups
  /\ Goes(r, "create", k + 1, "none")
  /\ UNCHANGED <<made, client, channel, cancelled, reclaimer, subscribed, runs>>

\* XGROUP CREATE on the next stream; BUSYGROUP counts as success.
CreateGroup(r) ==
  LET k == runner[r].todo
      stream == cfg.addresses[k]
  IN
  /\ runner[r].pc = "create" /\ k <= Len(cfg.addresses)
  /\ \/ /\ Works(r)
        /\ groups' = groups \cup {stream} /\ UNCHANGED faults
        /\ Goes(r, "create", k + 1, "none")
     \/ /\ Fails(r)
        /\ \/ UNCHANGED groups
           \/ Works(r) /\ groups' = groups \cup {stream}
        /\ Goes(r, "idle", 1, "error")
  /\ UNCHANGED <<made, client, channel, cancelled, reclaimer, subscribed, runs>>

GroupsCreated(r) ==
  /\ runner[r].pc = "create" /\ runner[r].todo > Len(cfg.addresses)
  /\ Goes(r, "ready", 1, "none")
  /\ UNCHANGED <<made, client, channel, cancelled, reclaimer, groups, subscribed,
                 runs, faults>>

\* PSUBSCRIBE is sent; go-redis keeps its error for Receive.
PSubscribe(r) ==
  /\ runner[r].pc = "subscribe"
  /\ \/ Works(r) /\ subscribed' = subscribed \cup {r} /\ UNCHANGED faults
     \/ Fails(r) /\ UNCHANGED subscribed
  /\ Goes(r, "receive", 1, "none")
  /\ UNCHANGED <<made, client, channel, cancelled, reclaimer, groups, runs>>

\* Receive waits for the first confirmation (subscribing again when there is
\* no connection); its error ends Run, which closes the subscription.
Receive(r) ==
  /\ runner[r].pc = "receive"
  /\ \/ /\ r \in subscribed \/ Works(r)
        /\ subscribed' = subscribed \cup {r} /\ UNCHANGED faults
        /\ Goes(r, "ready", 1, "none")
     \/ /\ IF r \in subscribed \/ Works(r) THEN Fault ELSE UNCHANGED faults
        /\ subscribed' = subscribed \ {r}
        /\ Goes(r, "idle", 1, "error")
  /\ UNCHANGED <<made, client, channel, cancelled, reclaimer, groups, runs>>

\* After markReady the loops start: in streams mode the reclaimer too.
StartsLoops(r) ==
  /\ Goes(r, IF cfg.mode = "streams" THEN "top" ELSE "consume", 1, "none")
  /\ reclaimer' = [reclaimer EXCEPT ![r] =
       IF cfg.mode = "streams" /\ cfg.reclaims THEN "running" ELSE "none"]

\* markReady first looks at the channel ...
MarkReadyLooks(r) ==
  /\ runner[r].pc = "ready"
  /\ IF ready THEN StartsLoops(r)
     ELSE Goes(r, "close", 1, "none") /\ UNCHANGED reclaimer
  /\ UNCHANGED <<made, client, channel, cancelled, groups, subscribed, runs, faults>>

\* ... and then closes it: closing it a second time panics.
MarkReadyCloses(r) ==
  /\ runner[r].pc = "close"
  /\ panicked' = ready
  /\ ready' = TRUE
  /\ StartsLoops(r)
  /\ UNCHANGED <<made, client, cancelled, groups, subscribed, runs, faults>>

\* The STREAMS arguments of readLoop: every address, then a single ">".
\* Redis reads the first half as keys and the second half as their ids.
StreamsArgs == Append(cfg.addresses, ">")
WellFormed(args) ==
  LET n == Len(args) \div 2 IN
  /\ Len(args) = 2 * n
  /\ \A i \in n + 1 .. 2 * n : args[i] = ">"

ReadLoopUnchecked(r) ==  \* mutant: ctx.Err() is not looked at
  /\ runner[r].pc = "top"
  /\ Goes(r, "read", 1, "none")
  /\ UNCHANGED <<made, client, channel, cancelled, reclaimer, groups, subscribed,
                 runs, faults>>

ReadLoopTop(r) ==
  /\ runner[r].pc = "top"
  /\ IF r \in cancelled THEN Goes(r, "wait", 1, "ctx") ELSE Goes(r, "read", 1, "none")
  /\ UNCHANGED <<made, client, channel, cancelled, reclaimer, groups, subscribed,
                 runs, faults>>

\* XREADGROUP: entries or the end of BLOCK bring the loop round, and so does
\* any error once the context is cancelled; another error ends readLoop.
ReadGroup(r) ==
  /\ runner[r].pc = "read"
  /\ \/ /\ r \in cancelled \/ (Works(r) /\ WellFormed(StreamsArgs))
        /\ UNCHANGED faults
        /\ Goes(r, "top", 1, "none")
     \/ /\ r \notin cancelled
        /\ IF WellFormed(StreamsArgs) THEN Fails(r) ELSE UNCHANGED faults
        /\ Goes(r, "wait", 1, "error")
  /\ UNCHANGED <<made, client, channel, cancelled, reclaimer, groups, subscribed, runs>>

\* XAUTOCLAIM errors only make it sleep; it looks at the context every time.
ReclaimerStops(r) ==
  /\ reclaimer[r] = "running" /\ r \in cancelled
  /\ reclaimer' = [reclaimer EXCEPT ![r] = "done"]
  /\ UNCHANGED <<made, client, channel, runner, cancelled, groups, subscribed,
                 runs, faults>>

ReturnAtOnce(r) ==  \* mutant: wg.Wait() is missing
  /\ runner[r].pc = "wait"
  /\ Goes(r, "idle", 1, runner[r].result)
  /\ UNCHANGED <<made, client, channel, cancelled, reclaimer, groups, subscribed,
                 runs, faults>>

\* wg.Wait(), then Run returns what readLoop returned.
Return(r) ==
  /\ runner[r].pc = "wait" /\ reclaimer[r] # "running"
  /\ Goes(r, "idle", 1, runner[r].result)
  /\ UNCHANGED <<made, client, channel, cancelled, reclaimer, groups, subscribed,
                 runs, faults>>

\* The select of runPubSub: the context is done, or go-redis closed the
\* message channel, which it does once its client is closed.
ConsumeEnds(r) ==
  /\ runner[r].pc = "consume"
  /\ r \in cancelled \/ client = "closed"
  /\ Goes(r, "idle", 1, IF r \in cancelled THEN "ctx" ELSE "nil")
  /\ subscribed' = subscribed \ {r}
  /\ UNCHANGED <<made, client, channel, cancelled, reclaimer, groups, runs, faults>>

-----------------------------------------------------------------------------
RunnerStep(r) ==
  /\ ~panicked
  /\ \/ CreateGroup(r) \/ GroupsCreated(r) \/ PSubscribe(r) \/ Receive(r)
     \/ MarkReadyLooks(r) \/ MarkReadyCloses(r)
     \/ ReadLoopTop(r) \/ ReadGroup(r) \/ Return(r) \/ ConsumeEnds(r)

ReclaimerStep(r) == ~panicked /\ ReclaimerStops(r)

Next ==
  \/ NewConsumer
  \/ ~panicked /\ Close
  \/ \E r \in Runners :
       \/ ~panicked /\ (Run(r) \/ Cancel(r))
       \/ RunnerStep(r) \/ ReclaimerStep(r)

Spec == Init /\ [][Next]_vars

\* Goroutines are scheduled and Redis commands end, well or badly.
Fairness == \A r \in Runners : WF_vars(RunnerStep(r)) /\ WF_vars(ReclaimerStep(r))
FairSpec == Spec /\ Fairness

-----------------------------------------------------------------------------
(* Properties                                                              *)

TypeOK ==
  /\ consumer \in {"none", "rejected", "made"} /\ cfg \in Configs
  /\ client \in {"open", "closed"} /\ ready \in BOOLEAN /\ panicked \in BOOLEAN
  /\ runner \in [Runners -> [pc : Pcs, todo : Nat \ {0}, result : Results]]
  /\ cancelled \subseteq Runners /\ groups \subseteq Streams
  /\ subscribed \subseteq Runners
  /\ reclaimer \in [Runners -> {"none", "running", "done"}]
  /\ runs \in 0..MaxRuns /\ faults \in 0..MaxFaults

\* "Ready is closed once subscriptions and consumer groups are established":
\* whoever waited for Ready may publish to any address of the configuration
\* and the group will read it, even if Run failed on the way and was retried.
Listed == {cfg.addresses[k] : k \in DOMAIN cfg.addresses}
ReadyMeansGroups ==
  consumer = "made" /\ ready /\ cfg.mode = "streams" => Listed \subseteq groups

\* markReady never closes the channel twice, however often Run is called
\* again after it returned (one goroutine calling Run).
ReadyClosedOnce == ~panicked

\* wg.Wait(): when Run has returned, no reclaimer of it is left working.
NoReclaimerLeft ==
  \A r \in Runners : reclaimer[r] = "running" => runner[r].pc \in {"top", "read", "wait"}

\* "Run consumes until ctx is cancelled" (redis.go:315): a call of Run that
\* returned was cancelled, or lost its Redis server or its client.
RunsUntilCancelled ==
  \A r \in Runners :
    runner[r].pc = "idle" /\ runner[r].result # "none"
      => r \in cancelled \/ faults > 0 \/ client = "closed"

\* Run says why it returned: the context's error when it was cancelled, nil
\* only in pubsub mode after Close; a streams Run never returns nil.
RunSaysWhy ==
  \A r \in Runners :
    /\ runner[r].result = "ctx" => r \in cancelled
    /\ runner[r].result = "nil" => client = "closed" /\ cfg.mode = "pubsub"

\* A cancelled Run returns from wherever it is: creating groups, subscribing,
\* reading, or waiting for the reclaimer.
CancelledRunReturns ==
  \A r \in Runners : (r \in cancelled) ~> (runner[r].pc = "idle")

=============================================================================
