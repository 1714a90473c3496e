---------------------------- MODULE ConsumerRunProofs ----------------------------
(***************************************************************************)
(* Theorems about ConsumerRun, for any configuration, any set of           *)
(* goroutines calling Run and any number of calls and failing commands.    *)
(***************************************************************************)
EXTENDS ConsumerRun, TLAPS

Streaming == cfg.mode = "streams"

\* Where a goroutine in Run can be, by what NewConsumer made; what the last
\* call returned is only kept at rest and while waiting for the reclaimer.
Phases ==
  /\ consumer = "made" => cfg.mode \in {"streams", "pubsub"}
  /\ consumer # "made" => /\ ~ready /\ ~panicked
                        /\ \A r \in Runners : runner[r] = At("idle", 1, "none")
  /\ \A r \in Runners :
       /\ runner[r].pc \in {"create", "top", "read", "wait"} => Streaming
       /\ runner[r].pc \in {"subscribe", "receive", "consume"} => cfg.mode = "pubsub"
       /\ runner[r].pc \notin {"idle", "wait"} => runner[r].result = "none"

\* The loop over the addresses has made the groups before its next address,
\* and all of them once it is over.
GroupsMade ==
  \A r \in Runners :
    /\ runner[r].pc = "create" =>
         \A k \in DOMAIN cfg.addresses : k < runner[r].todo => cfg.addresses[k] \in groups
    /\ runner[r].pc \in {"ready", "close"} /\ Streaming => Listed \subseteq groups

\* With one goroutine, the channel is still open when markReady closes it.
Alone == \A p, q \in Runners : p = q
OneCloser ==
  Alone => /\ ~panicked
           /\ \A r \in Runners : runner[r].pc = "close" => ~ready

\* The inductive invariant: ReadyMeansGroups needs the progress of the loop,
\* RunSaysWhy that a result is not carried from phase to phase.
IInv ==
  /\ TypeOK /\ Phases /\ GroupsMade
  /\ ReadyMeansGroups /\ NoReclaimerLeft /\ RunSaysWhy /\ OneCloser

-----------------------------------------------------------------------------
\* The addresses of a configuration are a sequence of streams.
LEMMA AddressList ==
  ASSUME TypeOK
  PROVE  /\ cfg.addresses \in Seq(Streams) /\ DOMAIN cfg.addresses = 1..Len(cfg.addresses)
         /\ Len(cfg.addresses) \in Nat
<1>1. cfg.addresses \in AddressLists
  BY DEF TypeOK, Configs
<1>2. cfg.addresses \in Seq(Streams)
  BY <1>1, ListAssumption
<1>3. QED
  BY <1>2

\* One goroutine moves, the others stay where they are.
LEMMA Moves ==
  ASSUME TypeOK, NEW r \in Runners, NEW pc \in Pcs, NEW todo \in Nat \ {0},
         NEW result \in Results, Goes(r, pc, todo, result)
  PROVE  /\ runner' \in [Runners -> [pc : Pcs, todo : Nat \ {0}, result : Results]]
         /\ runner'[r].pc = pc /\ runner'[r].todo = todo /\ runner'[r].result = result
         /\ \A q \in Runners \ {r} : runner'[q] = runner[q]
  BY DEF TypeOK, Goes, At

\* A call of Run enters at the start of its mode.
LEMMA RunKeeps ==
  ASSUME IInv, NEW r \in Runners, Run(r)
  PROVE  IInv'
<1>0. cfg.addresses \in Seq(Streams) /\ DOMAIN cfg.addresses = 1..Len(cfg.addresses)
  BY AddressList DEF IInv
<1> USE DEF IInv, made, channel, Run, Goes, At
<1>1. TypeOK'
  BY BoundAssumption DEF TypeOK, Pcs, Results
<1>2. Phases'
  BY DEF Phases, Streaming, TypeOK
<1>3. GroupsMade'
  BY <1>0 DEF GroupsMade, Phases, Streaming, Listed, TypeOK
<1>4. ReadyMeansGroups'
  BY DEF ReadyMeansGroups, GroupsMade, Phases, Streaming, Listed, TypeOK
<1>5. NoReclaimerLeft'
  BY DEF NoReclaimerLeft, TypeOK
<1>6. RunSaysWhy'
  BY DEF RunSaysWhy, Phases, Streaming, TypeOK
<1>7. OneCloser'
  BY DEF OneCloser, Alone, TypeOK
<1>8. QED
  BY <1>1, <1>2, <1>3, <1>4, <1>5, <1>6, <1>7

\* Cancelling the context moves nothing.
LEMMA CancelKeeps ==
  ASSUME IInv, NEW r \in Runners, Cancel(r)
  PROVE  IInv'
<1>0. cfg.addresses \in Seq(Streams) /\ DOMAIN cfg.addresses = 1..Len(cfg.addresses)
  BY AddressList DEF IInv
<1> USE DEF IInv, made, channel, Cancel
<1>1. TypeOK'
  BY BoundAssumption DEF TypeOK, Pcs, Results
<1>2. Phases'
  BY DEF Phases, Streaming, TypeOK
<1>3. GroupsMade'
  BY <1>0 DEF GroupsMade, Phases, Streaming, Listed, TypeOK
<1>4. ReadyMeansGroups'
  BY DEF ReadyMeansGroups, GroupsMade, Phases, Streaming, Listed, TypeOK
<1>5. NoReclaimerLeft'
  BY DEF NoReclaimerLeft, TypeOK
<1>6. RunSaysWhy'
  BY DEF RunSaysWhy, Phases, Streaming, TypeOK
<1>7. OneCloser'
  BY DEF OneCloser, Alone, TypeOK
<1>8. QED
  BY <1>1, <1>2, <1>3, <1>4, <1>5, <1>6, <1>7

\* One XGROUP CREATE: the group is there before the loop goes on.
LEMMA CreateGroupKeeps ==
  ASSUME IInv, NEW r \in Runners, CreateGroup(r)
  PROVE  IInv'
<1>0. cfg.addresses \in Seq(Streams) /\ DOMAIN cfg.addresses = 1..Len(cfg.addresses)
  BY AddressList DEF IInv
<1>1. /\ runner[r].pc = "create" /\ runner' \in [Runners -> [pc : Pcs, todo : Nat \ {0}, result : Results]]
      /\ \A q \in Runners \ {r} : runner'[q] = runner[q]
      /\ \/ /\ runner'[r].pc = "create" /\ runner'[r].todo = runner[r].todo + 1
            /\ runner'[r].result = "none" /\ cfg.addresses[runner[r].todo] \in groups'
         \/ runner'[r].pc = "idle" /\ runner'[r].result = "error"
  <2>1. CASE Goes(r, "create", runner[r].todo + 1, "none") /\ cfg.addresses[runner[r].todo] \in groups'
    BY <2>1, Moves DEF IInv, TypeOK, Pcs, Results, CreateGroup
  <2>2. CASE Goes(r, "idle", 1, "error")
    BY <2>2, Moves DEF IInv, TypeOK, Pcs, Results, CreateGroup
  <2>3. QED
    BY <2>1, <2>2 DEF CreateGroup
<1>2. /\ groups \subseteq groups' /\ groups' \subseteq Streams
      /\ faults' \in 0..MaxFaults
  <2>1. cfg.addresses[runner[r].todo] \in Streams
    BY <1>0 DEF IInv, TypeOK, CreateGroup
  <2>2. QED
    BY <2>1, BoundAssumption DEF IInv, TypeOK, CreateGroup, Fails, Fault
<1>3. UNCHANGED <<consumer, cfg, client, ready, panicked, cancelled, reclaimer, subscribed, runs>>
  BY DEF CreateGroup, made, channel
<1> USE DEF IInv
<1>4. TypeOK'
  BY <1>1, <1>2, <1>3 DEF TypeOK
<1>5. Phases'
  BY <1>1, <1>2, <1>3 DEF Phases, Streaming, TypeOK, At
<1>6. GroupsMade'
  BY <1>1, <1>2, <1>3, <1>0 DEF GroupsMade, Phases, Streaming, Listed, TypeOK
<1>7. ReadyMeansGroups'
  BY <1>1, <1>2, <1>3 DEF ReadyMeansGroups, GroupsMade, Phases, Streaming, Listed, TypeOK
<1>8. NoReclaimerLeft'
  BY <1>1, <1>2, <1>3 DEF NoReclaimerLeft, TypeOK
<1>9. RunSaysWhy'
  BY <1>1, <1>2, <1>3 DEF RunSaysWhy, Phases, Streaming, TypeOK
<1>10. OneCloser'
  BY <1>1, <1>2, <1>3 DEF OneCloser, Alone, TypeOK
<1>11. QED
  BY <1>4, <1>5, <1>6, <1>7, <1>8, <1>9, <1>10

\* The loop ends with a group on every address.
LEMMA GroupsCreatedKeeps ==
  ASSUME IInv, NEW r \in Runners, GroupsCreated(r)
  PROVE  IInv'
<1>0. cfg.addresses \in Seq(Streams) /\ DOMAIN cfg.addresses = 1..Len(cfg.addresses)
  BY AddressList DEF IInv
<1> USE DEF IInv, made, channel, GroupsCreated, Goes, At
<1>1. TypeOK'
  BY BoundAssumption DEF TypeOK, Pcs, Results
<1>2. Phases'
  BY DEF Phases, Streaming, TypeOK
<1>3. GroupsMade'
  BY <1>0 DEF GroupsMade, Phases, Streaming, Listed, TypeOK
<1>4. ReadyMeansGroups'
  BY DEF ReadyMeansGroups, GroupsMade, Phases, Streaming, Listed, TypeOK
<1>5. NoReclaimerLeft'
  BY DEF NoReclaimerLeft, TypeOK
<1>6. RunSaysWhy'
  BY DEF RunSaysWhy, Phases, Streaming, TypeOK
<1>7. OneCloser'
  BY DEF OneCloser, Alone, TypeOK
<1>8. QED
  BY <1>1, <1>2, <1>3, <1>4, <1>5, <1>6, <1>7

\* PSUBSCRIBE is sent, or its error kept.
LEMMA PSubscribeKeeps ==
  ASSUME IInv, NEW r \in Runners, PSubscribe(r)
  PROVE  IInv'
<1>0. cfg.addresses \in Seq(Streams) /\ DOMAIN cfg.addresses = 1..Len(cfg.addresses)
  BY AddressList DEF IInv
<1> USE DEF IInv, made, channel, PSubscribe, Goes, At, Works, Fails, Fault
<1>1. TypeOK'
  BY BoundAssumption DEF TypeOK, Pcs, Results
<1>2. Phases'
  BY DEF Phases, Streaming, TypeOK
<1>3. GroupsMade'
  BY <1>0 DEF GroupsMade, Phases, Streaming, Listed, TypeOK
<1>4. ReadyMeansGroups'
  BY DEF ReadyMeansGroups, GroupsMade, Phases, Streaming, Listed, TypeOK
<1>5. NoReclaimerLeft'
  BY DEF NoReclaimerLeft, TypeOK
<1>6. RunSaysWhy'
  BY DEF RunSaysWhy, Phases, Streaming, TypeOK
<1>7. OneCloser'
  BY DEF OneCloser, Alone, TypeOK
<1>8. QED
  BY <1>1, <1>2, <1>3, <1>4, <1>5, <1>6, <1>7

\* Receive goes on to markReady or ends Run.
LEMMA ReceiveKeeps ==
  ASSUME IInv, NEW r \in Runners, Receive(r)
  PROVE  IInv'
<1>0. cfg.addresses \in Seq(Streams) /\ DOMAIN cfg.addresses = 1..Len(cfg.addresses)
  BY AddressList DEF IInv
<1>1. /\ runner[r].pc = "receive" /\ runner' \in [Runners -> [pc : Pcs, todo : Nat \ {0}, result : Results]]
      /\ \A q \in Runners \ {r} : runner'[q] = runner[q]
      /\ \/ runner'[r].pc = "ready" /\ runner'[r].result = "none"
         \/ runner'[r].pc = "idle" /\ runner'[r].result = "error"
  <2>1. CASE Goes(r, "ready", 1, "none")
    BY <2>1, Moves DEF IInv, Pcs, Results, Receive
  <2>2. CASE Goes(r, "idle", 1, "error")
    BY <2>2, Moves DEF IInv, Pcs, Results, Receive
  <2>3. QED
    BY <2>1, <2>2 DEF Receive
<1>2. subscribed' \subseteq Runners /\ faults' \in 0..MaxFaults
  BY BoundAssumption DEF IInv, TypeOK, Receive, Fault
<1>3. UNCHANGED <<consumer, cfg, client, ready, panicked, cancelled, reclaimer, groups, runs>>
  BY DEF Receive, made, channel
<1> USE DEF IInv
<1>4. TypeOK'
  BY <1>1, <1>2, <1>3 DEF TypeOK
<1>5. Phases'
  BY <1>1, <1>2, <1>3 DEF Phases, Streaming, TypeOK, At
<1>6. GroupsMade'
  BY <1>1, <1>2, <1>3, <1>0 DEF GroupsMade, Phases, Streaming, Listed, TypeOK
<1>7. ReadyMeansGroups'
  BY <1>1, <1>2, <1>3 DEF ReadyMeansGroups, GroupsMade, Phases, Streaming, Listed, TypeOK
<1>8. NoReclaimerLeft'
  BY <1>1, <1>2, <1>3 DEF NoReclaimerLeft, TypeOK
<1>9. RunSaysWhy'
  BY <1>1, <1>2, <1>3 DEF RunSaysWhy, Phases, Streaming, TypeOK
<1>10. OneCloser'
  BY <1>1, <1>2, <1>3 DEF OneCloser, Alone, TypeOK
<1>11. QED
  BY <1>4, <1>5, <1>6, <1>7, <1>8, <1>9, <1>10

\* markReady leaves a closed channel alone.
LEMMA MarkReadyLooksKeeps ==
  ASSUME IInv, NEW r \in Runners, MarkReadyLooks(r)
  PROVE  IInv'
<1>0. cfg.addresses \in Seq(Streams) /\ DOMAIN cfg.addresses = 1..Len(cfg.addresses)
  BY AddressList DEF IInv
<1> USE DEF IInv, made, channel, MarkReadyLooks, StartsLoops, Goes, At
<1>1. TypeOK'
  BY BoundAssumption DEF TypeOK, Pcs, Results
<1>2. Phases'
  BY DEF Phases, Streaming, TypeOK
<1>3. GroupsMade'
  <2>1. \A q \in Runners :
          /\ runner'[q].pc = "create" => runner'[q] = runner[q]
          /\ runner'[q].pc \in {"ready", "close"} => runner[q].pc \in {"ready", "close"}
    BY DEF TypeOK
  <2>2. cfg' = cfg /\ groups' = groups
    OBVIOUS
  <2>3. QED
    BY <2>1, <2>2 DEF GroupsMade, Streaming, Listed
<1>4. ReadyMeansGroups'
  BY DEF ReadyMeansGroups, GroupsMade, Phases, Streaming, Listed, TypeOK
<1>5. NoReclaimerLeft'
  BY DEF NoReclaimerLeft, TypeOK
<1>6. RunSaysWhy'
  BY DEF RunSaysWhy, Phases, Streaming, TypeOK
<1>7. OneCloser'
  BY DEF OneCloser, Alone, TypeOK
<1>8. QED
  BY <1>1, <1>2, <1>3, <1>4, <1>5, <1>6, <1>7

\* markReady closes the channel once the groups exist.
LEMMA MarkReadyClosesKeeps ==
  ASSUME IInv, NEW r \in Runners, MarkReadyCloses(r)
  PROVE  IInv'
<1>0. cfg.addresses \in Seq(Streams) /\ DOMAIN cfg.addresses = 1..Len(cfg.addresses)
  BY AddressList DEF IInv
<1> USE DEF IInv, made, channel, MarkReadyCloses, StartsLoops, Goes, At
<1>1. TypeOK'
  BY BoundAssumption DEF TypeOK, Pcs, Results
<1>2. Phases'
  BY DEF Phases, Streaming, TypeOK
<1>3. GroupsMade'
  BY <1>0 DEF GroupsMade, Phases, Streaming, Listed, TypeOK
<1>4. ReadyMeansGroups'
  BY DEF ReadyMeansGroups, GroupsMade, Phases, Streaming, Listed, TypeOK
<1>5. NoReclaimerLeft'
  BY DEF NoReclaimerLeft, TypeOK
<1>6. RunSaysWhy'
  BY DEF RunSaysWhy, Phases, Streaming, TypeOK
<1>7. OneCloser'
  BY DEF OneCloser, Alone, TypeOK
<1>8. QED
  BY <1>1, <1>2, <1>3, <1>4, <1>5, <1>6, <1>7

\* The read loop looks at its context.
LEMMA ReadLoopTopKeeps ==
  ASSUME IInv, NEW r \in Runners, ReadLoopTop(r)
  PROVE  IInv'
<1>0. cfg.addresses \in Seq(Streams) /\ DOMAIN cfg.addresses = 1..Len(cfg.addresses)
  BY AddressList DEF IInv
<1> USE DEF IInv, made, channel, ReadLoopTop, Goes, At
<1>1. TypeOK'
  BY BoundAssumption DEF TypeOK, Pcs, Results
<1>2. Phases'
  BY DEF Phases, Streaming, TypeOK
<1>3. GroupsMade'
  <2>1. \A q \in Runners :
          /\ runner'[q].pc = "create" => runner'[q] = runner[q]
          /\ runner'[q].pc \in {"ready", "close"} => runner[q].pc \in {"ready", "close"}
    BY DEF TypeOK
  <2>2. cfg' = cfg /\ groups' = groups
    OBVIOUS
  <2>3. QED
    BY <2>1, <2>2 DEF GroupsMade, Streaming, Listed
<1>4. ReadyMeansGroups'
  BY DEF ReadyMeansGroups, GroupsMade, Phases, Streaming, Listed, TypeOK
<1>5. NoReclaimerLeft'
  BY DEF NoReclaimerLeft, TypeOK
<1>6. RunSaysWhy'
  BY DEF RunSaysWhy, Phases, Streaming, TypeOK
<1>7. OneCloser'
  BY DEF OneCloser, Alone, TypeOK
<1>8. QED
  BY <1>1, <1>2, <1>3, <1>4, <1>5, <1>6, <1>7

\* One XREADGROUP: round the loop, or out of it with an error.
LEMMA ReadGroupKeeps ==
  ASSUME IInv, NEW r \in Runners, ReadGroup(r)
  PROVE  IInv'
<1>0. cfg.addresses \in Seq(Streams) /\ DOMAIN cfg.addresses = 1..Len(cfg.addresses)
  BY AddressList DEF IInv
<1>1. /\ runner[r].pc = "read" /\ runner' \in [Runners -> [pc : Pcs, todo : Nat \ {0}, result : Results]]
      /\ \A q \in Runners \ {r} : runner'[q] = runner[q]
      /\ \/ runner'[r].pc = "top" /\ runner'[r].result = "none"
         \/ runner'[r].pc = "wait" /\ runner'[r].result = "error"
  <2>1. CASE Goes(r, "top", 1, "none")
    BY <2>1, Moves DEF IInv, Pcs, Results, ReadGroup
  <2>2. CASE Goes(r, "wait", 1, "error")
    BY <2>2, Moves DEF IInv, Pcs, Results, ReadGroup
  <2>3. QED
    BY <2>1, <2>2 DEF ReadGroup
<1>2. faults' \in 0..MaxFaults
  BY BoundAssumption DEF IInv, TypeOK, ReadGroup, Fails, Fault
<1>3. UNCHANGED <<consumer, cfg, client, ready, panicked, cancelled, reclaimer, groups, subscribed, runs>>
  BY DEF ReadGroup, made, channel
<1> USE DEF IInv
<1>4. TypeOK'
  BY <1>1, <1>2, <1>3 DEF TypeOK
<1>5. Phases'
  BY <1>1, <1>2, <1>3 DEF Phases, Streaming, TypeOK, At
<1>6. GroupsMade'
  BY <1>1, <1>2, <1>3, <1>0 DEF GroupsMade, Phases, Streaming, Listed, TypeOK
<1>7. ReadyMeansGroups'
  BY <1>1, <1>2, <1>3 DEF ReadyMeansGroups, GroupsMade, Phases, Streaming, Listed, TypeOK
<1>8. NoReclaimerLeft'
  BY <1>1, <1>2, <1>3 DEF NoReclaimerLeft, TypeOK
<1>9. RunSaysWhy'
  BY <1>1, <1>2, <1>3 DEF RunSaysWhy, Phases, Streaming, TypeOK
<1>10. OneCloser'
  BY <1>1, <1>2, <1>3 DEF OneCloser, Alone, TypeOK
<1>11. QED
  BY <1>4, <1>5, <1>6, <1>7, <1>8, <1>9, <1>10

\* Run returns when the reclaimer has ended.
LEMMA ReturnKeeps ==
  ASSUME IInv, NEW r \in Runners, Return(r)
  PROVE  IInv'
<1>0. cfg.addresses \in Seq(Streams) /\ DOMAIN cfg.addresses = 1..Len(cfg.addresses)
  BY AddressList DEF IInv
<1> USE DEF IInv, made, channel, Return, Goes, At
<1>1. TypeOK'
  BY BoundAssumption DEF TypeOK, Pcs, Results
<1>2. Phases'
  BY DEF Phases, Streaming, TypeOK
<1>3. GroupsMade'
  BY <1>0 DEF GroupsMade, Phases, Streaming, Listed, TypeOK
<1>4. ReadyMeansGroups'
  BY DEF ReadyMeansGroups, GroupsMade, Phases, Streaming, Listed, TypeOK
<1>5. NoReclaimerLeft'
  BY DEF NoReclaimerLeft, TypeOK
<1>6. RunSaysWhy'
  BY DEF RunSaysWhy, Phases, Streaming, TypeOK
<1>7. OneCloser'
  BY DEF OneCloser, Alone, TypeOK
<1>8. QED
  BY <1>1, <1>2, <1>3, <1>4, <1>5, <1>6, <1>7

\* The select of runPubSub ends.
LEMMA ConsumeEndsKeeps ==
  ASSUME IInv, NEW r \in Runners, ConsumeEnds(r)
  PROVE  IInv'
<1>0. cfg.addresses \in Seq(Streams) /\ DOMAIN cfg.addresses = 1..Len(cfg.addresses)
  BY AddressList DEF IInv
<1> USE DEF IInv, made, channel, ConsumeEnds, Goes, At
<1>1. TypeOK'
  BY BoundAssumption DEF TypeOK, Pcs, Results
<1>2. Phases'
  BY DEF Phases, Streaming, TypeOK
<1>3. GroupsMade'
  BY <1>0 DEF GroupsMade, Phases, Streaming, Listed, TypeOK
<1>4. ReadyMeansGroups'
  BY DEF ReadyMeansGroups, GroupsMade, Phases, Streaming, Listed, TypeOK
<1>5. NoReclaimerLeft'
  BY DEF NoReclaimerLeft, TypeOK
<1>6. RunSaysWhy'
  BY DEF RunSaysWhy, Phases, Streaming, TypeOK
<1>7. OneCloser'
  BY DEF OneCloser, Alone, TypeOK
<1>8. QED
  BY <1>1, <1>2, <1>3, <1>4, <1>5, <1>6, <1>7

\* The reclaimer sees the cancelled context.
LEMMA ReclaimerStopsKeeps ==
  ASSUME IInv, NEW r \in Runners, ReclaimerStops(r)
  PROVE  IInv'
<1>0. cfg.addresses \in Seq(Streams) /\ DOMAIN cfg.addresses = 1..Len(cfg.addresses)
  BY AddressList DEF IInv
<1> USE DEF IInv, made, channel, ReclaimerStops
<1>1. TypeOK'
  BY BoundAssumption DEF TypeOK, Pcs, Results
<1>2. Phases'
  BY DEF Phases, Streaming, TypeOK
<1>3. GroupsMade'
  BY <1>0 DEF GroupsMade, Phases, Streaming, Listed, TypeOK
<1>4. ReadyMeansGroups'
  BY DEF ReadyMeansGroups, GroupsMade, Phases, Streaming, Listed, TypeOK
<1>5. NoReclaimerLeft'
  BY DEF NoReclaimerLeft, TypeOK
<1>6. RunSaysWhy'
  BY DEF RunSaysWhy, Phases, Streaming, TypeOK
<1>7. OneCloser'
  BY DEF OneCloser, Alone, TypeOK
<1>8. QED
  BY <1>1, <1>2, <1>3, <1>4, <1>5, <1>6, <1>7

\* NewConsumer fixes the mode before anything runs.
LEMMA NewConsumerKeeps ==
  ASSUME IInv, NewConsumer
  PROVE  IInv'
<1>1. /\ consumer = "none" /\ ~ready /\ ~panicked
      /\ \A r \in Runners : runner[r].pc = "idle" /\ runner[r].result = "none"
  BY DEF IInv, Phases, NewConsumer, At
<1>2. UNCHANGED <<client, ready, panicked, runner, cancelled, reclaimer, groups, subscribed, runs, faults>>
  BY DEF NewConsumer, channel
<1>3. /\ cfg' \in Configs
      /\ \/ consumer' = "made" /\ cfg'.mode \in {"streams", "pubsub"}
         \/ consumer' = "rejected" /\ cfg' = cfg
  <2>1. CASE ConsumerAccepts(cfg)
    <3>1. cfg' = [cfg EXCEPT !.mode = parseMode(cfg.mode)] /\ cfg \in Configs
      BY <2>1 DEF NewConsumer, IInv, TypeOK
    <3>2. parseMode(cfg.mode) \in {"streams", "pubsub"}
      BY <2>1 DEF ConsumerAccepts, KnownModes, parseMode
    <3>3. QED
      BY <2>1, <3>1, <3>2 DEF Configs, NewConsumer
  <2>2. CASE ~ConsumerAccepts(cfg)
    BY <2>2 DEF NewConsumer, IInv, TypeOK
  <2>3. QED
    BY <2>1, <2>2
<1> USE DEF IInv
<1>4. TypeOK'
  BY <1>2, <1>3 DEF TypeOK
<1>5. Phases'
  BY <1>1, <1>2, <1>3 DEF Phases, Streaming, IInv
<1>6. GroupsMade' /\ ReadyMeansGroups' /\ OneCloser'
  BY <1>1, <1>2 DEF GroupsMade, ReadyMeansGroups, OneCloser, Alone
<1>7. NoReclaimerLeft'
  BY <1>2 DEF NoReclaimerLeft
<1>8. RunSaysWhy'
  BY <1>1, <1>2 DEF RunSaysWhy, Phases
<1>9. QED
  BY <1>4, <1>5, <1>6, <1>7, <1>8

\* Close changes the client and its subscriptions, which no goroutine's
\* obligations rest on.
LEMMA CloseKeeps ==
  ASSUME IInv, Close
  PROVE  IInv'
<1>1. UNCHANGED <<consumer, cfg, ready, panicked, runner, cancelled, reclaimer, groups, runs, faults>>
  BY DEF Close, made, channel
<1>2. client' = "closed" /\ subscribed' = {}
  BY DEF Close
<1> USE DEF IInv
<1>3. TypeOK'
  BY <1>1, <1>2 DEF TypeOK
<1>4. Phases' /\ GroupsMade' /\ ReadyMeansGroups' /\ NoReclaimerLeft' /\ OneCloser'
  BY <1>1 DEF Phases, GroupsMade, ReadyMeansGroups, NoReclaimerLeft, OneCloser, Alone, Streaming, Listed
<1>5. RunSaysWhy'
  BY <1>1, <1>2 DEF RunSaysWhy
<1>6. QED
  BY <1>3, <1>4, <1>5

-----------------------------------------------------------------------------
\* Before NewConsumer nothing runs and nothing is ready.
LEMMA InitIInv == Init => IInv
<1> SUFFICES ASSUME Init PROVE IInv
  OBVIOUS
<1>1. TypeOK
  <2>1. runner \in [Runners -> [pc : Pcs, todo : Nat \ {0}, result : Results]]
    BY DEF Init, At, Pcs, Results
  <2>2. runs \in 0..MaxRuns /\ faults \in 0..MaxFaults
    BY BoundAssumption DEF Init
  <2>3. QED
    BY <2>1, <2>2 DEF Init, TypeOK
<1>2. Phases /\ GroupsMade /\ NoReclaimerLeft /\ RunSaysWhy /\ OneCloser
  BY DEF Init, At, Phases, GroupsMade, NoReclaimerLeft, RunSaysWhy, OneCloser
<1>3. ReadyMeansGroups
  BY DEF Init, ReadyMeansGroups
<1>4. QED
  BY <1>1, <1>2, <1>3 DEF IInv

\* Every action keeps the invariant.
LEMMA NextKeeps == IInv /\ [Next]_vars => IInv'
<1> SUFFICES ASSUME IInv, [Next]_vars PROVE IInv'
  OBVIOUS
<1>1. CASE NewConsumer
  BY <1>1, NewConsumerKeeps
<1>2. CASE Close
  BY <1>2, CloseKeeps
<1>3. ASSUME NEW r \in Runners, Run(r) \/ Cancel(r) PROVE IInv'
  BY <1>3, RunKeeps, CancelKeeps
<1>4. ASSUME NEW r \in Runners, RunnerStep(r) PROVE IInv'
  <2>1. CASE CreateGroup(r) \/ GroupsCreated(r)
    BY <2>1, CreateGroupKeeps, GroupsCreatedKeeps
  <2>2. CASE PSubscribe(r) \/ Receive(r)
    BY <2>2, PSubscribeKeeps, ReceiveKeeps
  <2>3. CASE MarkReadyLooks(r) \/ MarkReadyCloses(r)
    BY <2>3, MarkReadyLooksKeeps, MarkReadyClosesKeeps
  <2>4. CASE ReadLoopTop(r) \/ ReadGroup(r)
    BY <2>4, ReadLoopTopKeeps, ReadGroupKeeps
  <2>5. CASE Return(r) \/ ConsumeEnds(r)
    BY <2>5, ReturnKeeps, ConsumeEndsKeeps
  <2>6. QED
    BY <1>4, <2>1, <2>2, <2>3, <2>4, <2>5 DEF RunnerStep
<1>5. ASSUME NEW r \in Runners, ReclaimerStep(r) PROVE IInv'
  BY <1>5, ReclaimerStopsKeeps DEF ReclaimerStep
<1>6. CASE UNCHANGED vars
  BY <1>6 DEF vars, IInv, TypeOK, Phases, GroupsMade, ReadyMeansGroups, NoReclaimerLeft,
    RunSaysWhy, OneCloser, Alone, Streaming, Listed
<1>7. QED
  BY <1>1, <1>2, <1>3, <1>4, <1>5, <1>6 DEF Next

\* The invariant holds in every reachable state, whatever the configuration,
\* the number of goroutines in Run and the commands that fail.
THEOREM Invariance == Spec => []IInv
<1>1. Init => IInv
  BY InitIInv
<1>2. IInv /\ [Next]_vars => IInv'
  BY NextKeeps
<1>3. QED
  BY <1>1, <1>2, PTL DEF Spec

\* When the Ready channel is closed, every address of a streams
\* configuration has its group (redis.go: ensureGroup before markReady).
THEOREM ReadyIsHonest == Spec => []ReadyMeansGroups
<1>1. IInv => ReadyMeansGroups
  BY DEF IInv
<1>2. QED
  BY <1>1, Invariance, PTL

\* runStreams returns only after wg.Wait: no reclaimer outlives its Run.
THEOREM NothingLeftBehind == Spec => []NoReclaimerLeft
<1>1. IInv => NoReclaimerLeft
  BY DEF IInv
<1>2. QED
  BY <1>1, Invariance, PTL

\* Run returns ctx.Err() only when its context is cancelled, and nil only in
\* pubsub mode after Close.
THEOREM ReasonsAreTrue == Spec => []RunSaysWhy
<1>1. IInv => RunSaysWhy
  BY DEF IInv
<1>2. QED
  BY <1>1, Invariance, PTL

\* With a single goroutine calling Run, markReady closes the channel at most
\* once, however often Run is called again.
THEOREM NeverClosedTwice == Alone /\ Spec => []ReadyClosedOnce
<1>1. Alone /\ IInv => ReadyClosedOnce
  BY DEF IInv, OneCloser, ReadyClosedOnce
<1>2. Alone => []Alone
  <2>1. Alone => Alone'
    BY DEF Alone
  <2>2. QED
    BY <2>1, PTL
<1>3. QED
  BY <1>1, <1>2, Invariance, PTL

=============================================================================
