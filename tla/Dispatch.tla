-------------------------------- MODULE Dispatch --------------------------------
(***************************************************************************)
(* The generated Subscriber.Dispatch: one raw message goes through the     *)
(* middleware chain, is routed to a receive operation, decoded, validated, *)
(* handed to the typed handler and acknowledged.                           *)
(*                                                                         *)
(* A receive operation is its channel's address (Parameterized when the    *)
(* address has parameters) and its message shapes in sorted order.  A raw  *)
(* message is its topic and the set of shapes it decodes and validates as. *)
(***************************************************************************)
EXTENDS Integers, Sequences

CONSTANTS
  Topics,        \* topics messages come from
  Parameterized, \* stands for an address with parameters
  ShapeLists,    \* the message lists an operation may have, in sorted order
  MaxOperations, \* bound: receive operations
  MaxMiddleware  \* bound: middlewares of the chain

ASSUME ListAssumption ==
  /\ Parameterized \notin Topics
  /\ \A list \in ShapeLists : list # <<>>
ASSUME BoundAssumption == MaxOperations \in Nat /\ MaxMiddleware \in Nat

VARIABLES
  ops,     \* the receive operations, in the order of the generated code
  chain,   \* the middlewares given to NewSubscriber
  raw,     \* the message
  pc,      \* where Dispatch is
  depth,   \* the middleware it is in
  at,      \* the operation it is trying
  trial,   \* in the default case of the switch, trying one after the other
  err,     \* what the innermost finished call returned
  calls,   \* handler calls: operation, message shape, outcome
  acks,    \* successful Acks
  entered, left  \* middlewares entered and left, in order

setting == <<ops, chain, raw>>
route == <<at, trial>>
trace == <<entered, left>>
vars == <<setting, pc, depth, route, err, calls, acks, trace>>

\* All elements of a sequence.
Elements(s) == {s[k] : k \in DOMAIN s}
Shapes == UNION {Elements(list) : list \in ShapeLists}
ListsUpTo(n, S) == UNION {[1..k -> S] : k \in 0..n}
IsLeast(k, S) == k \in S /\ \A j \in S : k <= j

Operations == [address : Topics \cup {Parameterized}, messages : ShapeLists]
Raws == [topic : Topics, fits : SUBSET Shapes]
\* A middleware passes the call on, also hides its error, or answers itself
\* with an error; WithMiddleware may also be given nil.
Kinds == {"pass", "swallow", "stop", "nil"}
Errors == {"nil", "middleware", "decode", "skip", "handler", "notDispatched", "ack"}
Outcomes == {"nil", "handler", "notDispatched"}

Init ==
  /\ ops \in ListsUpTo(MaxOperations, Operations)
  /\ chain \in ListsUpTo(MaxMiddleware, Kinds)
  /\ raw \in Raws
  /\ pc = "enter" /\ depth = 1 /\ at = 0 /\ trial = FALSE /\ err = "nil"
  /\ calls = <<>> /\ acks = 0 /\ entered = <<>> /\ left = <<>>

-----------------------------------------------------------------------------
(* broker.Chain: the first middleware is the outermost, nil ones are left  *)
(* out.                                                                    *)

EnterMiddleware ==
  /\ pc = "enter" /\ depth <= Len(chain)
  /\ entered' = IF chain[depth] = "nil" THEN entered ELSE Append(entered, depth)
  /\ IF chain[depth] = "stop" THEN pc' = "leave" /\ err' = "middleware" /\ UNCHANGED depth
     ELSE depth' = depth + 1 /\ UNCHANGED <<pc, err>>
  /\ UNCHANGED <<setting, route, calls, acks, left>>

LeaveMiddleware ==
  /\ pc = "leave" /\ depth > 0
  /\ depth' = depth - 1
  /\ IF depth > Len(chain) \/ chain[depth] = "nil" THEN UNCHANGED left
     ELSE left' = Append(left, depth)
  /\ err' = IF depth <= Len(chain) /\ chain[depth] = "swallow" THEN "nil" ELSE err
  /\ UNCHANGED <<setting, pc, route, calls, acks, entered>>

Done ==
  /\ pc = "leave" /\ depth = 0
  /\ pc' = "done"
  /\ UNCHANGED <<setting, depth, route, err, calls, acks, trace>>

-----------------------------------------------------------------------------
(* dispatchMessage: a switch over the static addresses, and a default that *)
(* tries every operation.                                                  *)

StaticCases == {k \in DOMAIN ops : ops[k].address = raw.topic}

Route ==
  /\ pc = "enter" /\ depth > Len(chain)
  /\ \/ /\ \E k \in StaticCases : IsLeast(k, StaticCases) /\ at' = k
        /\ trial' = FALSE /\ pc' = "decode" /\ UNCHANGED err
     \/ /\ StaticCases = {} /\ ops # <<>>
        /\ at' = 1 /\ trial' = TRUE /\ pc' = "decode" /\ UNCHANGED err
     \/ /\ ops = <<>>
        /\ pc' = "leave" /\ err' = "notDispatched" /\ UNCHANGED route
  /\ UNCHANGED <<setting, depth, calls, acks, trace>>

ReturnsOnSuccess(e) ==  \* mutant: the default case goes on after every error
  IF trial /\ e # "nil"
  THEN /\ IF at < Len(ops) THEN at' = at + 1 /\ pc' = "decode" /\ UNCHANGED err
          ELSE pc' = "leave" /\ err' = "notDispatched" /\ UNCHANGED at
       /\ UNCHANGED trial
  ELSE pc' = "leave" /\ err' = e /\ UNCHANGED route

\* What dispatch<Op> returned: the default case goes on after a skip only.
Returns(e) ==
  IF trial /\ e = "skip"
  THEN /\ IF at < Len(ops) THEN at' = at + 1 /\ pc' = "decode" /\ UNCHANGED err
          ELSE pc' = "leave" /\ err' = "notDispatched" /\ UNCHANGED at
       /\ UNCHANGED trial
  ELSE pc' = "leave" /\ err' = e /\ UNCHANGED route

-----------------------------------------------------------------------------
(* dispatch<Op>                                                            *)

Single(op) == Len(op.messages) = 1
Fitting(op) == {k \in DOMAIN op.messages : op.messages[k] \in raw.fits}

DecodeFailsHard ==  \* mutant: several messages fail like one
  /\ pc = "decode" /\ Fitting(ops[at]) = {}
  /\ Returns("decode")
  /\ UNCHANGED <<setting, depth, calls, acks, trace>>

\* decode<Op>Message: one message fails with its decode or validation error,
\* of several the first one that fits is taken.
DecodeFails ==
  /\ pc = "decode" /\ Fitting(ops[at]) = {}
  /\ Returns(IF Single(ops[at]) THEN "decode" ELSE "skip")
  /\ UNCHANGED <<setting, depth, calls, acks, trace>>

Decode ==
  /\ pc = "decode" /\ Fitting(ops[at]) # {}
  /\ pc' = "handler"
  /\ UNCHANGED <<setting, depth, route, err, calls, acks, trace>>

\* The typed handler is called and returns: nil, an error, or an error that
\* wraps a NotDispatchedError, which a multi-message operation takes for "not
\* mine".
Called(outcome) ==
  \E k \in Fitting(ops[at]) :
    /\ IsLeast(k, Fitting(ops[at]))
    /\ calls' = Append(calls, [op |-> at, shape |-> ops[at].messages[k], outcome |-> outcome])

HandlerSucceeds ==
  /\ pc = "handler"
  /\ Called("nil")
  /\ pc' = "ack"
  /\ UNCHANGED <<setting, depth, route, err, acks, trace>>

HandlerFailsAcked ==  \* mutant: the handler's error does not return
  /\ pc = "handler"
  /\ \E outcome \in Outcomes \ {"nil"} : Called(outcome)
  /\ pc' = "ack"
  /\ UNCHANGED <<setting, depth, route, err, acks, trace>>

HandlerFails ==
  /\ pc = "handler"
  /\ \E outcome \in Outcomes \ {"nil"} :
       /\ Called(outcome)
       /\ Returns(IF outcome = "notDispatched" /\ ~Single(ops[at]) THEN "skip" ELSE outcome)
  /\ UNCHANGED <<setting, depth, acks, trace>>

\* raw.Ack(), whose error Dispatch returns.
Ack ==
  /\ pc = "ack"
  /\ \/ acks' = acks + 1 /\ Returns("nil")
     \/ UNCHANGED acks /\ Returns("ack")
  /\ UNCHANGED <<setting, depth, calls, trace>>

-----------------------------------------------------------------------------
Next ==
  \/ EnterMiddleware \/ LeaveMiddleware \/ Done
  \/ Route \/ DecodeFails \/ Decode \/ HandlerSucceeds \/ HandlerFails \/ Ack

Spec == Init /\ [][Next]_vars

-----------------------------------------------------------------------------
(* Properties                                                              *)

TypeOK ==
  /\ pc \in {"enter", "decode", "handler", "ack", "leave", "done"}
  /\ depth \in 0..MaxMiddleware + 1 /\ at \in 0..Len(ops) /\ trial \in BOOLEAN
  /\ err \in Errors /\ acks \in 0..1
  /\ calls \in Seq([op : DOMAIN ops, shape : Shapes, outcome : Outcomes])
  /\ {entered, left} \subseteq Seq(DOMAIN chain)

Succeeded == {k \in DOMAIN calls : calls[k].outcome = "nil"}

\* A message is acknowledged only after its handler returned nil, and no other
\* handler sees it afterwards: the promise the consumers rely on.
AckFollowsSuccess ==
  acks > 0 => Succeeded = {Len(calls)} /\ Len(calls) > 0

\* Dispatch returns nil only for a message that was handled and acknowledged,
\* unless a middleware hides the error; otherwise the entry is still pending.
NilMeansAcked ==
  pc = "done" /\ err = "nil" /\ "swallow" \notin Elements(chain) => acks = 1

\* The two together are what the consumers and the broker build on: nil, and the entry
\* leaves the pending list after success; an error, and it stays there to be redelivered.
AckedIffHandled == AckFollowsSuccess /\ NilMeansAcked

\* A handler that took a message, successfully or not, is the last one to get
\* it: only "not mine" of a multi-message operation passes it on.
OneHandlerTakesIt ==
  \A k \in DOMAIN calls :
    k < Len(calls) =>
      calls[k].outcome = "notDispatched" /\ ~Single(ops[calls[k].op])

\* The operations a message can reach, read off the operations alone: the
\* first one on its topic, or else, in order, up to the first that must answer.
Passes(k) == ~Single(ops[k])
Reaches(k) ==
  IF StaticCases # {} THEN IsLeast(k, StaticCases)
  ELSE \A j \in 1..k-1 : Passes(j)
MayCall == {k \in DOMAIN ops : Reaches(k) /\ Fitting(ops[k]) # {}}

\* "The first middleware is the outermost" (subscriber.tmpl:15): they are
\* entered from the first to the last, and left the other way round.
MiddlewareNests ==
  /\ \A j, k \in DOMAIN entered : j < k => entered[j] < entered[k]
  /\ \A j \in DOMAIN left : left[j] = entered[Len(entered) + 1 - j]
  /\ pc = "done" => Len(left) = Len(entered)

\* Handlers are called for messages that reach them, in order, each at most
\* once, with the first of their shapes the message fits; and a message no
\* handler saw, although one could have had it, was held back by a middleware.  All
\* this happens inside the middlewares, properly nested.
CallsAsDeclared ==
  /\ \A k \in DOMAIN calls :
       /\ calls[k].op \in MayCall
       /\ \E i \in DOMAIN ops[calls[k].op].messages :
            /\ IsLeast(i, Fitting(ops[calls[k].op]))
            /\ calls[k].shape = ops[calls[k].op].messages[i]
  /\ \A j, k \in DOMAIN calls : j < k => calls[j].op < calls[k].op
  /\ pc = "done" /\ "stop" \notin Elements(chain) /\ MayCall # {} => calls # <<>>
  /\ MiddlewareNests

\* errSkipOperation is internal to the trial (subscriber.tmpl:90): trying all
\* operations ends in an answer of one of them or in a NotDispatchedError.
TrialIsDecided == pc = "done" /\ trial => err # "skip"

(* What a comment of the generated code says, and the code does not do.    *)

\* "The raw topic is matched against static channel addresses first"
\* (subscriber.tmpl:34): a single-message operation on a static channel gets
\* messages from its own address.
StaticGetsItsAddress ==
  \A k \in DOMAIN calls :
    LET op == ops[calls[k].op]
    IN  Single(op) /\ op.address # Parameterized => op.address = raw.topic

=============================================================================
