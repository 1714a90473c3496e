------------------------------ MODULE DispatchProofs ------------------------------
(***************************************************************************)
(* Theorems about Dispatch, for any operations, any chain of middlewares   *)
(* and any message.                                                        *)
(***************************************************************************)
EXTENDS Dispatch, SequenceTheorems, TLAPS

\* What was given to the subscriber does not change; TypeOK rests on it.
Types ==
  /\ TypeOK
  /\ ops \in Seq(Operations) /\ chain \in Seq(Kinds) /\ Len(chain) <= MaxMiddleware

\* No handler has taken the message.
Untaken ==
  \A k \in DOMAIN calls : calls[k].outcome = "notDispatched" /\ ~Single(ops[calls[k].op])

\* What holds between the steps of Dispatch: nothing was called while entering
\* the chain; while operations are tried nobody has taken the message; at Ack
\* the last call succeeded and no other; a nil on the way out was earned.
Stages ==
  /\ pc = "enter" => calls = <<>> /\ depth > 0
  /\ pc \in {"enter", "decode", "handler"} => Untaken /\ acks = 0
  /\ pc \in {"decode", "handler", "ack"} => at \in 1..Len(ops)
  /\ pc \in {"enter", "decode", "handler", "ack"} => err = "nil"
  /\ pc = "ack" => acks = 0 /\ Len(calls) > 0 /\ Succeeded = {Len(calls)}
  /\ pc \in {"leave", "done"} /\ err = "nil" /\ "swallow" \notin Elements(chain) => acks = 1
  /\ trial => err # "skip"

IInv == Types /\ Stages /\ AckFollowsSuccess /\ OneHandlerTakesIt

-----------------------------------------------------------------------------
\* The lists of the initial states are sequences of bounded length.
LEMMA Lists ==
  ASSUME NEW S, NEW n \in Nat, NEW s \in ListsUpTo(n, S)
  PROVE  s \in Seq(S) /\ Len(s) \in 0..n
<1>1. PICK k \in 0..n : s \in [1..k -> S]
  BY DEF ListsUpTo
<1>2. QED
  BY <1>1

\* A sequence stays one over the same set.
LEMMA AppendStays ==
  ASSUME NEW S, NEW s \in Seq(S), NEW e \in S
  PROVE  Append(s, e) \in Seq(S)
  BY AppendProperties

\* What follows an operation's answer: the next operation, a
\* NotDispatchedError, or that answer.
LEMMA Answers ==
  ASSUME Types, at \in 1..Len(ops), NEW e \in Errors, Returns(e)
  PROVE  /\ trial' = trial /\ at' \in 1..Len(ops)
         /\ \/ e = "skip" /\ pc' = "decode" /\ err' = err
            \/ e = "skip" /\ pc' = "leave" /\ err' = "notDispatched"
            \/ pc' = "leave" /\ err' = e /\ (trial => e # "skip")
<1>1. Len(ops) \in Nat /\ at \in Int
  BY DEF Types
<1>2. QED
  BY <1>1 DEF Returns, route

\* A call appended to the calls so far.
LEMMA OneMoreCall ==
  ASSUME Types, at \in 1..Len(ops), NEW outcome \in Outcomes, Called(outcome), ops' = ops
  PROVE  \E c \in [op : DOMAIN ops, shape : Shapes, outcome : Outcomes] :
           /\ c.op = at /\ c.outcome = outcome
           /\ calls' = Append(calls, c) /\ Len(calls') = Len(calls) + 1
           /\ calls' \in Seq([op : DOMAIN ops, shape : Shapes, outcome : Outcomes])
           /\ DOMAIN calls' = 1..Len(calls) + 1 /\ DOMAIN calls = 1..Len(calls)
           /\ \A k \in DOMAIN calls : calls'[k] = calls[k]
           /\ calls'[Len(calls) + 1] = c
<1> DEFINE C == [op : DOMAIN ops, shape : Shapes, outcome : Outcomes]
<1>1. PICK k \in DOMAIN ops[at].messages :
        calls' = Append(calls, [op |-> at, shape |-> ops[at].messages[k], outcome |-> outcome])
  BY DEF Called, Fitting
<1>2. at \in DOMAIN ops /\ ops[at].messages \in ShapeLists
  <2>1. at \in DOMAIN ops /\ ops[at] \in Operations
    BY DEF Types
  <2>2. QED
    BY <2>1 DEF Operations
<1>3. ops[at].messages[k] \in Shapes
  BY <1>1, <1>2 DEF Shapes, Elements
<1> DEFINE c == [op |-> at, shape |-> ops[at].messages[k], outcome |-> outcome]
<1>4. c \in C /\ c.op = at /\ c.outcome = outcome
  BY <1>2, <1>3
<1>5. calls \in Seq(C) /\ calls' = Append(calls, c)
  BY <1>1 DEF Types, TypeOK
<1> HIDE DEF c, C
<1>6. /\ calls' \in Seq(C) /\ Len(calls') = Len(calls) + 1 /\ Len(calls) \in Nat
      /\ DOMAIN calls' = 1..Len(calls) + 1 /\ DOMAIN calls = 1..Len(calls)
      /\ \A j \in 1..Len(calls) : calls'[j] = calls[j]
      /\ calls'[Len(calls) + 1] = c
  BY <1>4, <1>5
<1>7. QED
  BY <1>4, <1>5, <1>6 DEF C

-----------------------------------------------------------------------------
\* The two steps through the chain of middlewares.
LEMMA MiddlewareKeeps ==
  ASSUME IInv, EnterMiddleware \/ LeaveMiddleware
  PROVE  IInv'
<1> USE DEF IInv
<1>0. /\ Len(chain) \in Nat /\ DOMAIN chain = 1..Len(chain) /\ depth \in Int
      /\ entered \in Seq(DOMAIN chain) /\ left \in Seq(DOMAIN chain)
  <2>1. {entered, left} \subseteq Seq(DOMAIN chain) /\ depth \in 0..MaxMiddleware + 1
    BY DEF Types, TypeOK
  <2>2. entered \in Seq(DOMAIN chain) /\ left \in Seq(DOMAIN chain)
    BY <2>1
  <2>3. Len(chain) \in Nat /\ DOMAIN chain = 1..Len(chain)
    BY DEF Types
  <2>4. QED
    BY <2>1, <2>2, <2>3, BoundAssumption
<1>1. UNCHANGED <<ops, chain, raw, at, trial, calls, acks>>
  BY DEF EnterMiddleware, LeaveMiddleware, setting, route
<1>2. CASE EnterMiddleware
  <2>1. depth \in DOMAIN chain /\ entered' \in Seq(DOMAIN chain) /\ left' = left
    <3>1. /\ pc = "enter" /\ depth <= Len(chain) /\ left' = left
          /\ entered' = entered \/ entered' = Append(entered, depth)
      BY <1>2 DEF EnterMiddleware
    <3>2. pc = "enter" => depth > 0
      BY DEF Stages
    <3>3. depth \in DOMAIN chain
      BY <1>0, <3>1, <3>2
    <3>4. entered' \in Seq(DOMAIN chain)
      BY <1>0, <3>1, <3>3, AppendStays
    <3>5. QED
      BY <3>1, <3>3, <3>4
  <2>2. \/ pc' = "leave" /\ err' = "middleware" /\ depth' = depth
        \/ pc' = pc /\ err' = err /\ depth' = depth + 1
    BY <1>2 DEF EnterMiddleware
  <2>3. Types'
    BY <1>0, <1>1, <2>1, <2>2, BoundAssumption DEF Types, TypeOK, Errors
  <2>4. Stages'
    BY <1>0, <1>1, <1>2, <2>2 DEF Stages, EnterMiddleware, Untaken, Succeeded
  <2>5. AckFollowsSuccess' /\ OneHandlerTakesIt'
    BY <1>1 DEF AckFollowsSuccess, OneHandlerTakesIt, Succeeded
  <2>6. QED
    BY <2>3, <2>4, <2>5
<1>3. CASE LeaveMiddleware
  <2>1. pc = "leave" /\ pc' = "leave" /\ entered' = entered /\ depth > 0 /\ depth' = depth - 1
    BY <1>3 DEF LeaveMiddleware
  <2>2. left' \in Seq(DOMAIN chain)
    <3>1. left' = left \/ (~(depth > Len(chain)) /\ left' = Append(left, depth))
      BY <1>3 DEF LeaveMiddleware
    <3>2. ~(depth > Len(chain)) => depth \in DOMAIN chain
      BY <1>0, <2>1
    <3>3. QED
      BY <1>0, <3>1, <3>2, AppendStays
  <2>3. err' = err \/ (err' = "nil" /\ "swallow" \in Elements(chain))
    <3>1. err' = err \/ (err' = "nil" /\ depth <= Len(chain) /\ chain[depth] = "swallow")
      BY <1>3 DEF LeaveMiddleware
    <3>2. depth <= Len(chain) => depth \in DOMAIN chain
      BY <1>0, <2>1
    <3>3. QED
      BY <3>1, <3>2 DEF Elements
  <2>4. Types'
    BY <1>0, <1>1, <2>1, <2>2, <2>3, BoundAssumption DEF Types, TypeOK, Errors
  <2>5. Stages'
    BY <1>1, <2>1, <2>3 DEF Stages
  <2>6. AckFollowsSuccess' /\ OneHandlerTakesIt'
    BY <1>1 DEF AckFollowsSuccess, OneHandlerTakesIt, Succeeded
  <2>7. QED
    BY <2>4, <2>5, <2>6
<1>4. QED
  BY <1>2, <1>3

\* Routing, a message that fits, and the end of Dispatch call nothing.
LEMMA QuietKeeps ==
  ASSUME IInv, Route \/ Decode \/ Done
  PROVE  IInv'
<1> USE DEF IInv
<1>0. Len(ops) \in Nat /\ DOMAIN ops = 1..Len(ops)
  BY DEF Types
<1>1. UNCHANGED <<ops, chain, raw, depth, calls, acks, entered, left>>
  BY DEF Route, Decode, Done, setting, trace
<1>2. CASE Route
  <2>1. \/ at' \in 1..Len(ops) /\ trial' \in BOOLEAN /\ pc' = "decode" /\ err' = err
        \/ at' = at /\ trial' = trial /\ pc' = "leave" /\ err' = "notDispatched"
    <3>1. CASE ops = <<>>
      BY <1>2, <3>1 DEF Route, route, StaticCases, IsLeast
    <3>2. CASE ops # <<>> /\ StaticCases = {}
      <4>1. Len(ops) > 0
        BY <3>2 DEF Types
      <4>2. at' = 1 /\ trial' = TRUE /\ pc' = "decode" /\ err' = err
        BY <1>2, <3>2 DEF Route
      <4>3. QED
        BY <1>0, <4>1, <4>2
    <3>3. CASE ops # <<>> /\ StaticCases # {}
      BY <1>0, <1>2, <3>3 DEF Route, IsLeast, StaticCases
    <3>4. QED
      BY <3>1, <3>2, <3>3
  <2>2. pc = "enter"
    BY <1>2 DEF Route
  <2>3. Types'
    BY <1>0, <1>1, <2>1 DEF Types, TypeOK, Errors
  <2>4. Stages'
    BY <1>1, <2>1, <2>2 DEF Stages, Untaken
  <2>5. QED
    BY <1>1, <2>3, <2>4 DEF AckFollowsSuccess, OneHandlerTakesIt, Succeeded
<1>3. CASE Decode \/ Done
  <2>1. \/ pc = "decode" /\ pc' = "handler" /\ UNCHANGED <<at, trial, err>>
        \/ pc = "leave" /\ pc' = "done" /\ UNCHANGED <<at, trial, err>>
    BY <1>3 DEF Decode, Done, route
  <2>2. Types'
    BY <1>1, <2>1 DEF Types, TypeOK
  <2>3. Stages'
    BY <1>1, <2>1 DEF Stages, Untaken
  <2>4. QED
    BY <1>1, <2>2, <2>3 DEF AckFollowsSuccess, OneHandlerTakesIt, Succeeded
<1>4. QED
  BY <1>2, <1>3

\* A message that does not decode is no call.
LEMMA DecodeFailsKeeps ==
  ASSUME IInv, DecodeFails
  PROVE  IInv'
<1> USE DEF IInv
<1> DEFINE e == IF Single(ops[at]) THEN "decode" ELSE "skip"
<1>1. pc = "decode" /\ at \in 1..Len(ops) /\ e \in Errors /\ e # "nil" /\ Returns(e)
  BY DEF DecodeFails, Stages, Errors
<1>2. UNCHANGED <<ops, chain, raw, depth, calls, acks, entered, left>>
  BY DEF DecodeFails, setting, trace
<1> HIDE DEF e
<1>3. /\ trial' = trial /\ at' \in 1..Len(ops)
      /\ \/ pc' = "decode" /\ err' = err
         \/ pc' = "leave" /\ err' = "notDispatched"
         \/ pc' = "leave" /\ err' = e /\ (trial => e # "skip")
  BY <1>1, Answers
<1>4. Types'
  BY <1>1, <1>2, <1>3 DEF Types, TypeOK, Errors
<1>5. Stages'
  BY <1>1, <1>2, <1>3 DEF Stages, Untaken
<1>6. QED
  BY <1>2, <1>4, <1>5 DEF AckFollowsSuccess, OneHandlerTakesIt, Succeeded

\* A handler that returned nil leads to Ack.
LEMMA HandlerSucceedsKeeps ==
  ASSUME IInv, HandlerSucceeds
  PROVE  IInv'
<1> USE DEF IInv
<1>1. /\ pc = "handler" /\ at \in 1..Len(ops) /\ Untaken /\ acks = 0 /\ pc' = "ack"
      /\ UNCHANGED <<ops, chain, raw, depth, at, trial, err, acks, entered, left>>
  BY DEF HandlerSucceeds, Stages, setting, route, trace
<1>2. PICK c \in [op : DOMAIN ops, shape : Shapes, outcome : Outcomes] :
           /\ c.outcome = "nil" /\ Len(calls') = Len(calls) + 1
           /\ calls' \in Seq([op : DOMAIN ops, shape : Shapes, outcome : Outcomes])
           /\ DOMAIN calls' = 1..Len(calls) + 1 /\ DOMAIN calls = 1..Len(calls)
           /\ \A k \in DOMAIN calls : calls'[k] = calls[k]
           /\ calls'[Len(calls) + 1] = c
  BY <1>1, OneMoreCall DEF HandlerSucceeds, Outcomes
<1>3. Len(calls) \in Nat
  BY DEF Types, TypeOK
<1>4. Succeeded' = {Len(calls')}
  <2>1. \A k \in 1..Len(calls) : calls'[k].outcome # "nil"
    BY <1>1, <1>2 DEF Untaken
  <2>2. calls'[Len(calls')].outcome = "nil" /\ Len(calls') \in DOMAIN calls'
    BY <1>2, <1>3
  <2>3. \A k \in DOMAIN calls' : calls'[k].outcome = "nil" <=> k = Len(calls')
    BY <1>2, <1>3, <2>1, <2>2
  <2>4. QED
    BY <2>2, <2>3 DEF Succeeded
<1>5. Types'
  BY <1>1, <1>2 DEF Types, TypeOK
<1>6. Stages'
  BY <1>1, <1>2, <1>3, <1>4 DEF Stages
<1>7. AckFollowsSuccess'
  BY <1>1 DEF AckFollowsSuccess
<1>8. OneHandlerTakesIt'
  BY <1>1, <1>2, <1>3 DEF OneHandlerTakesIt, Untaken
<1>9. QED
  BY <1>5, <1>6, <1>7, <1>8

\* A handler that failed takes the message, unless it said "not mine" for an
\* operation with several messages.
LEMMA HandlerFailsKeeps ==
  ASSUME IInv, HandlerFails
  PROVE  IInv'
<1> USE DEF IInv
<1>1. PICK outcome \in Outcomes \ {"nil"} :
        /\ Called(outcome)
        /\ Returns(IF outcome = "notDispatched" /\ ~Single(ops[at]) THEN "skip" ELSE outcome)
  BY DEF HandlerFails
<1>2. /\ pc = "handler" /\ at \in 1..Len(ops) /\ Untaken /\ acks = 0
      /\ UNCHANGED <<ops, chain, raw, depth, acks, entered, left>>
  BY DEF HandlerFails, Stages, setting, trace
<1> DEFINE e == IF outcome = "notDispatched" /\ ~Single(ops[at]) THEN "skip" ELSE outcome
<1>3. /\ e \in Errors /\ e # "nil"
      /\ e = "skip" => outcome = "notDispatched" /\ ~Single(ops[at])
  BY <1>1 DEF Errors, Outcomes
<1>4. Returns(e)
  BY <1>1
<1> HIDE DEF e
<1>5. /\ trial' = trial /\ at' \in 1..Len(ops)
      /\ \/ e = "skip" /\ pc' = "decode" /\ err' = err
         \/ e = "skip" /\ pc' = "leave" /\ err' = "notDispatched"
         \/ pc' = "leave" /\ err' = e /\ (trial => e # "skip")
  BY <1>2, <1>3, <1>4, Answers
<1>6. PICK c \in [op : DOMAIN ops, shape : Shapes, outcome : Outcomes] :
           /\ c.op = at /\ c.outcome = outcome /\ Len(calls') = Len(calls) + 1
           /\ calls' \in Seq([op : DOMAIN ops, shape : Shapes, outcome : Outcomes])
           /\ DOMAIN calls' = 1..Len(calls) + 1 /\ DOMAIN calls = 1..Len(calls)
           /\ \A k \in DOMAIN calls : calls'[k] = calls[k]
           /\ calls'[Len(calls) + 1] = c
  BY <1>1, <1>2, OneMoreCall DEF Outcomes
<1>7. Len(calls) \in Nat
  BY DEF Types, TypeOK
<1>8. Types'
  BY <1>2, <1>3, <1>5, <1>6 DEF Types, TypeOK, Errors
<1>9. e = "skip" => Untaken'
  BY <1>2, <1>3, <1>6, <1>7 DEF Untaken, Single
<1>10. Stages'
  BY <1>2, <1>3, <1>5, <1>9 DEF Stages
<1>11. OneHandlerTakesIt'
  BY <1>2, <1>6, <1>7 DEF OneHandlerTakesIt, Untaken, Single
<1>12. QED
  BY <1>2, <1>8, <1>10, <1>11 DEF AckFollowsSuccess

\* Ack ends the trial, with an error or without.
LEMMA AckKeeps ==
  ASSUME IInv, Ack
  PROVE  IInv'
<1> USE DEF IInv
<1>1. /\ pc = "ack" /\ at \in 1..Len(ops) /\ acks = 0 /\ Len(calls) > 0
      /\ Succeeded = {Len(calls)}
      /\ UNCHANGED <<ops, chain, raw, depth, calls, entered, left>>
  BY DEF Ack, Stages, setting, trace
<1>2. /\ trial' = trial /\ at' \in 1..Len(ops) /\ pc' = "leave"
      /\ (acks' = 1 /\ err' = "nil") \/ (acks' = 0 /\ err' = "ack")
  <2>1. CASE acks' = acks + 1 /\ Returns("nil")
    <3>1. acks' = 1 /\ Returns("nil") /\ "nil" \in Errors
      BY <1>1, <2>1 DEF Errors
    <3>2. trial' = trial /\ at' \in 1..Len(ops) /\ pc' = "leave" /\ err' = "nil"
      BY <1>1, <3>1, Answers
    <3>3. QED
      BY <3>1, <3>2
  <2>2. CASE acks' = acks /\ Returns("ack")
    BY <1>1, <2>2, Answers DEF Errors
  <2>3. QED
    BY <2>1, <2>2 DEF Ack
<1>3. Types'
  BY <1>1, <1>2 DEF Types, TypeOK, Errors
<1>4. Stages'
  BY <1>1, <1>2 DEF Stages
<1>5. AckFollowsSuccess' /\ OneHandlerTakesIt'
  BY <1>1 DEF AckFollowsSuccess, OneHandlerTakesIt, Succeeded
<1>6. QED
  BY <1>3, <1>4, <1>5

-----------------------------------------------------------------------------
\* Nothing is called before the first step.
LEMMA InitIInv == Init => IInv
<1> SUFFICES ASSUME Init PROVE IInv
  OBVIOUS
<1>1. /\ ops \in Seq(Operations) /\ chain \in Seq(Kinds) /\ Len(chain) \in 0..MaxMiddleware
  BY Lists, BoundAssumption DEF Init
<1>2. calls = <<>> /\ entered = <<>> /\ left = <<>>
  BY DEF Init
<1>3. Types
  <2>1. depth \in 0..MaxMiddleware + 1 /\ at \in 0..Len(ops)
    BY <1>1, BoundAssumption DEF Init
  <2>2. {entered, left} \subseteq Seq(DOMAIN chain)
    BY <1>2
  <2>3. calls \in Seq([op : DOMAIN ops, shape : Shapes, outcome : Outcomes])
    BY <1>2
  <2>4. /\ pc \in {"enter", "decode", "handler", "ack", "leave", "done"}
        /\ err \in Errors /\ acks \in 0..1
    <3>1. pc = "enter" /\ err = "nil" /\ acks = 0
      BY DEF Init
    <3>2. QED
      BY <3>1 DEF Errors
  <2>5. trial \in BOOLEAN
    BY DEF Init
  <2>6. QED
    BY <1>1, <2>1, <2>2, <2>3, <2>4, <2>5 DEF Types, TypeOK
<1>4. DOMAIN calls = {} /\ acks = 0
  BY <1>2 DEF Init
<1>5. Stages
  BY <1>4 DEF Init, Stages, Untaken
<1>6. QED
  BY <1>3, <1>4, <1>5 DEF IInv, AckFollowsSuccess, OneHandlerTakesIt

\* Every step keeps the invariant.
LEMMA NextKeeps == IInv /\ [Next]_vars => IInv'
<1> SUFFICES ASSUME IInv, [Next]_vars PROVE IInv'
  OBVIOUS
<1>1. CASE EnterMiddleware \/ LeaveMiddleware
  BY <1>1, MiddlewareKeeps
<1>2. CASE Route \/ Decode \/ Done
  BY <1>2, QuietKeeps
<1>3. CASE DecodeFails
  BY <1>3, DecodeFailsKeeps
<1>4. CASE HandlerSucceeds
  BY <1>4, HandlerSucceedsKeeps
<1>5. CASE HandlerFails
  BY <1>5, HandlerFailsKeeps
<1>6. CASE Ack
  BY <1>6, AckKeeps
<1>7. CASE UNCHANGED vars
  <2>1. UNCHANGED <<ops, chain, raw, pc, depth, at, trial, err, calls, acks, entered, left>>
    BY <1>7 DEF vars, setting, route, trace
  <2>2. QED
    BY <2>1 DEF IInv, Types, TypeOK, Stages, Untaken, AckFollowsSuccess, OneHandlerTakesIt, Succeeded
<1>8. QED
  BY <1>1, <1>2, <1>3, <1>4, <1>5, <1>6, <1>7 DEF Next

\* The invariant holds throughout a Dispatch of any message.
THEOREM Invariance == Spec => []IInv
<1>1. Init => IInv
  BY InitIInv
<1>2. IInv /\ [Next]_vars => IInv'
  BY NextKeeps
<1>3. QED
  BY <1>1, <1>2, PTL DEF Spec

\* The types of a Dispatch: at most one Ack, calls of declared operations with
\* declared shapes, errors the generated code can return.
THEOREM TypeCorrect == Spec => []TypeOK
<1>1. IInv => TypeOK
  BY DEF IInv, Types
<1>2. QED
  BY <1>1, Invariance, PTL

\* raw.Ack() only follows a handler that returned nil, and no handler is
\* called after it (subscriber.tmpl: dispatch<Op> returns raw.Ack()).
THEOREM AckIsEarned == Spec => []AckFollowsSuccess
<1>1. IInv => AckFollowsSuccess
  BY DEF IInv
<1>2. QED
  BY <1>1, Invariance, PTL

\* dispatchMessage hands a message on only after a "not mine" of an operation
\* with several messages: two handlers never both take it.
THEOREM TakenOnce == Spec => []OneHandlerTakesIt
<1>1. IInv => OneHandlerTakesIt
  BY DEF IInv
<1>2. QED
  BY <1>1, Invariance, PTL

\* Dispatch returns nil only after a successful Ack, unless a middleware
\* swallows errors: the consumers count on it.
THEOREM NilIsEarned == Spec => []NilMeansAcked
<1>1. IInv => NilMeansAcked
  BY DEF IInv, Stages, NilMeansAcked
<1>2. QED
  BY <1>1, Invariance, PTL

\* A message is acknowledged if and only if its handler succeeded, and Dispatch tells its
\* caller so.
THEOREM AckIsHonest == Spec => []AckedIffHandled
<1>1. AckFollowsSuccess /\ NilMeansAcked => AckedIffHandled
  BY DEF AckedIffHandled
<1>2. QED
  BY <1>1, AckIsEarned, NilIsEarned, PTL

\* The internal skip error never leaves the default case of dispatchMessage.
THEOREM SkipNeverLeavesTrial == Spec => []TrialIsDecided
<1>1. IInv => TrialIsDecided
  BY DEF IInv, Stages, TrialIsDecided
<1>2. QED
  BY <1>1, Invariance, PTL

-----------------------------------------------------------------------------
(* Which handlers a message gets, and through which middlewares.           *)

\* What was called so far, as CallsAsDeclared says it.
CallOk(c) ==
  /\ c.op \in MayCall
  /\ \E i \in DOMAIN ops[c.op].messages :
       IsLeast(i, Fitting(ops[c.op])) /\ c.shape = ops[c.op].messages[i]

CallsOk == \A k \in DOMAIN calls : CallOk(calls[k])
Increasing == \A j, k \in DOMAIN calls : j < k => calls[j].op < calls[k].op

\* The operation being tried is one the message reaches, the default case
\* tries only what has no static address, no call is made twice, and what is
\* behind the current operation either was called or does not fit.
Trying ==
  /\ Reaches(at) /\ (trial <=> StaticCases = {})
  /\ pc # "ack" => \A k \in DOMAIN calls : calls[k].op < at
  /\ pc = "handler" => Fitting(ops[at]) # {}
  /\ trial /\ calls = <<>> => \A j \in 1..at-1 : Fitting(ops[j]) = {}

\* On the way out without a call, nothing could have been called.
NothingMissed ==
  pc \in {"leave", "done"} /\ calls = <<>> /\ "stop" \notin Elements(chain) => MayCall = {}

Routed ==
  /\ CallsOk /\ Increasing
  /\ pc \in {"decode", "handler", "ack"} => Trying
  /\ NothingMissed

\* The middlewares whose turn to be entered has come.
Due == {d \in DOMAIN chain : chain[d] # "nil" /\ (IF pc = "enter" THEN d < depth ELSE d <= depth)}

\* The middlewares left are the last ones entered, in reverse, and those still
\* to leave are the ones at or above the depth.
Nested ==
  /\ \A j, k \in DOMAIN entered : j < k => entered[j] < entered[k]
  /\ \A k \in DOMAIN entered : chain[entered[k]] # "nil"
  /\ Len(left) <= Len(entered)
  /\ \A j \in DOMAIN left : left[j] = entered[Len(entered) + 1 - j]
  /\ Due \subseteq Elements(entered)
  /\ pc = "enter" => left = <<>> /\ \A k \in DOMAIN entered : entered[k] < depth
  /\ pc \in {"decode", "handler", "ack"} => left = <<>> /\ depth > Len(chain)
  /\ pc # "enter" =>
       \A k \in DOMAIN entered : k <= Len(entered) - Len(left) <=> entered[k] <= depth
  /\ pc = "done" => depth = 0

RInv == IInv /\ Routed /\ Nested

-----------------------------------------------------------------------------
\* What is read off the operations and the message does not change with them.
LEMMA OperationsStay ==
  ASSUME ops' = ops, raw' = raw
  PROVE  /\ StaticCases' = StaticCases /\ MayCall' = MayCall
         /\ \A k : Reaches(k)' <=> Reaches(k)
         /\ \A k : Passes(k)' <=> Passes(k)
         /\ \A op : Fitting(op)' = Fitting(op)
<1>1. StaticCases' = StaticCases
  BY DEF StaticCases
<1>2. \A op : Fitting(op)' = Fitting(op)
  BY DEF Fitting
<1>3. \A k : Passes(k)' <=> Passes(k)
  BY DEF Passes, Single
<1>4. \A k : Reaches(k)' <=> Reaches(k)
  BY <1>1, <1>3 DEF Reaches, IsLeast
<1>5. MayCall' = MayCall
  BY <1>2, <1>4 DEF MayCall
<1>6. QED
  BY <1>1, <1>2, <1>3, <1>4, <1>5

\* Where an operation's answer leads: to the next one after a skip of the
\* default case, and out otherwise.
LEMMA Onwards ==
  ASSUME Types, at \in 1..Len(ops), NEW e \in Errors, Returns(e)
  PROVE  \/ /\ trial /\ e = "skip" /\ at < Len(ops)
            /\ at' = at + 1 /\ trial' = trial /\ pc' = "decode"
         \/ /\ pc' = "leave" /\ trial' = trial /\ at' = at
            /\ trial /\ e = "skip" => at = Len(ops)
<1>1. Len(ops) \in Nat /\ at \in Int
  BY DEF Types
<1>2. QED
  BY <1>1 DEF Returns, route

\* An operation that does not answer lets the message reach the next one.
LEMMA ReachesNext ==
  ASSUME StaticCases = {}, NEW k \in Nat, Reaches(k), Passes(k)
  PROVE  Reaches(k + 1)
<1>1. \A j \in 1..(k + 1) - 1 : j \in 1..k - 1 \/ j = k
  OBVIOUS
<1>2. QED
  BY <1>1 DEF Reaches

\* The message reaches no operation behind one that must answer, nor a second
\* one on its topic.
LEMMA ReachesNoFurther ==
  ASSUME Types, NEW k \in DOMAIN ops, NEW l \in DOMAIN ops, Reaches(k), Reaches(l),
         StaticCases # {} \/ ~Passes(k) \/ k = Len(ops)
  PROVE  l \in 1..k - 1 \/ l = k
<1>1. k \in 1..Len(ops) /\ l \in 1..Len(ops) /\ Len(ops) \in Nat
  BY DEF Types
<1>2. CASE StaticCases # {}
  <2>1. k \in StaticCases /\ l \in StaticCases /\ k <= l /\ l <= k
    BY <1>2 DEF Reaches, IsLeast
  <2>2. QED
    BY <1>1, <2>1
<1>3. CASE StaticCases = {} /\ ~Passes(k)
  <2>1. ~(k \in 1..l - 1)
    BY <1>3 DEF Reaches
  <2>2. QED
    BY <1>1, <2>1
<1>4. CASE k = Len(ops)
  BY <1>1, <1>4
<1>5. QED
  BY <1>2, <1>3, <1>4

\* When the last operation that could answer does not fit either, and nothing
\* was called before it, no handler could have had the message.
LEMMA NothingCallable ==
  ASSUME Types, at \in DOMAIN ops, Trying, calls = <<>>, Fitting(ops[at]) = {},
         trial => ~Passes(at) \/ at = Len(ops)
  PROVE  MayCall = {}
<1>1. SUFFICES ASSUME NEW l \in MayCall PROVE FALSE
  OBVIOUS
<1>2. l \in DOMAIN ops /\ Reaches(l) /\ Fitting(ops[l]) # {}
  BY <1>1 DEF MayCall
<1>3. Reaches(at) /\ (trial \/ StaticCases # {})
  BY DEF Trying
<1>4. l \in 1..at - 1 \/ l = at
  BY <1>2, <1>3, ReachesNoFurther
<1>5. CASE l = at
  BY <1>2, <1>5
<1>6. CASE l \in 1..at - 1 /\ trial
  BY <1>2, <1>6 DEF Trying
<1>7. CASE l \in 1..at - 1 /\ ~trial
  <2>1. StaticCases # {}
    BY <1>3, <1>7
  <2>2. at \in StaticCases /\ l \in StaticCases /\ at <= l
    BY <1>2, <1>3, <2>1 DEF Reaches, IsLeast
  <2>3. at \in Int /\ l \in Int
    BY <1>7 DEF Types
  <2>4. QED
    BY <1>7, <2>2, <2>3
<1>8. QED
  BY <1>4, <1>5, <1>6, <1>7

-----------------------------------------------------------------------------
(* The routing.                                                            *)

\* The calls so far stay as they are.
LEMMA CallsStay ==
  ASSUME Routed, ops' = ops, raw' = raw, calls' = calls
  PROVE  CallsOk' /\ Increasing'
<1>1. MayCall' = MayCall /\ (\A op : Fitting(op)' = Fitting(op))
  BY OperationsStay
<1>2. CallsOk'
  BY <1>1 DEF Routed, CallsOk, CallOk, IsLeast, Fitting
<1>3. Increasing'
  BY DEF Routed, Increasing
<1>4. QED
  BY <1>2, <1>3

\* Entering, leaving and ending do not route.
LEMMA MiddlewareRoutes ==
  ASSUME RInv, EnterMiddleware \/ LeaveMiddleware \/ Done
  PROVE  Routed'
<1>1. /\ UNCHANGED <<ops, chain, raw, calls>>
      /\ pc \in {"enter", "leave"} /\ ~(pc' \in {"decode", "handler", "ack"})
  BY DEF EnterMiddleware, LeaveMiddleware, Done, setting
<1>2. NothingMissed'
  <2>1. MayCall' = MayCall
    BY <1>1, OperationsStay
  <2>2. CASE pc = "leave"
    BY <1>1, <2>1, <2>2 DEF RInv, Routed, NothingMissed
  <2>3. CASE EnterMiddleware /\ pc' = "leave"
    <3>1. depth \in DOMAIN chain /\ chain[depth] = "stop"
      <4>1. depth <= Len(chain) /\ chain[depth] = "stop" /\ depth > 0
        BY <2>3 DEF EnterMiddleware, RInv, IInv, Stages
      <4>2. depth \in Int /\ DOMAIN chain = 1..Len(chain) /\ Len(chain) \in Nat
        BY BoundAssumption DEF RInv, IInv, Types, TypeOK
      <4>3. QED
        BY <4>1, <4>2
    <3>2. "stop" \in Elements(chain)'
      BY <1>1, <3>1 DEF Elements
    <3>3. QED
      BY <3>2 DEF NothingMissed
  <2>4. CASE pc' \notin {"leave", "done"}
    BY <2>4 DEF NothingMissed
  <2>5. QED
    BY <2>2, <2>3, <2>4 DEF EnterMiddleware, LeaveMiddleware, Done
<1>3. QED
  BY <1>1, <1>2, CallsStay DEF Routed, RInv

\* The switch over the static addresses, and its default.
LEMMA RouteRoutes ==
  ASSUME RInv, Route
  PROVE  Routed'
<1>1. UNCHANGED <<ops, chain, raw, calls>> /\ calls = <<>> /\ DOMAIN ops = 1..Len(ops)
  BY DEF Route, setting, RInv, IInv, Stages, Types
<1>2. StaticCases' = StaticCases /\ MayCall' = MayCall /\ (\A k : Reaches(k)' <=> Reaches(k))
  BY <1>1, OperationsStay
<1>3. CASE at' \in StaticCases /\ IsLeast(at', StaticCases) /\ trial' = FALSE /\ pc' = "decode"
  <2>1. Reaches(at')
    BY <1>3 DEF Reaches
  <2>2. Reaches(at)'
    BY <2>1, <1>1 DEF Reaches, IsLeast, StaticCases, Passes, Single
  <2>3. Trying'
    BY <1>1, <1>2, <1>3, <2>2 DEF Trying
  <2>4. QED
    BY <1>1, <1>3, <2>3, CallsStay DEF Routed, NothingMissed, RInv
<1>4. CASE StaticCases = {} /\ at' = 1 /\ trial' = TRUE /\ pc' = "decode"
  <2>1. Reaches(at)'
    BY <1>2, <1>4 DEF Reaches
  <2>2. Trying'
    BY <1>1, <1>2, <1>4, <2>1 DEF Trying
  <2>3. QED
    BY <1>1, <1>4, <2>2, CallsStay DEF Routed, NothingMissed, RInv
<1>5. CASE ops = <<>> /\ pc' = "leave"
  <2>1. MayCall' = {}
    BY <1>2, <1>5 DEF MayCall
  <2>2. QED
    BY <1>1, <1>5, <2>1, CallsStay DEF Routed, NothingMissed, RInv
<1>6. QED
  BY <1>3, <1>4, <1>5 DEF Route, IsLeast

\* A message that does not fit goes on, or nothing could have been called.
LEMMA DecodeRoutes ==
  ASSUME RInv, DecodeFails \/ Decode
  PROVE  Routed'
<1>1. /\ UNCHANGED <<ops, chain, raw, calls>> /\ pc = "decode" /\ Trying
      /\ Types /\ at \in 1..Len(ops) /\ at \in DOMAIN ops /\ Len(ops) \in Nat
  BY DEF DecodeFails, Decode, setting, RInv, IInv, Stages, Routed, Types
<1>2. /\ StaticCases' = StaticCases /\ MayCall' = MayCall /\ (\A k : Reaches(k)' <=> Reaches(k))
      /\ \A op : Fitting(op)' = Fitting(op)
  BY <1>1, OperationsStay
<1>3. CASE Decode
  <2>1. pc' = "handler" /\ at' = at /\ trial' = trial /\ Fitting(ops[at]) # {}
    BY <1>3 DEF Decode, route
  <2>2. Trying'
    BY <1>1, <1>2, <2>1 DEF Trying
  <2>3. QED
    BY <1>1, <2>1, <2>2, CallsStay DEF Routed, NothingMissed, RInv
<1>4. CASE DecodeFails
  <2> DEFINE e == IF Single(ops[at]) THEN "decode" ELSE "skip"
  <2>1. Returns(e) /\ e \in Errors /\ (e = "skip" <=> Passes(at)) /\ Fitting(ops[at]) = {}
    BY <1>4 DEF DecodeFails, Errors, Passes
  <2> HIDE DEF e
  <2>2. CASE /\ trial /\ e = "skip" /\ at' = at + 1 /\ trial' = trial /\ pc' = "decode"
    <3>1. Reaches(at')
      <4>1. StaticCases = {} /\ Reaches(at) /\ Passes(at)
        BY <1>1, <2>1, <2>2 DEF Trying
      <4>2. QED
        BY <1>1, <2>2, <4>1, ReachesNext
    <3>2. Reaches(at)'
      BY <3>1, <1>1 DEF Reaches, IsLeast, StaticCases, Passes, Single
    <3>3. \A c \in DOMAIN calls : calls[c].op < at'
      <4>1. \A c \in DOMAIN calls : calls[c].op < at /\ calls[c].op \in DOMAIN ops
        BY <1>1 DEF Trying, RInv, Routed, CallsOk, CallOk, MayCall
      <4>2. DOMAIN ops = 1..Len(ops)
        BY <1>1 DEF Types
      <4>3. QED
        BY <1>1, <2>2, <4>1, <4>2
    <3>4. calls = <<>> => \A j \in 1..at' - 1 : Fitting(ops[j]) = {}
      <4>1. \A j \in 1..at' - 1 : j \in 1..at - 1 \/ j = at
        BY <1>1, <2>2
      <4>2. QED
        BY <1>1, <2>1, <2>2, <4>1 DEF Trying
    <3>5. Trying'
      BY <1>1, <1>2, <2>2, <3>2, <3>3, <3>4 DEF Trying
    <3>6. QED
      BY <1>1, <2>2, <3>5, CallsStay DEF Routed, NothingMissed, RInv
  <2>3. CASE pc' = "leave" /\ (trial /\ e = "skip" => at = Len(ops))
    <3>1. calls = <<>> => MayCall = {}
      BY <1>1, <2>1, <2>3, NothingCallable
    <3>2. QED
      BY <1>1, <1>2, <2>3, <3>1, CallsStay DEF Routed, NothingMissed, RInv
  <2>4. QED
    BY <1>1, <2>1, <2>2, <2>3, Onwards
<1>5. QED
  BY <1>3, <1>4

\* A call of the operation being tried keeps the calls as declared and in
\* order.
LEMMA CallRoutes ==
  ASSUME RInv, pc = "handler", NEW outcome \in Outcomes, Called(outcome),
         ops' = ops, raw' = raw
  PROVE  /\ CallsOk' /\ Increasing' /\ calls' # <<>>
         /\ \A k \in DOMAIN calls' : calls'[k].op \in DOMAIN ops /\ calls'[k].op <= at
<1>1. /\ Types /\ at \in 1..Len(ops) /\ at \in DOMAIN ops /\ Len(ops) \in Nat
      /\ DOMAIN ops = 1..Len(ops)
      /\ Trying /\ CallsOk /\ Increasing
  BY DEF RInv, IInv, Stages, Types, Routed
<1>2. PICK i \in Fitting(ops[at]) :
        /\ IsLeast(i, Fitting(ops[at]))
        /\ calls' = Append(calls, [op |-> at, shape |-> ops[at].messages[i], outcome |-> outcome])
  BY DEF Called
<1> DEFINE c == [op |-> at, shape |-> ops[at].messages[i], outcome |-> outcome]
<1>3. /\ c.op = at /\ c.shape = ops[at].messages[i] /\ calls' = Append(calls, c)
  BY <1>2
<1>4. CallOk(c)
  <2>1. at \in MayCall
    BY <1>1, <1>2 DEF MayCall, Trying
  <2>2. i \in DOMAIN ops[at].messages
    BY <1>2 DEF Fitting
  <2>3. QED
    BY <1>2, <1>3, <2>1, <2>2 DEF CallOk
<1>5. \A k \in DOMAIN calls : CallOk(calls[k]) /\ calls[k].op \in DOMAIN ops /\ calls[k].op < at
  BY <1>1 DEF CallsOk, CallOk, MayCall, Trying
<1> HIDE DEF c
<1>6. calls \in Seq([op : DOMAIN ops, shape : Shapes, outcome : Outcomes])
  BY <1>1 DEF Types, TypeOK
<1>7. /\ DOMAIN calls' = 1..Len(calls) + 1 /\ DOMAIN calls = 1..Len(calls) /\ Len(calls) \in Nat
      /\ \A k \in DOMAIN calls : calls'[k] = calls[k]
      /\ calls'[Len(calls) + 1] = c
  BY <1>3, <1>6
<1>8. \A k \in DOMAIN calls' :
        \/ k \in DOMAIN calls /\ calls'[k] = calls[k]
        \/ k = Len(calls) + 1 /\ calls'[k] = c
  BY <1>7
<1>9. \A k \in DOMAIN calls' : CallOk(calls'[k])
  BY <1>4, <1>5, <1>8
<1>10. CallsOk'
  <2>1. MayCall' = MayCall /\ (\A op : Fitting(op)' = Fitting(op))
    BY OperationsStay
  <2>2. QED
    BY <1>9, <2>1 DEF CallsOk, CallOk, IsLeast, Fitting
<1>11. Increasing'
  <2>1. SUFFICES ASSUME NEW j \in DOMAIN calls', NEW k \in DOMAIN calls', j < k
                 PROVE  calls'[j].op < calls'[k].op
    BY DEF Increasing
  <2>2. j \in DOMAIN calls /\ calls'[j] = calls[j]
    BY <1>7, <2>1
  <2>3. CASE k \in DOMAIN calls
    BY <1>1, <1>7, <2>1, <2>2, <2>3 DEF Increasing
  <2>4. CASE k = Len(calls) + 1
    BY <1>3, <1>5, <1>7, <2>2, <2>4
  <2>5. QED
    BY <1>7, <2>3, <2>4
<1>12. calls' # <<>>
  BY <1>7
<1>13. \A k \in DOMAIN calls' : calls'[k].op \in DOMAIN ops /\ calls'[k].op <= at
  BY <1>1, <1>3, <1>5, <1>8
<1>14. QED
  BY <1>10, <1>11, <1>12, <1>13

\* A handler's answer ends the switch, or hands the message to the next one.
LEMMA HandlerRoutes ==
  ASSUME RInv, HandlerSucceeds \/ HandlerFails
  PROVE  Routed'
<1>1. /\ UNCHANGED <<ops, chain, raw>> /\ pc = "handler" /\ Trying
      /\ Types /\ at \in 1..Len(ops) /\ at \in DOMAIN ops /\ Len(ops) \in Nat
      /\ DOMAIN ops = 1..Len(ops)
  BY DEF HandlerSucceeds, HandlerFails, setting, RInv, IInv, Stages, Routed, Types
<1>2. StaticCases' = StaticCases /\ \A k : Reaches(k)' <=> Reaches(k)
  BY <1>1, OperationsStay
<1>3. PICK outcome \in Outcomes : Called(outcome)
  BY DEF HandlerSucceeds, HandlerFails, Outcomes
<1>4. /\ CallsOk' /\ Increasing' /\ calls' # <<>>
      /\ \A k \in DOMAIN calls' : calls'[k].op \in DOMAIN ops /\ calls'[k].op <= at
  BY <1>1, <1>3, CallRoutes
<1>5. NothingMissed'
  BY <1>4 DEF NothingMissed
<1>6. CASE HandlerSucceeds
  <2>1. pc' = "ack" /\ at' = at /\ trial' = trial
    BY <1>6 DEF HandlerSucceeds, route
  <2>2. Trying'
    BY <1>1, <1>2, <1>4, <2>1 DEF Trying
  <2>3. QED
    BY <1>4, <1>5, <2>2 DEF Routed
<1>7. CASE HandlerFails
  <2>1. PICK o \in Outcomes \ {"nil"} :
          Returns(IF o = "notDispatched" /\ ~Single(ops[at]) THEN "skip" ELSE o)
    BY <1>7 DEF HandlerFails
  <2> DEFINE e == IF o = "notDispatched" /\ ~Single(ops[at]) THEN "skip" ELSE o
  <2>2. Returns(e) /\ e \in Errors /\ (e = "skip" => Passes(at))
    BY <2>1 DEF Errors, Outcomes, Passes
  <2> HIDE DEF e
  <2>3. CASE trial /\ e = "skip" /\ at' = at + 1 /\ trial' = trial /\ pc' = "decode"
    <3>1. Reaches(at')
      BY <1>1, <2>2, <2>3, ReachesNext DEF Trying
    <3>2. Reaches(at)'
      BY <3>1, <1>1 DEF Reaches, IsLeast, StaticCases, Passes, Single
    <3>3. \A k \in DOMAIN calls' : calls'[k].op < at'
      BY <1>1, <1>4, <2>3
    <3>4. Trying'
      BY <1>1, <1>2, <1>4, <2>3, <3>2, <3>3 DEF Trying
    <3>5. QED
      BY <1>4, <1>5, <3>4 DEF Routed
  <2>4. CASE pc' = "leave"
    BY <1>4, <1>5, <2>4 DEF Routed
  <2>5. QED
    BY <1>1, <2>2, <2>3, <2>4, Onwards
<1>8. QED
  BY <1>6, <1>7

\* Ack ends the switch, after a call.
LEMMA AckRoutes ==
  ASSUME RInv, Ack
  PROVE  Routed'
<1>1. /\ UNCHANGED <<ops, chain, raw, calls>> /\ pc = "ack" /\ Types /\ at \in 1..Len(ops)
      /\ Len(calls) > 0
  BY DEF Ack, setting, RInv, IInv, Stages
<1>2. pc' = "leave"
  <2>1. \E e \in Errors : e # "skip" /\ Returns(e)
    BY DEF Ack, Errors
  <2>2. QED
    BY <2>1, <1>1, Onwards
<1>3. calls' # <<>>
  BY <1>1
<1>4. QED
  BY <1>1, <1>2, <1>3, CallsStay DEF Routed, NothingMissed, RInv

-----------------------------------------------------------------------------
(* The middlewares.                                                        *)

\* What the steps below rest on.
LEMMA ChainFacts ==
  ASSUME IInv
  PROVE  /\ Len(chain) \in Nat /\ DOMAIN chain = 1..Len(chain) /\ depth \in Int /\ depth >= 0
         /\ entered \in Seq(DOMAIN chain) /\ left \in Seq(DOMAIN chain)
         /\ Len(entered) \in Nat /\ DOMAIN entered = 1..Len(entered)
         /\ Len(left) \in Nat /\ DOMAIN left = 1..Len(left)
         /\ \A k \in DOMAIN entered : entered[k] \in 1..Len(chain)
<1>1. {entered, left} \subseteq Seq(DOMAIN chain) /\ depth \in 0..MaxMiddleware + 1
  BY DEF IInv, Types, TypeOK
<1>2. Len(chain) \in Nat /\ DOMAIN chain = 1..Len(chain)
  BY DEF IInv, Types
<1>3. entered \in Seq(DOMAIN chain) /\ left \in Seq(DOMAIN chain)
  BY <1>1
<1>4. QED
  BY <1>1, <1>2, <1>3, BoundAssumption

\* Entering goes one middleware further in.
LEMMA EnterNests ==
  ASSUME RInv, EnterMiddleware
  PROVE  Nested'
<1>1. /\ Len(chain) \in Nat /\ DOMAIN chain = 1..Len(chain) /\ depth \in Int /\ depth > 0
      /\ entered \in Seq(DOMAIN chain) /\ Len(entered) \in Nat
      /\ DOMAIN entered = 1..Len(entered)
      /\ \A k \in DOMAIN entered : entered[k] \in 1..Len(chain)
  BY ChainFacts DEF RInv, IInv, EnterMiddleware, Stages
<1>2. /\ pc = "enter" /\ depth <= Len(chain) /\ chain' = chain /\ left' = left
      /\ left = <<>> /\ \A k \in DOMAIN entered : entered[k] < depth
      /\ \A j, k \in DOMAIN entered : j < k => entered[j] < entered[k]
      /\ \A k \in DOMAIN entered : chain[entered[k]] # "nil"
  BY DEF EnterMiddleware, RInv, Nested, setting
<1>3. depth \in DOMAIN chain /\ Len(left) = 0 /\ DOMAIN left = {}
  BY <1>1, <1>2
<1>4. \A d \in DOMAIN chain : d < depth /\ chain[d] # "nil" => d \in Elements(entered)
  BY <1>2 DEF RInv, Nested, Due
<1>5. \/ pc' = "leave" /\ depth' = depth
      \/ pc' = "enter" /\ depth' = depth + 1
  BY <1>2 DEF EnterMiddleware
<1>6. CASE chain[depth] = "nil"
  <2>1. entered' = entered /\ pc' = "enter" /\ depth' = depth + 1
    BY <1>2, <1>6 DEF EnterMiddleware
  <2>2. \A k \in DOMAIN entered' : entered'[k] < depth'
    BY <1>1, <1>2, <2>1
  <2>3. Due' \subseteq Elements(entered)'
    <3>1. \A d \in DOMAIN chain : chain[d] # "nil" /\ d < depth + 1 => d < depth
      BY <1>1, <1>6
    <3>2. QED
      BY <1>2, <1>4, <2>1, <3>1 DEF Due, Elements
  <2>4. QED
    BY <1>1, <1>2, <1>3, <2>1, <2>2, <2>3 DEF Nested
<1>7. CASE chain[depth] # "nil"
  <2>1. entered' = Append(entered, depth)
    BY <1>2, <1>7 DEF EnterMiddleware
  <2>2. /\ Len(entered') = Len(entered) + 1 /\ DOMAIN entered' = 1..Len(entered) + 1
        /\ \A k \in DOMAIN entered : entered'[k] = entered[k]
        /\ entered'[Len(entered) + 1] = depth
    BY <1>1, <1>3, <2>1
  <2>3. \A k \in DOMAIN entered' :
          \/ k \in DOMAIN entered /\ entered'[k] = entered[k]
          \/ k = Len(entered) + 1 /\ entered'[k] = depth
    BY <1>1, <2>2
  <2>4. \A j, k \in DOMAIN entered' : j < k => entered'[j] < entered'[k]
    <3>1. SUFFICES ASSUME NEW j \in DOMAIN entered', NEW k \in DOMAIN entered', j < k
                   PROVE  entered'[j] < entered'[k]
      OBVIOUS
    <3>2. j \in DOMAIN entered /\ entered'[j] = entered[j]
      BY <1>1, <2>2, <3>1
    <3>3. QED
      BY <1>2, <2>3, <3>1, <3>2
  <2>5. \A k \in DOMAIN entered' : chain'[entered'[k]] # "nil" /\ entered'[k] <= depth
    BY <1>1, <1>2, <1>7, <2>3
  <2>6. Due' \subseteq Elements(entered)'
    <3>1. SUFFICES ASSUME NEW d \in Due' PROVE d \in Elements(entered')
      BY DEF Elements
    <3>2. d \in DOMAIN chain /\ chain[d] # "nil" /\ d <= depth
      BY <1>1, <1>2, <1>5 DEF Due
    <3>3. CASE d = depth
      BY <1>1, <2>2, <3>3 DEF Elements
    <3>4. CASE d < depth
      BY <1>4, <2>2, <1>1, <3>2, <3>4 DEF Elements
    <3>5. QED
      BY <1>1, <3>2, <3>3, <3>4
  <2>7. pc' = "enter" => \A k \in DOMAIN entered' : entered'[k] < depth'
    <3>1. SUFFICES ASSUME pc' = "enter", NEW k \in DOMAIN entered'
                   PROVE  entered'[k] < depth'
      OBVIOUS
    <3>2. depth' = depth + 1 /\ (entered'[k] = depth \/ entered'[k] < depth)
      BY <1>2, <1>5, <2>3, <3>1
    <3>3. entered'[k] \in Int
      BY <1>1, <2>3
    <3>4. QED
      BY <1>1, <3>2, <3>3
  <2>8. pc' # "enter" =>
          \A k \in DOMAIN entered' : k <= Len(entered') - Len(left') <=> entered'[k] <= depth'
    BY <1>1, <1>2, <1>3, <1>5, <2>2, <2>5
  <2>9. QED
    BY <1>1, <1>2, <1>3, <1>5, <2>2, <2>4, <2>5, <2>6, <2>7, <2>8 DEF Nested
<1>8. QED
  BY <1>6, <1>7

\* Leaving closes the middleware entered last.
LEMMA LeaveNests ==
  ASSUME RInv, LeaveMiddleware
  PROVE  Nested'
<1> DEFINE inside == Len(entered) - Len(left)
<1>1. /\ Len(chain) \in Nat /\ DOMAIN chain = 1..Len(chain) /\ depth \in Int
      /\ entered \in Seq(DOMAIN chain) /\ left \in Seq(DOMAIN chain)
      /\ Len(entered) \in Nat /\ DOMAIN entered = 1..Len(entered)
      /\ Len(left) \in Nat /\ DOMAIN left = 1..Len(left)
      /\ \A k \in DOMAIN entered : entered[k] \in 1..Len(chain)
  BY ChainFacts DEF RInv
<1>2. /\ pc = "leave" /\ pc' = "leave" /\ depth > 0 /\ depth' = depth - 1
      /\ chain' = chain /\ entered' = entered
  BY DEF LeaveMiddleware, setting
<1>3. /\ \A j, k \in DOMAIN entered : j < k => entered[j] < entered[k]
      /\ \A k \in DOMAIN entered : chain[entered[k]] # "nil"
      /\ Len(left) <= Len(entered)
      /\ \A j \in DOMAIN left : left[j] = entered[Len(entered) + 1 - j]
      /\ \A k \in DOMAIN entered : k <= inside <=> entered[k] <= depth
  BY <1>2 DEF RInv, Nested
<1>4. \A d \in DOMAIN chain : d <= depth /\ chain[d] # "nil" => d \in Elements(entered)
  BY <1>2 DEF RInv, Nested, Due
<1>5. Due' \subseteq Elements(entered)'
  BY <1>1, <1>2, <1>4 DEF Due, Elements
<1>6. inside \in Nat
  BY <1>1, <1>3
<1> HIDE DEF inside
<1>7. CASE depth > Len(chain) \/ chain[depth] = "nil"
  <2>1. left' = left
    BY <1>2, <1>7 DEF LeaveMiddleware
  <2>2. \A k \in DOMAIN entered : entered[k] # depth
    BY <1>1, <1>3, <1>7
  <2>3. \A k \in DOMAIN entered : entered[k] <= depth <=> entered[k] <= depth - 1
    BY <1>1, <2>2
  <2>4. \A k \in DOMAIN entered' : k <= Len(entered') - Len(left') <=> entered'[k] <= depth'
    BY <1>2, <1>3, <2>1, <2>3 DEF inside
  <2>5. QED
    BY <1>2, <1>3, <1>5, <2>1, <2>4 DEF Nested
<1>8. CASE depth <= Len(chain) /\ chain[depth] # "nil"
  <2>1. left' = Append(left, depth) /\ depth \in DOMAIN chain
    BY <1>1, <1>2, <1>8 DEF LeaveMiddleware
  <2>2. depth \in Elements(entered)
    <3>1. depth <= depth
      BY <1>1
    <3>2. QED
      BY <1>4, <1>8, <2>1, <3>1
  <2>3. PICK m \in DOMAIN entered : entered[m] = depth
    BY <2>2 DEF Elements
  <2>4. m <= inside
    BY <1>1, <1>3, <2>3
  <2>5. inside \in DOMAIN entered
    BY <1>1, <1>3, <1>6, <2>4 DEF inside
  <2>6. m = inside
    <3>1. entered[inside] <= depth
      BY <1>3, <1>6, <2>5
    <3>2. ~(m < inside)
      BY <1>1, <1>3, <2>3, <2>5, <3>1
    <3>3. QED
      BY <1>1, <1>6, <2>4, <3>2
  <2>7. /\ Len(left') = Len(left) + 1 /\ DOMAIN left' = 1..Len(left) + 1
        /\ \A j \in DOMAIN left : left'[j] = left[j]
        /\ left'[Len(left) + 1] = depth
    BY <1>1, <2>1
  <2>8. Len(left') <= Len(entered') /\ Len(entered') - Len(left') = inside - 1
    BY <1>1, <1>2, <1>6, <2>5, <2>7 DEF inside
  <2>9. \A j \in DOMAIN left' : left'[j] = entered'[Len(entered') + 1 - j]
    <3>1. SUFFICES ASSUME NEW j \in DOMAIN left' PROVE left'[j] = entered[Len(entered) + 1 - j]
      BY <1>2
    <3>2. CASE j \in DOMAIN left
      BY <1>3, <2>7, <3>2
    <3>3. CASE j = Len(left) + 1
      <4>1. \A a, b \in Nat : a + 1 - (b + 1) = a - b
        OBVIOUS
      <4>2. Len(entered) + 1 - j = inside
        BY <1>1, <3>3, <4>1 DEF inside
      <4>3. QED
        BY <2>3, <2>6, <2>7, <3>3, <4>2
    <3>4. QED
      BY <1>1, <2>7, <3>2, <3>3
  <2>10. \A k \in DOMAIN entered : k <= inside - 1 <=> entered[k] <= depth - 1
    <3>1. SUFFICES ASSUME NEW k \in DOMAIN entered
                   PROVE  k <= inside - 1 <=> entered[k] <= depth - 1
      OBVIOUS
    <3>2. CASE k < inside
      <4>1. entered[k] < entered[inside] /\ entered[inside] = depth
        BY <1>3, <2>3, <2>5, <2>6, <3>2
      <4>2. k \in Int /\ entered[k] \in Int
        BY <1>1
      <4>3. QED
        BY <1>1, <1>6, <3>2, <4>1, <4>2
    <3>3. CASE k = inside
      BY <1>1, <1>6, <2>3, <2>6, <3>3
    <3>4. CASE k > inside
      BY <1>1, <1>3, <1>6, <3>4
    <3>5. QED
      BY <1>1, <1>6, <3>2, <3>3, <3>4
  <2>11. \A k \in DOMAIN entered' : k <= Len(entered') - Len(left') <=> entered'[k] <= depth'
    BY <1>2, <2>8, <2>10
  <2>12. QED
    BY <1>2, <1>3, <1>5, <2>8, <2>9, <2>11 DEF Nested
<1>9. QED
  BY <1>1, <1>7, <1>8

\* The route, the decoding, the handlers and the Ack are inside the whole
\* chain; the end is outside of it.
LEMMA OthersNest ==
  ASSUME RInv, Done \/ Route \/ DecodeFails \/ Decode \/ HandlerSucceeds \/ HandlerFails \/ Ack
  PROVE  Nested'
<1>1. UNCHANGED <<chain, depth, entered, left>>
  BY DEF Done, Route, DecodeFails, Decode, HandlerSucceeds, HandlerFails, Ack, setting, trace
<1>2. /\ Len(chain) \in Nat /\ DOMAIN chain = 1..Len(chain) /\ depth \in Int
      /\ Len(entered) \in Nat /\ DOMAIN entered = 1..Len(entered)
      /\ \A k \in DOMAIN entered : entered[k] \in 1..Len(chain)
  BY ChainFacts DEF RInv
<1>3. CASE Done
  <2>1. pc = "leave" /\ pc' = "done" /\ depth = 0
    BY <1>3 DEF Done
  <2>2. QED
    BY <1>1, <2>1 DEF RInv, Nested, Due, Elements
<1>4. CASE Route \/ DecodeFails \/ Decode \/ HandlerSucceeds \/ HandlerFails \/ Ack
  <2>1. /\ left = <<>> /\ depth > Len(chain)
        /\ pc \in {"enter", "decode", "handler", "ack"}
    BY <1>4 DEF Route, DecodeFails, Decode, HandlerSucceeds, HandlerFails, Ack, RInv, Nested
  <2>2. pc' \in {"decode", "handler", "ack", "leave"}
    BY <1>4 DEF Route, DecodeFails, Decode, HandlerSucceeds, HandlerFails, Ack, Returns
  <2>3. \A d \in DOMAIN chain : chain[d] # "nil" => d \in Elements(entered)
    BY <1>2, <2>1 DEF RInv, Nested, Due
  <2>4. \A k \in DOMAIN entered : k <= Len(entered) - Len(left) /\ entered[k] <= depth
    <3>1. Len(left) = 0
      BY <2>1
    <3>2. QED
      BY <1>2, <2>1, <3>1
  <2>5. Due' \subseteq Elements(entered)'
    BY <1>1, <2>3 DEF Due, Elements
  <2>6. QED
    BY <1>1, <2>1, <2>2, <2>4, <2>5 DEF RInv, Nested
<1>5. QED
  BY <1>3, <1>4

-----------------------------------------------------------------------------
\* Nothing is called and nothing entered before the first step.
LEMMA InitRInv == Init => RInv
<1> SUFFICES ASSUME Init PROVE RInv
  OBVIOUS
<1>1. IInv
  BY InitIInv
<1>2. calls = <<>> /\ entered = <<>> /\ left = <<>> /\ pc = "enter" /\ depth = 1
  BY DEF Init
<1>3. DOMAIN calls = {} /\ DOMAIN entered = {} /\ DOMAIN left = {}
      /\ Len(entered) = 0 /\ Len(left) = 0
  BY <1>2
<1>4. Routed
  BY <1>2, <1>3 DEF Routed, CallsOk, Increasing, NothingMissed
<1>5. Due = {}
  <2>1. DOMAIN chain = 1..Len(chain) /\ Len(chain) \in Nat
    BY <1>1, ChainFacts
  <2>2. QED
    BY <1>2, <2>1 DEF Due
<1>6. Nested
  BY <1>2, <1>3, <1>5 DEF Nested
<1>7. QED
  BY <1>1, <1>4, <1>6 DEF RInv

\* Every step keeps the invariant.
LEMMA NextRoutes == RInv /\ [Next]_vars => RInv'
<1> SUFFICES ASSUME RInv, [Next]_vars PROVE RInv'
  OBVIOUS
<1>1. IInv'
  BY NextKeeps DEF RInv
<1>2. CASE Next
  <2>1. Routed'
    BY <1>2, MiddlewareRoutes, RouteRoutes, DecodeRoutes, HandlerRoutes, AckRoutes DEF Next
  <2>2. Nested'
    BY <1>2, EnterNests, LeaveNests, OthersNest DEF Next
  <2>3. QED
    BY <1>1, <2>1, <2>2 DEF RInv
<1>3. CASE UNCHANGED vars
  <2>1. UNCHANGED <<ops, chain, raw, pc, depth, at, trial, err, calls, acks, entered, left>>
    BY <1>3 DEF vars, setting, route, trace
  <2>2. /\ StaticCases' = StaticCases /\ MayCall' = MayCall
        /\ \A k : Reaches(k)' <=> Reaches(k)
        /\ \A op : Fitting(op)' = Fitting(op)
    BY <2>1, OperationsStay
  <2>3. Trying => Trying'
    BY <2>1, <2>2 DEF Trying
  <2>4. Routed'
    BY <2>1, <2>2, <2>3, CallsStay DEF RInv, Routed, NothingMissed
  <2>5. Nested'
    BY <2>1 DEF RInv, Nested, Due, Elements
  <2>6. QED
    BY <1>1, <2>4, <2>5 DEF RInv
<1>4. QED
  BY <1>2, <1>3

\* What CallsAsDeclared says follows.
LEMMA Declared == RInv => CallsAsDeclared
<1> SUFFICES ASSUME RInv PROVE CallsAsDeclared
  OBVIOUS
<1>1. /\ \A k \in DOMAIN calls :
           /\ calls[k].op \in MayCall
           /\ \E i \in DOMAIN ops[calls[k].op].messages :
                /\ IsLeast(i, Fitting(ops[calls[k].op]))
                /\ calls[k].shape = ops[calls[k].op].messages[i]
      /\ \A j, k \in DOMAIN calls : j < k => calls[j].op < calls[k].op
      /\ pc = "done" /\ "stop" \notin Elements(chain) /\ MayCall # {} => calls # <<>>
  BY DEF RInv, Routed, CallsOk, CallOk, Increasing, NothingMissed
<1>2. MiddlewareNests
  <2>1. /\ \A j, k \in DOMAIN entered : j < k => entered[j] < entered[k]
        /\ \A j \in DOMAIN left : left[j] = entered[Len(entered) + 1 - j]
    BY DEF RInv, Nested
  <2>2. ASSUME pc = "done" PROVE Len(left) = Len(entered)
    <3>1. /\ Len(entered) \in Nat /\ DOMAIN entered = 1..Len(entered) /\ Len(left) \in Nat
          /\ \A k \in DOMAIN entered : entered[k] \in 1..Len(chain)
          /\ Len(chain) \in Nat
      BY ChainFacts DEF RInv
    <3>2. /\ Len(left) <= Len(entered)
          /\ \A k \in DOMAIN entered : k <= Len(entered) - Len(left) <=> entered[k] <= 0
      BY <2>2 DEF RInv, Nested
    <3>3. ~(1 \in DOMAIN entered /\ 1 <= Len(entered) - Len(left))
      BY <3>1, <3>2
    <3>4. QED
      BY <3>1, <3>2, <3>3
  <2>3. QED
    BY <2>1, <2>2 DEF MiddlewareNests
<1>3. QED
  BY <1>1, <1>2 DEF CallsAsDeclared

\* dispatchMessage calls the handlers a message reaches, in the order of the
\* operations, each at most once and with the first shape that fits; a message
\* no handler saw was held back by a middleware; and the middlewares of the
\* chain nest (subscriber.tmpl: the switch and its default; broker.Chain).
THEOREM RoutedAsDeclared == Spec => []CallsAsDeclared
<1>1. Init => RInv
  BY InitRInv
<1>2. RInv /\ [Next]_vars => RInv'
  BY NextRoutes
<1>3. RInv => CallsAsDeclared
  BY Declared
<1>4. QED
  BY <1>1, <1>2, <1>3, PTL DEF Spec

=============================================================================
