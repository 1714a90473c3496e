------------------------------- MODULE CodeBuilder -------------------------------
(***************************************************************************)
(* gen.NewGenerator on what DocumentParser accepted: operations, channels  *)
(* and messages become Go declarations that share one name space.  The     *)
(* storage of types refuses a second type of a name; a schema reached by   *)
(* reference gets a name that nobody has reserved so far.                  *)
(*                                                                         *)
(* Go gives the identifier of a name of the document (two names may have   *)
(* one identifier), Tails the identifiers nameSchemaRef tries for a        *)
(* pointer.  A payload is [kind, refs]: kind "none", "plain" (no type of   *)
(* its own), "struct" (a type <Message>Payload) or "ref" (its type is the  *)
(* referenced schema's); refs lists the schemas it refers to.              *)
(***************************************************************************)
EXTENDS DocumentParser

CONSTANTS
  Filters, \* the action filters considered
  Go,      \* names to Go identifiers
  Tails    \* schema pointers to candidate names, shortest first

VARIABLES
  phase,       \* "wait", "operation", "message", "naming", "built" or "failed"
  next,        \* how many operations, then replies, were looked at
  op,          \* the operation in work
  left,        \* its messages still to be built
  naming,      \* references of the message in work still to be met
  fresh,       \* the types generated for it
  built,       \* builtMsgs: message objects to envelope names
  types,       \* the storage: names to what they are
  reserved,    \* refNameUsed
  refNames,    \* schema pointers to type names
  sums,        \* sumTypes: message sets to interface names
  implements,  \* pairs of an envelope and an interface it implements
  operations,  \* the operations built
  actions      \* Filters.Actions

draft == <<naming, fresh>>
storage == <<built, types, reserved, refNames>>
results == <<sums, implements, operations>>
gvars == <<phase, next, op, left, draft, storage, results, actions>>

NoOp == [name |-> empty]

\* What a Go type can be made of.
Envelope(id) == [kind |-> "envelope", of |-> id]
Payload(id) == [kind |-> "payload", of |-> id]
Schema(ref) == [kind |-> "schema", of |-> ref]
SumOf(id) == [kind |-> "interface", of |-> id]

BInit ==
  /\ Init
  /\ phase = "wait" /\ next = 0 /\ op = NoOp /\ left = <<>>
  /\ naming = <<>> /\ fresh = {}
  /\ built = <<>> /\ types = <<>> /\ reserved = {} /\ refNames = <<>>
  /\ sums = <<>> /\ implements = {} /\ operations = <<>>
  /\ actions = {}

-----------------------------------------------------------------------------
Ident(name) == Go[name]

Plain(o) == [name |-> o.name, action |-> o.slot.action, channel |-> o.channel, messages |-> o.messages]
Reply(o) == [name |-> o.name \o "Reply", action |-> "send", channel |-> o.replyChannel,
             messages |-> o.replyMessages]

Takes(o) == actions = {} \/ o.slot.action \in actions
HasReply(o) == o.slot.action = "receive" /\ o.slot.reply # <<>>

\* The operations that pass the filter, then the replies of the receive
\* operations among them, as send operations of their own.
Due(i) ==
  IF i <= Len(api) THEN Takes(api[i]) ELSE Takes(api[i - Len(api)]) /\ HasReply(api[i - Len(api)])
ToBuild(i) == IF i <= Len(api) THEN Plain(api[i]) ELSE Reply(api[i - Len(api)])
Upcoming == {i \in next + 1..2 * Len(api) : Due(i)}

Start ==
  /\ phase = "wait" /\ stage = "accepted"
  /\ actions' \in Filters
  /\ phase' = "operation"
  /\ UNCHANGED <<vars, next, op, left, draft, storage, results>>

Fail ==
  /\ phase' = "failed"
  /\ UNCHANGED <<vars, next, op, left, draft, storage, results, actions>>

\* The name of the operation and of its channel are reserved.
BeginBuild ==
  \E i \in Upcoming :
    LET o == ToBuild(i) IN
    /\ phase = "operation" /\ \A j \in Upcoming : i <= j
    /\ op' = o /\ left' = o.messages
    /\ reserved' = reserved \cup {Ident(o.name), Ident(o.channel.name)}
    /\ next' = i /\ phase' = "message"
    /\ UNCHANGED <<vars, draft, built, types, refNames, results, actions>>

-----------------------------------------------------------------------------
(* Messages: the envelope, the payload and, as they are met, the schemas   *)
(* the payload refers to.                                                  *)

ReuseMessage ==
  /\ phase = "message" /\ left # <<>> /\ Head(left).id \in DOMAIN built
  /\ left' = Tail(left)
  /\ UNCHANGED <<vars, phase, next, op, draft, storage, results, actions>>

\* A payload of its own is a type next to the envelope.
OwnTypes(m) ==
  LET name == Ident(m.name) IN
  {[name |-> name, is |-> Envelope(m.id)]} \cup
  (IF m.payload.kind = "struct" THEN {[name |-> name \o "Payload", is |-> Payload(m.id)]} ELSE {})

BeginMessage ==
  LET m == Head(left)
      name == Ident(m.name)
  IN
  /\ phase = "message" /\ left # <<>> /\ m.id \notin DOMAIN built
  /\ IF name = empty THEN Fail
     ELSE /\ phase' = "naming" /\ naming' = m.payload.refs /\ fresh' = OwnTypes(m)
          /\ reserved' = reserved \cup {name, name \o "Payload", name \o "Headers"}
          /\ UNCHANGED <<vars, next, op, left, built, types, refNames, results, actions>>

\* nameSchemaRef: the first candidate that is free, else the default rule,
\* the last segment alone.  A schema that has its type is not made again.
Free(ref) == {i \in DOMAIN Tails[ref] : Tails[ref][i] \notin reserved}
Stored(ref) == \E n \in DOMAIN types : types[n] = Schema(ref)

KeepName(ref) ==
  /\ ref \in DOMAIN refNames \/ Free(ref) = {}
  /\ fresh' = fresh \cup
       (IF Stored(ref) THEN {}
        ELSE {[name |-> IF ref \in DOMAIN refNames THEN refNames[ref] ELSE Ident(ref),
               is |-> Schema(ref)]})
  /\ UNCHANGED <<reserved, refNames>>

TakeName(ref) ==
  /\ ref \notin DOMAIN refNames
  /\ \E i \in Free(ref) :
       LET name == Tails[ref][i] IN
       /\ \A j \in Free(ref) : i <= j
       /\ refNames' = Overlay([r \in {ref} |-> name], refNames)
       /\ reserved' = reserved \cup {name}
       /\ fresh' = fresh \cup {[name |-> name, is |-> Schema(ref)]}

NameRef ==
  /\ phase = "naming" /\ naming # <<>>
  /\ KeepName(Head(naming)) \/ TakeName(Head(naming))
  /\ naming' = Tail(naming)
  /\ UNCHANGED <<vars, phase, next, op, left, built, types, results, actions>>

CollideWithin ==  \* mutant: what was stored before is not looked up
  \E t, u \in fresh : t # u /\ t.name = u.name

\* saveType for all of them: refused when a name is taken or comes twice.
Collide ==
  \/ \E t \in fresh : t.name \in DOMAIN types
  \/ \E t, u \in fresh : t # u /\ t.name = u.name

FreshTypes == [n \in {t.name : t \in fresh} |-> (CHOOSE t \in fresh : t.name = n).is]

SaveMessage ==
  LET m == Head(left) IN
  /\ phase = "naming" /\ naming = <<>>
  /\ IF Collide THEN Fail
     ELSE /\ types' = Overlay(FreshTypes, types)
          /\ built' = Overlay([x \in {m.id} |-> Ident(m.name)], built)
          /\ left' = Tail(left) /\ phase' = "message"
          /\ UNCHANGED <<vars, next, op, draft, reserved, refNames, results, actions>>

-----------------------------------------------------------------------------
(* The end of buildOperation: several messages share an interface, and     *)
(* operations whose messages have the same names share that interface.     *)

SetKey(o) == [s \in {m.spec : m \in ToSet(o.messages)} |->
                Cardinality({i \in DOMAIN o.messages : o.messages[i].spec = s})]
Interface(o) == Ident(o.channel.name) \o "Message"
Envelopes(o) == {built[m.id] : m \in ToSet(o.messages)}
Several(o) == Len(o.messages) > 1

Conflict(o) == \E p \in ToSet(operations) : p.name = Ident(o.name)

Finished(o, iface) ==
  /\ operations' = Append(operations, [name |-> Ident(o.name), op |-> o, sum |-> iface])
  /\ phase' = "operation"
  /\ UNCHANGED <<vars, next, op, left, draft, built, reserved, refNames, actions>>

Ending == phase = "message" /\ left = <<>>

EndSingle ==
  /\ Ending /\ ~Several(op)
  /\ IF Conflict(op) THEN Fail
     ELSE Finished(op, empty) /\ UNCHANGED <<types, sums, implements>>

EndShared ==
  /\ Ending /\ Several(op) /\ SetKey(op) \in DOMAIN sums
  /\ IF Conflict(op) THEN Fail
     ELSE Finished(op, sums[SetKey(op)]) /\ UNCHANGED <<types, sums, implements>>

EndSumFirst ==  \* mutant: only the first message implements the interface
  LET iface == Interface(op) IN
  /\ Ending /\ Several(op) /\ SetKey(op) \notin DOMAIN sums
  /\ IF iface \in DOMAIN types \/ Conflict(op) THEN Fail
     ELSE /\ types' = Overlay([n \in {iface} |-> SumOf(op.name)], types)
          /\ implements' = implements \cup {<<built[op.messages[1].id], iface>>}
          /\ sums' = Overlay([x \in {SetKey(op)} |-> iface], sums)
          /\ Finished(op, iface)

EndSum ==
  LET iface == Interface(op) IN
  /\ Ending /\ Several(op) /\ SetKey(op) \notin DOMAIN sums
  /\ IF iface \in DOMAIN types \/ Conflict(op) THEN Fail
     ELSE /\ types' = Overlay([n \in {iface} |-> SumOf(op.name)], types)
          /\ implements' = implements \cup (Envelopes(op) \X {iface})
          /\ sums' = Overlay([x \in {SetKey(op)} |-> iface], sums)
          /\ Finished(op, iface)

EndBuild ==
  /\ phase = "operation" /\ Upcoming = {}
  /\ phase' = "built"
  /\ UNCHANGED <<vars, next, op, left, draft, storage, results, actions>>

BNext ==
  \/ Next /\ UNCHANGED gvars
  \/ Start \/ BeginBuild
  \/ ReuseMessage \/ BeginMessage \/ NameRef \/ SaveMessage
  \/ EndSingle \/ EndShared \/ EndSum \/ EndBuild

BSpec == BInit /\ [][BNext]_<<vars, gvars>> /\ WF_<<vars, gvars>>(BNext)

-----------------------------------------------------------------------------
(* Every message of an operation with several messages implements the      *)
(* interface its handler or publisher takes, except where another          *)
(* operation has different messages of the same names: the interface is    *)
(* looked up by names (generator.go:447).                                  *)
NamesakesElsewhere(o) ==
  \E p \in ToSet(operations) :
    SetKey(p.op) = SetKey(o) /\ {m.id : m \in ToSet(p.op.messages)} # {m.id : m \in ToSet(o.messages)}

SumsImplemented ==
  \A o \in ToSet(operations) :
    Several(o.op) /\ ~NamesakesElsewhere(o.op) =>
      \A e \in Envelopes(o.op) : <<e, o.sum>> \in implements

(* A name stands for one thing: no two messages, and no two schemas        *)
(* reached by reference, end up in one Go type, and the type a reference   *)
(* is given is the one stored under its name.                              *)
OneTypePerThing ==
  phase # "failed" =>
    /\ \A a, b \in DOMAIN built : a # b => built[a] # built[b]
    /\ \A a \in DOMAIN built : types[built[a]] = Envelope(a)
    /\ \A r, s \in DOMAIN refNames : r # s => refNames[r] # refNames[s]
    /\ phase # "naming" => \A r \in DOMAIN refNames : types[refNames[r]] = Schema(r)

BTypeOK ==
  /\ TypeOK
  /\ phase \in {"wait", "operation", "message", "naming", "built", "failed"}
  /\ \A p \in implements : p[1] \in DOMAIN types /\ p[2] \in DOMAIN types

=============================================================================
