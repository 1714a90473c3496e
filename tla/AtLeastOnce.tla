------------------------------ MODULE AtLeastOnce ------------------------------
(***************************************************************************)
(* What the streams mode promises ("the durable at-least-once mapping",    *)
(* redis.go:37), without goroutines, reads, claims or batches: a message   *)
(* stays outstanding until a handler has processed it successfully or the  *)
(* runtime has given it up, and only such a message may be settled.        *)
(***************************************************************************)
CONSTANT Messages

VARIABLES
  published,    \* messages the publisher has stored
  outstanding,  \* messages the broker still owes to a handler
  handled,      \* messages some handler processed successfully
  givenUp       \* messages the runtime gave up (dead-lettered, when enabled)

vars == <<published, outstanding, handled, givenUp>>

Init == published = {} /\ outstanding = {} /\ handled = {} /\ givenUp = {}

Publish(m) ==
  /\ m \notin published
  /\ published' = published \cup {m}
  /\ outstanding' = outstanding \cup {m}
  /\ UNCHANGED <<handled, givenUp>>

\* A handler may succeed more than once, also on a message settled already.
Handle(m) ==
  /\ m \in published
  /\ handled' = handled \cup {m}
  /\ UNCHANGED <<published, outstanding, givenUp>>

GiveUp(m) ==
  /\ m \in published
  /\ givenUp' = givenUp \cup {m}
  /\ UNCHANGED <<published, outstanding, handled>>

Settle(m) ==
  /\ m \in outstanding /\ m \in handled \cup givenUp
  /\ outstanding' = outstanding \ {m}
  /\ UNCHANGED <<published, handled, givenUp>>

Next ==
  \E m \in Messages : Publish(m) \/ Handle(m) \/ GiveUp(m) \/ Settle(m)

Spec == Init /\ [][Next]_vars

================================================================================
