------------------------------- MODULE RedisConfig -------------------------------
(***************************************************************************)
(* Which configurations the constructors of runtime/redis accept: what the *)
(* application, or the generated NewServer and NewClient, may ask for.     *)
(***************************************************************************)
EXTENDS Integers, Sequences

\* Go's zero string: what is not set.
empty == ""

\* The zero Mode means streams.
parseMode(m) == IF m = empty THEN "streams" ELSE m
KnownModes == {empty, "streams", "pubsub"}

\* NewConsumer: addresses, a group in streams mode, and a client or an address
\* to connect to.
ConsumerAccepts(c) ==
  /\ c.mode \in KnownModes
  /\ c.addresses # <<>>
  /\ parseMode(c.mode) = "streams" => c.group
  /\ c.client \/ c.addr

\* NewPublisher: MaxLen only trims streams.
PublisherAccepts(c) ==
  /\ c.mode \in KnownModes
  /\ parseMode(c.mode) = "pubsub" => c.maxLen <= 0
  /\ c.client \/ c.addr

=============================================================================
