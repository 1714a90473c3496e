---------------------------- MODULE MCRedisStreams ----------------------------
(* RedisStreams on small instances: the consumers are interchangeable.       *)
EXTENDS RedisStreams, TLC

Symmetry == Permutations(Consumers)

===============================================================================
