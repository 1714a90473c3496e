------------------------------ MODULE MCRedisPubSub ------------------------------
(* Two channels, with one pattern for the first and one for both. *)
EXTENDS RedisPubSub

CONSTANTS lamps, alarms, onlyLamps, everything

TwoChannels == {lamps, alarms}
TwoPatterns == {onlyLamps, everything}
Overlap == [p \in TwoPatterns |-> IF p = onlyLamps THEN {lamps} ELSE TwoChannels]

=============================================================================
