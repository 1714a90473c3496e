------------------------------ MODULE MCConsumerRun ------------------------------
(* Configurations of no, one, two or three addresses for TLC. *)
EXTENDS ConsumerRun

CONSTANTS s1, s2, s3

ThreeStreams == {s1, s2, s3}
UpToThree == {<<>>, <<s1>>, <<s1, s2>>, <<s1, s2, s3>>}
Several == {<<s1, s2>>, <<s1, s2, s3>>}

=============================================================================
