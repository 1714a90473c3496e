-------------------------------- MODULE MCDispatch --------------------------------
(* Message shapes alone and in lists that overlap, and two topics. *)
EXTENDS Dispatch

CONSTANTS A, B, C

Overlapping == {<<A>>, <<A, B>>, <<B, C>>}
OneEach == {<<A>>, <<B>>}

=============================================================================
