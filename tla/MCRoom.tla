------------------------------- MODULE MCRoom -------------------------------
(* A squad of two, one map, one enemy, and one resync.  The map is the one  *)
(* whose entry may be made again: what the others allow is among what it    *)
(* allows, and no action relates two maps but by clearing them in turn.     *)
EXTENDS Room, TLC

MCClearOrder == <<"doorStates">>

AnyPlayer == Permutations(Players)
=============================================================================
