--------------------------- MODULE MCMatchmaking ----------------------------
(* Three sessions and squads of two: one squad fills while a third player   *)
(* waits out the window alone.                                              *)
EXTENDS Matchmaking
=============================================================================
