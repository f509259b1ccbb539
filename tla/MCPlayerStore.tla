--------------------------- MODULE MCPlayerStore ----------------------------
(* Two accounts with two stashes each, and a connection that comes and     *)
(* goes and logs in to one after the other (the sessions share nothing but *)
(* the database, whose calls are whole); two grids that share a row; a     *)
(* ticket.                                                                 *)
EXTENDS PlayerStore, TLC

CONSTANTS i1, i2, i3, n1, n2

MCGrids == {{i1, i2}, {i2, i3}}

Alike ==
  UNION {Permutations(Sessions), Permutations(Accounts), Permutations(Stashes), Permutations({i1, i3})}
=============================================================================
