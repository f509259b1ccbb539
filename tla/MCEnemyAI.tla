------------------------------ MODULE MCEnemyAI ------------------------------
EXTENDS EnemyAI

(* A closed yard with a free cell inside, free cells all around it and a     *)
(* crate on the way: the enemies come round crate and corner to the players, *)
(* who may slip into the yard, where nobody gets.                            *)
MCBoxes ==
  {<<2, 2, 2, 10>>, <<10, 2, 10, 10>>, <<2, 2, 10, 2>>, <<2, 10, 10, 10>>, <<19, 0, 19, 0>>}

MCPosts == {<<14, 10>>, <<6, 6>>}
MCSpawn == <<14, 10>>

MCRecords == {[pos |-> <<22, -3>>, health |-> 1, caller |-> TRUE]}

(* The bound of expansions is enough for this level.                         *)
ASSUME EnoughAssumption == SearchesEnd
=============================================================================
