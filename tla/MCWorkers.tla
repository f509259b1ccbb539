------------------------------ MODULE MCWorkers ------------------------------
(* Two workers and batches of two.  Three receives: the third meets a      *)
(* drain that has had a full batch, and an exact batch is followed by an   *)
(* empty one.  One send, to keep the other worker busy.                    *)
EXTENDS Workers

MCMaxCompletions == [recv |-> 3, send |-> 1]
=============================================================================
