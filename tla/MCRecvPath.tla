----------------------------- MODULE MCRecvPath -----------------------------
(* A buffer of 6 bytes and a 2-byte prefix.  The bodies make a packet that  *)
(* is only a prefix, one of 3 bytes, one that fills the buffer exactly, one *)
(* a byte too long, and one whose total passes the 16 values of the         *)
(* scaled-down prefix.                                                      *)
EXTENDS RecvPath

MCBodies == {0, 1, 4, 5, 15}
=============================================================================
