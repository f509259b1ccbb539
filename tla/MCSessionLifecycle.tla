------------------------- MODULE MCSessionLifecycle -------------------------
(* Two connections for a server of one player: the second comes while the  *)
(* first is being unregistered, and may be given its handle.               *)
EXTENDS SessionLifecycle
=============================================================================
