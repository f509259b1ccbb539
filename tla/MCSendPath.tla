----------------------------- MODULE MCSendPath -----------------------------
(* A buffer of 5 bytes; packets of 1 to 3 bytes, so that two can be queued  *)
(* behind one in flight and the third needs the buffer compacted, and one   *)
(* of 6 bytes that never fits.                                              *)
EXTENDS SendPath

MCLengths == {1, 2, 3, 6}
=============================================================================
