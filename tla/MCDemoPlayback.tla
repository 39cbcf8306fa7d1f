--------------------------- MODULE MCDemoPlayback ---------------------------
(* Finite instances of DemoPlayback. *)
EXTENDS DemoPlayback

\* The limits of the 8 bit differences and of the sizes of the three headers.
MCGaps  == {255, 256}
MCSizes == {255, 65533}

MCOffsets == {-1, 0, 1}
=============================================================================
