---------------------------- MODULE MCDeltaStream ----------------------------
(* Finite instances of DeltaStream, whose entities are plain models. *)
EXTENDS DeltaStream

Valid     == {"valid"}
MCGeneric == {Valid}
=============================================================================
