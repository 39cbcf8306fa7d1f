---------------------------- MODULE MCClassNames ----------------------------
(* Finite instances of ClassNames: a pool that holds one or two names. *)
EXTENDS ClassNames

MCNames == {"a", "bb"}
MCLength == [n \in Names |-> IF n = "a" THEN 1 ELSE 2]
=============================================================================
