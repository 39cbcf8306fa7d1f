--------------------------- MODULE MCPlayerStates ---------------------------
(* Finite instances of PlayerStates. *)
EXTENDS PlayerStates

MCInputs ==
    {NoInput,
     [stance |-> {},       held |-> {"fire"}, punch |-> 2],
     [stance |-> {"duck"}, held |-> {},       punch |-> -1]}
=============================================================================
