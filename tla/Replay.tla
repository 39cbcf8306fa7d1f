------------------------------- MODULE Replay --------------------------------
(***************************************************************************)
(* What a replay promises: it plays the whole frames of the file one after *)
(* the other and goes back only to the first.                              *)
(***************************************************************************)
EXTENDS Integers

VARIABLES
    length,     \* whole frames of the file
    on,         \* a replay is open
    at          \* the frame played last, 0 before the first

vars == <<length, on, at>>

Init == length \in Nat /\ on = FALSE /\ at = 0

Open == on' = TRUE /\ at' = 0

Play == on /\ at < length /\ at' = at + 1 /\ UNCHANGED on

Rewind == on /\ at' = 0 /\ UNCHANGED on

Stop == on' = FALSE /\ UNCHANGED at

Next == UNCHANGED length /\ (Open \/ Play \/ Rewind \/ Stop)

Spec == Init /\ [][Next]_vars
=============================================================================
