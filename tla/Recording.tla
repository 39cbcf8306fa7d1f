------------------------------ MODULE Recording ------------------------------
(***************************************************************************)
(* What a recording of states promises its reader: the states come back    *)
(* one after the other, each as it was recorded, from the first one again  *)
(* after a rewind.  What a state is and how it is coded is left to the     *)
(* implementations.                                                        *)
(***************************************************************************)
EXTENDS Naturals, Sequences

CONSTANT Unread     \* what a reader shows that has read nothing

VARIABLES
    log,        \* the states recorded
    cursor,     \* how many of them were read
    view        \* what the reader shows

Init == log = <<>> /\ cursor = 0 /\ view = Unread

Record ==
    /\ Len(log') = Len(log) + 1
    /\ \A i \in 1..Len(log) : log'[i] = log[i]
    /\ UNCHANGED <<cursor, view>>

Read ==
    /\ cursor < Len(log)
    /\ cursor' = cursor + 1
    /\ view' = log[cursor + 1]
    /\ UNCHANGED log

Rewind == cursor' = 0 /\ view' = Unread /\ UNCHANGED log

\* A new recording, which may already hold its first state.
Restart == Len(log') <= 1 /\ cursor' = 0 /\ view' = Unread

Next == Record \/ Read \/ Rewind \/ Restart

Spec == Init /\ [][Next]_<<log, cursor, view>>
=============================================================================
