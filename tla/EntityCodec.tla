----------------------------- MODULE EntityCodec -----------------------------
(***************************************************************************)
(* The entity delta codec (netedict.cpp).                                  *)
(*                                                                         *)
(* Of the fields of a netedict the model keeps one of each way of coding:  *)
(* edflags, which decides whether a slot starts from a fresh state; one    *)
(* coordinate, sent as a difference; the animation fields, which have the  *)
(* forced update.  Every other field is coded the way seq is.              *)
(***************************************************************************)
EXTENDS Integers

Fields == {"flags", "pos", "seq", "rate", "frame"}

\* netedict::reset
Null == [flags |-> {}, pos |-> 0, seq |-> 0, rate |-> 0, frame |-> 0]

-----------------------------------------------------------------------------
(* One coordinate: nothing, 8 or 14 bits of difference, or all 32 bits *)

\* The value of the low bits of x read as a two's complement number; half is
\* the weight of the sign bit.
SignExtend(x, half) ==
    IF x % (2 * half) < half THEN x % (2 * half) ELSE (x % (2 * half)) - 2 * half

Between(d, limit) == -limit < d /\ d < limit

Bug_PosDelta(now, old) ==
    LET d == now - old
    IN  IF d = 0 THEN <<0, 0>>
        ELSE IF Between(d, 129) THEN <<1, d % 256>>
        ELSE IF Between(d, 2048) THEN <<2, d % 16384>>
        ELSE <<3, now>>

PosDelta(now, old) ==
    LET d == now - old
    IN  IF d = 0 THEN <<0, 0>>
        ELSE IF Between(d, 128) THEN <<1, d % 256>>
        ELSE IF Between(d, 2048) THEN <<2, d % 16384>>
        ELSE <<3, now>>

ReadPos(old, code) ==
    CASE code[1] = 0 -> old
      [] code[1] = 1 -> old + SignExtend(code[2], 128)
      [] code[1] = 2 -> old + SignExtend(code[2], 8192)
      [] code[1] = 3 -> code[2]

-----------------------------------------------------------------------------
(* The delta of one entity: the fields that changed.  An empty one is not  *)
(* written (EDELTA_NONE).                                                  *)

Fresh(state) == IF state.flags = {} THEN Null ELSE state

EdictDelta(now, base, force) ==
    LET old     == Fresh(base)
        changed == {f \in Fields : now[f] # old[f]}
                       \cup (IF force THEN {"frame"} ELSE {})
    IN  [f \in changed |->
            IF f = "pos" THEN PosDelta(now.pos, old.pos) ELSE now[f]]

Empty(delta) == DOMAIN delta = {}      \* EDELTA_NONE

\* A slot that was free starts from a fresh state when the delta fills it.
Start(old, delta) == IF "flags" \in DOMAIN delta THEN Fresh(old) ELSE old

ApplyDelta(old, delta) ==
    LET from == Start(old, delta)
    IN  [f \in Fields |->
            IF f \notin DOMAIN delta THEN from[f]
            ELSE IF f = "pos" THEN ReadPos(from.pos, delta.pos) ELSE delta[f]]

\* FL_DELTA_ANIM_CHANGED: what tells the player to restart its interpolation
AnimChanged(old, delta) ==
    LET from == Start(old, delta)
        new  == ApplyDelta(old, delta)
    IN  \E f \in {"seq", "rate", "frame"} : f \in DOMAIN delta /\ new[f] # from[f]
=============================================================================
