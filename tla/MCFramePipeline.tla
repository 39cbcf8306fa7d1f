-------------------------- MODULE MCFramePipeline --------------------------
(* Finite instances of FramePipeline: two capture arrays, short enough to fill. *)
EXTENDS FramePipeline

MCKinds == {"msg", "evt"}
MCCap == [k \in Kinds |-> IF k = "msg" THEN 3 ELSE 2]
=============================================================================
