--------------------------- MODULE EntityIndexing ---------------------------
(***************************************************************************)
(* Which slot a delta belongs to: the loops of DemoWriter::writeEntDeltas  *)
(* and DemoPlayer::readEntDeltas, one step per slot and per delta.  A      *)
(* delta is preceded by the offset of its slot from the one before, in 0,  *)
(* 4 or 8 bits, or by the whole index.                                     *)
(*                                                                         *)
(* fileDeltaBuffer has room for a full delta of every slot                 *)
(* (DemoWriter.cpp:21), so the writer does not overflow it.                *)
(***************************************************************************)
EXTENDS Integers, Sequences

CONSTANTS
    NumIndexes,     \* MAX_EDICTS
    Near,           \* offsets below it take 4 bits: 16
    Far             \* offsets below it take 8 bits: 256

ASSUME IndexAssumption ==
    /\ NumIndexes \in Nat
    /\ Near \in Nat /\ Far \in Nat /\ 2 < Near /\ Near < Far

VARIABLES
    slot,           \* i: the slot the writer is at
    offset,         \* distance from the last slot written
    entbuffer,      \* the index codes written; a delta follows each of them
    owners,         \* history: the slots they were written for
    fullIndex,      \* the reader's index
    updated,        \* the slots the reader updated, in order
    closed          \* the reader gave up: "Invalid delta wants to update"

writeVars == <<slot, offset, entbuffer, owners>>
readVars  == <<fullIndex, updated, closed>>
indexVars == <<writeVars, readVars>>

Indexes == 0..(NumIndexes - 1)

-----------------------------------------------------------------------------
Bug_EncodeIndex(dist, i) ==
    IF dist > Far THEN <<"full", i>>
    ELSE IF dist >= Near THEN <<"byte", dist % Far>>
    ELSE IF dist # 1 THEN <<"nibble", dist % Near>>
    ELSE <<"next", 0>>

EncodeIndex(dist, i) ==
    IF dist >= Far THEN <<"full", i>>
    ELSE IF dist >= Near THEN <<"byte", dist % Far>>
    ELSE IF dist # 1 THEN <<"nibble", dist % Near>>
    ELSE <<"next", 0>>

DecodeIndex(prev, code) ==
    CASE code[1] = "full" -> code[2]
      [] code[1] \in {"byte", "nibble"} -> prev + code[2]
      [] code[1] = "next" -> prev + 1

IndexInit ==
    /\ slot = 0
    /\ offset = 0
    /\ entbuffer = <<>>
    /\ owners = <<>>
    /\ fullIndex = 0
    /\ updated = <<>>
    /\ closed = FALSE

\* EDELTA_NONE: the index is taken back.
SkipSlot ==
    /\ slot < NumIndexes
    /\ slot' = slot + 1
    /\ offset' = offset + 1
    /\ UNCHANGED <<entbuffer, owners>>
    /\ UNCHANGED readVars

\* EDELTA_WRITE
Bug_OffsetAfterDelta == 0
OffsetAfterDelta == 1

WriteSlot ==
    /\ slot < NumIndexes
    /\ slot' = slot + 1
    /\ offset' = OffsetAfterDelta
    /\ entbuffer' = Append(entbuffer, EncodeIndex(offset, slot))
    /\ owners' = Append(owners, slot)
    /\ UNCHANGED readVars

ReadDelta ==
    /\ slot = NumIndexes /\ ~closed
    /\ Len(updated) < Len(entbuffer)
    /\ fullIndex' = DecodeIndex(fullIndex, entbuffer[Len(updated) + 1])
    /\ IF fullIndex' >= NumIndexes
       THEN closed' = TRUE /\ UNCHANGED updated
       ELSE updated' = Append(updated, fullIndex') /\ UNCHANGED closed
    /\ UNCHANGED writeVars

\* The next frame begins with index 0 on both sides.
NextFrame ==
    /\ slot = NumIndexes /\ (closed \/ Len(updated) = Len(entbuffer))
    /\ slot' = 0
    /\ offset' = 0
    /\ entbuffer' = <<>>
    /\ owners' = <<>>
    /\ fullIndex' = 0
    /\ updated' = <<>>
    /\ UNCHANGED closed

IndexNext == SkipSlot \/ WriteSlot \/ ReadDelta \/ NextFrame

IndexSpec == IndexInit /\ [][IndexNext]_indexVars

-----------------------------------------------------------------------------
(* Properties *)

\* DemoPlayer.cpp:486: the player updates the slots the writer wrote deltas
\* for, in that order, and never meets a slot out of range, whatever gaps lie
\* between them.
IndexesMatch ==
    /\ ~closed
    /\ Len(updated) <= Len(owners)
    /\ \A k \in 1..Len(updated) : updated[k] = owners[k]
=============================================================================
