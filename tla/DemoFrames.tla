----------------------------- MODULE DemoFrames ------------------------------
(***************************************************************************)
(* The headers of the frames of a demo file: how DemoWriter::writeDemoFile *)
(* codes the time and the size of a frame, and how                         *)
(* DemoPlayer::readDemoFrame decodes them.                                 *)
(***************************************************************************)
EXTENDS Integers

HeaderSize == 2         \* sizeof(DemoFrame), part of every size

\* The bytes of time and size that follow the header.
TimeBytes(kind) == IF kind = "giant" THEN 4 ELSE 1
SizeBytes(kind) ==
    CASE kind = "giant" -> 4
      [] kind = "big"   -> 2
      [] kind = "small" -> 1
FieldBytes(kind) == TimeBytes(kind) + SizeBytes(kind)

Bug_HeaderKind(gap, size, key) ==
    IF gap > 255 \/ size > 65535 - 3 \/ key THEN "giant"
    ELSE IF size > 255 THEN "big"
    ELSE "small"

\* size is currentWriteSz before the fields are added.
HeaderKind(gap, size, key) ==
    IF gap > 255 \/ size > 65535 - 3 \/ key THEN "giant"
    ELSE IF size > 255 - 3 THEN "big"
    ELSE "small"

\* As if the size were taken before the fields of the header are added to it.
Bug_SizeField(kind, total) == total - FieldBytes(kind)

\* What remains of a size in its field; 32 bits hold any.
SizeField(kind, total) ==
    CASE kind = "giant" -> total
      [] kind = "big"   -> total % 65536
      [] kind = "small" -> total % 256

\* A frame of size bytes, gap milliseconds after the last one written and now
\* milliseconds after the start of the recording.
WrittenFrame(gap, now, size, key) ==
    LET kind  == HeaderKind(gap, size, key)
        total == size + FieldBytes(kind)
    IN  [kind |-> kind,
         time |-> IF kind = "giant" THEN now ELSE gap % 256,
         size |-> SizeField(kind, total),
         real |-> now,              \* history: the time it was written
         len  |-> total]            \* history: the bytes it takes

Low(x, n) ==
    CASE n = 1 -> x % 256
      [] n = 2 -> x % 65536
      [] n = 3 -> x % 16777216

\* What a read of a field of w bytes leaves in its variable, set to 0 before, where
\* n are left in the file.  The reader does not look at the result (DemoPlayer.cpp:
\* 1951-1963); whether the stream hands out a part is not in the repository.
FieldRead(x, w, n) ==
    IF n >= w THEN {x} ELSE IF n <= 0 THEN {0} ELSE {0, Low(x, n)}

Bug_FrameTime(f, last) ==
    IF f.kind # "small" THEN f.time ELSE last + f.time

\* demoTime, for a player that read a frame of time last before.
FrameTime(f, last) ==
    IF f.kind = "giant" THEN f.time ELSE last + f.time
=============================================================================
