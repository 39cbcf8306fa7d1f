---------------------------- MODULE DemoPlayback -----------------------------
(***************************************************************************)
(* The demo player: opening a file, playing its frames when they are due,  *)
(* seeking, changing the speed, stopping (DemoPlayer.cpp, and the commands *)
(* and hooks of main.cpp that call it).  What a frame does to the entities *)
(* is DeltaStream.                                                         *)
(*                                                                         *)
(* Times are milliseconds.  The file is written before the replay; its     *)
(* last frame may be cut off at any of the bytes where what the reader     *)
(* finds changes, as it is when the server crashed.                        *)
(***************************************************************************)
EXTENDS DemoFrames, Sequences, FiniteSets

CONSTANTS
    Gaps, Sizes,    \* milliseconds between frames, sizes of frames
    MaxFrames,      \* bound: frames of the file
    FirstFrame,     \* firstFrameOffset: the size of the file's header
    Ticks,          \* milliseconds between two server frames
    MaxClock,       \* bound: the last time of the server
    Offsets,        \* seconds that .replay and .seek are given
    Speeds,         \* what .speed is given, 1 among them; whole numbers only,
                    \* 0 and negative ones like any other
    MaxCommands,    \* bound: commands in a behaviour
    LastCommand,    \* bound: the last time of a command
    Reopening       \* whether .replay is used while a replay plays

ASSUME PlaybackAssumption ==
    /\ Gaps \subseteq Nat
    /\ \A size \in Sizes : size \in Nat /\ size > HeaderSize   \* empty frames are not stored
    /\ MaxFrames \in Nat \ {0} /\ FirstFrame \in Nat \ {0}
    /\ Ticks \subseteq Nat \ {0} /\ MaxClock \in Nat
    /\ Offsets \subseteq Int /\ Speeds \subseteq Int /\ 1 \in Speeds
    /\ MaxCommands \in Nat /\ LastCommand \in Nat
    /\ Reopening \in BOOLEAN

VARIABLES
    file,               \* the frames of the demo file
    fileSize,           \* bytes that reached the disk
    clock,              \* getEpochMillis
    commands,           \* commands given so far
    timer,              \* begin_replay: <<due, offsetSeconds>>, or <<>>
    playing,            \* replayData # NULL
    opened,             \* replayData->valid()
    crashed,            \* new char[] of an underflowed size failed
    pos,                \* replayData->tell()
    offsetSeconds, nextFrameOffset, replayStartTime, replaySpeed,
    lastFrameDemoTime, replayFrame,
    shown               \* history: the frame read last since the start, 0 for
                        \* none

fileVars == <<file, fileSize>>
playVars == <<playing, opened, crashed, pos, offsetSeconds, nextFrameOffset, replayStartTime,
              replaySpeed, lastFrameDemoTime, replayFrame, shown>>
vars     == <<fileVars, clock, commands, timer, playVars>>

\* Where the frames f of a file end, by their numbers.
Ends(f) ==
    LET end[j \in 0..Len(f)] == IF j = 0 THEN FirstFrame ELSE end[j - 1] + f[j].len
    IN  end

\* Where frame k begins; the end of the file for the one after the last.
OffsetOf(k) == Ends(file)[k - 1]

Boundaries == {OffsetOf(k) : k \in 1..(Len(file) + 1)}
FrameAt(offset) == CHOOSE k \in 1..(Len(file) + 1) : OffsetOf(k) = offset

-----------------------------------------------------------------------------
\* The file the writer leaves after n frames: a first keyframe at time 0, then
\* frames of any size and distance.
Times(n, gap) ==
    LET when[k \in 0..n] == IF k <= 1 THEN 0 ELSE when[k - 1] + gap[k]
    IN  when
Recording(n, gap, size, key) ==
    [k \in 1..n |->
        WrittenFrame(IF k = 1 THEN 0 ELSE gap[k], Times(n, gap)[k], size[k],
                     k = 1 \/ key[k])]

\* Where a file whose last frame f begins at offset may end: in its data, in a
\* field of its header, or after it.
Cuts(f, offset) ==
    {offset + f.len, offset + f.len - 1}
        \cup {offset + HeaderSize + j : j \in 0..FieldBytes(f.kind)}

Init ==
    /\ \E n \in 1..MaxFrames :
        \E gap \in [1..n -> Gaps], size \in [1..n -> Sizes], key \in [1..n -> BOOLEAN] :
            file = Recording(n, gap, size, key)
    /\ fileSize \in Cuts(file[Len(file)], OffsetOf(Len(file)))
    /\ clock = 0
    /\ commands = 0
    /\ timer = <<>>
    /\ playing = FALSE
    /\ opened = FALSE
    /\ crashed = FALSE
    /\ pos = 0
    /\ offsetSeconds = 0
    /\ nextFrameOffset = 0
    /\ replayStartTime = 0
    /\ replaySpeed = 1
    /\ lastFrameDemoTime = 0
    /\ replayFrame = 0
    /\ shown = 0

\* t: the position of the replay.  A position before the start (a rewind can
\* lead there, or a speed below 0) is a float out of range converted to an unsigned
\* number, which is undefined: the least or the greatest value.
Bug_ViewTimes == {clock * replaySpeed}
ViewTimes ==
    IF clock >= replayStartTime /\ replaySpeed >= 0
    THEN {(clock - replayStartTime) * replaySpeed}
    ELSE IF replaySpeed = 0 THEN {0} ELSE {0, 2147483647}

-----------------------------------------------------------------------------
(* The commands *)

Command ==
    /\ ~crashed
    /\ commands < MaxCommands /\ clock <= LastCommand
    /\ commands' = commands + 1

\* prepareDemo, with the offset of the last file opened.
Prepare(offset, position) ==
    /\ replayStartTime' = clock - offset * 1000
    /\ replayFrame' = 0
    /\ nextFrameOffset' = position

\* replay_demo: the old replay is prepared again, and half a second later the
\* file is opened; a timer that still runs is removed.
ReplayCommand(offset) ==
    /\ Command
    /\ ~Reopening => ~playing
    /\ offset >= 0
    /\ timer' = <<clock + 500, offset>>
    /\ Prepare(offsetSeconds, IF playing THEN pos ELSE 0)
    /\ UNCHANGED <<fileVars, clock, playing, opened, crashed, pos, offsetSeconds, replaySpeed,
                   lastFrameDemoTime, shown>>

\* begin_replay, openDemo: the old replay is closed; the new file is played
\* from its first frame, or is refused, or is not there.  In the last case the
\* stream without a file stays until it is read from.
BeginReplay ==
    /\ ~crashed
    /\ timer # <<>> /\ clock >= timer[1]
    /\ timer' = <<>>
    /\ offsetSeconds' = timer[2]
    /\ \/ /\ playing' = TRUE /\ opened' = TRUE
          /\ pos' = FirstFrame
          /\ Prepare(timer[2], FirstFrame)
          /\ shown' = 0
       \/ /\ playing' = FALSE /\ opened' = FALSE
          /\ UNCHANGED <<pos, nextFrameOffset, replayStartTime, replayFrame, shown>>
       \/ /\ playing' = TRUE /\ opened' = FALSE
          /\ pos' = 0
          /\ shown' = 0
          /\ UNCHANGED <<nextFrameOffset, replayStartTime, replayFrame>>
    /\ UNCHANGED <<fileVars, clock, commands, crashed, replaySpeed, lastFrameDemoTime>>

Bug_SeekStart == pos
SeekStart == FirstFrame

\* seek: forward by moving the start of the replay; back from the first frame.
Seek(start) ==
    /\ playing
    /\ replayStartTime' = start
    /\ IF start > replayStartTime
       THEN /\ pos' = SeekStart
            /\ nextFrameOffset' = SeekStart
            /\ lastFrameDemoTime' = 0
            /\ replayFrame' = 0
            /\ shown' = 0
       ELSE UNCHANGED <<pos, nextFrameOffset, lastFrameDemoTime, replayFrame, shown>>
    /\ UNCHANGED <<fileVars, clock, timer, playing, opened, crashed, offsetSeconds,
                   replaySpeed>>

SeekRelative(offset) == Command /\ Seek(replayStartTime - offset * 1000)

SeekAbsolute(offset) ==
    Command /\ offset >= 0 /\ Seek(clock - offset * 1000)

\* setPlaybackSpeed: the position stays, rounded down.  It also works on the
\* start time an earlier replay left.  After the speed 0 the position is 0; what a
\* quotient by 0 or a negative one, or a start that is still to come, make of the
\* unsigned time is undefined: the start stays, is now, or is far from now.
Far == 1000000
Starts(speed) ==
    IF speed # 0 /\ replaySpeed = 0 THEN {clock}
    ELSE IF speed > 0 /\ replaySpeed > 0 /\ clock >= replayStartTime
    THEN {clock - ((clock - replayStartTime) * replaySpeed) \div speed}
    ELSE {replayStartTime, clock, clock + Far}

SetSpeed(speed) ==
    /\ Command
    /\ replayStartTime' \in Starts(speed)
    /\ replaySpeed' = speed
    /\ UNCHANGED <<fileVars, clock, timer, playing, opened, crashed, pos, offsetSeconds,
                   nextFrameOffset, lastFrameDemoTime, replayFrame, shown>>

\* Changelevel, stopReplay
StopReplay ==
    /\ Command
    /\ playing' = FALSE /\ opened' = FALSE
    /\ UNCHANGED <<fileVars, clock, timer, crashed, pos, offsetSeconds, nextFrameOffset,
                   replayStartTime, replaySpeed, lastFrameDemoTime, replayFrame,
                   shown>>

-----------------------------------------------------------------------------
(* playDemo, one frame of its loop at a time *)

\* As if the file of a validated frame were still protected.
Bug_Close ==
    UNCHANGED <<playing, opened, crashed, pos, replayFrame>>

\* closeReplayFile
Close ==
    /\ playing' = FALSE /\ opened' = FALSE
    /\ UNCHANGED <<crashed, pos, replayFrame>>

\* frameSize -= headerSz wraps around, and an array of nearly 2^32 bytes is more
\* than the 32 bit server can allocate.
Crash ==
    /\ crashed' = TRUE
    /\ UNCHANGED <<playing, opened, pos, replayFrame>>

\* Each run of the loop reads a frame header.
Reading == ~crashed /\ playing

\* What lies at nextFrameOffset is not a header.  It reads as a frame that is
\* not due yet, or as one that cannot be read.  Bound: never as one that can.
ReadElsewhere ==
    /\ Reading /\ opened /\ nextFrameOffset \notin Boundaries
    /\ Close \/ Crash
    /\ UNCHANGED <<fileVars, clock, commands, timer, offsetSeconds,
                   nextFrameOffset, replayStartTime, replaySpeed,
                   lastFrameDemoTime, shown>>

\* "Unexpected EOF": also how every replay ends, and the end of a stream
\* without a file.
EndOfFile ==
    /\ Reading
    /\ opened => nextFrameOffset \in Boundaries /\ nextFrameOffset + HeaderSize > fileSize
    /\ Close
    /\ UNCHANGED <<fileVars, clock, commands, timer, offsetSeconds,
                   nextFrameOffset, replayStartTime, replaySpeed,
                   lastFrameDemoTime, shown>>

\* The header of a frame is there to be read, its fields perhaps in part.
HeaderThere ==
    /\ Reading /\ opened
    /\ nextFrameOffset \in Boundaries
    /\ nextFrameOffset + HeaderSize <= fileSize

Here == file[FrameAt(nextFrameOffset)]
SizeAt == nextFrameOffset + HeaderSize + TimeBytes(Here.kind)
Headers ==
    {[Here EXCEPT !.time = field[1], !.size = field[2]] : field \in
        FieldRead(Here.time, TimeBytes(Here.kind), fileSize - nextFrameOffset - HeaderSize)
            \X FieldRead(Here.size, SizeBytes(Here.kind), fileSize - SizeAt)}

headerSz == HeaderSize + FieldBytes(Here.kind)

Due(h, t) == FrameTime(h, lastFrameDemoTime) <= t
Whole(h)  == nextFrameOffset + h.size <= fileSize

\* A frame that is not due is read again in the next server frame.
Wait ==
    /\ HeaderThere
    /\ \E h \in Headers, t \in ViewTimes : ~Due(h, t)
    /\ pos' = IF nextFrameOffset + headerSz <= fileSize
              THEN nextFrameOffset + headerSz ELSE fileSize
    /\ pos' # pos
    /\ UNCHANGED <<fileVars, clock, commands, timer, playing, opened, crashed,
                   offsetSeconds, nextFrameOffset, replayStartTime, replaySpeed,
                   lastFrameDemoTime, replayFrame, shown>>

\* A frame that is due and whole is applied; what follows it in the file is
\* read in the same loop.  A message, event or command that cannot be applied
\* ends the loop for this server frame but the next frame is still the one
\* after this.
ReadFrame ==
    /\ HeaderThere
    /\ \E h \in Headers, t \in ViewTimes :
          /\ Due(h, t)
          /\ h.size >= headerSz /\ Whole(h)
          /\ lastFrameDemoTime' = FrameTime(h, lastFrameDemoTime)
          /\ nextFrameOffset' = nextFrameOffset + h.size
    /\ pos' = nextFrameOffset'
    /\ shown' = FrameAt(nextFrameOffset)
    /\ replayFrame' \in {replayFrame, replayFrame + 1}
    /\ UNCHANGED <<fileVars, clock, commands, timer, playing, opened, crashed,
                   offsetSeconds, replayStartTime, replaySpeed>>

\* A frame whose size ("Invalid frame size") or data ("Unexpected EOF") is cut
\* off is not applied; the rest of a size that is below that of its header leads to
\* an array of nearly 2^32 bytes.  (One that is the header's size ends the replay
\* with the next header, behind the end of the file.)
ReadCutOff ==
    /\ HeaderThere
    /\ \E h \in Headers, t \in ViewTimes :
          /\ Due(h, t)
          /\ h.size < headerSz \/ ~Whole(h)
          /\ lastFrameDemoTime' = FrameTime(h, lastFrameDemoTime)
          /\ \/ /\ h.size = 0 \/ h.size >= headerSz
                /\ Close
                /\ nextFrameOffset' = nextFrameOffset + h.size
             \/ /\ h.size # 0 /\ h.size < headerSz
                /\ Crash
                /\ UNCHANGED nextFrameOffset    \* history: where it crashed
    /\ UNCHANGED <<fileVars, clock, commands, timer, offsetSeconds,
                   replayStartTime, replaySpeed, shown>>

PlayDemo == ReadElsewhere \/ EndOfFile \/ Wait \/ ReadFrame \/ ReadCutOff

\* The server's time moves on after timers that are due have run and the loop
\* has found nothing more to do.
Tick ==
    /\ ~crashed
    /\ \E d \in Ticks : clock + d <= MaxClock /\ clock' = clock + d
    /\ playing => \/ HeaderThere /\ \E h \in Headers, t \in ViewTimes : ~Due(h, t)
                  \/ opened /\ nextFrameOffset \notin Boundaries
    /\ timer # <<>> => clock < timer[1]
    /\ UNCHANGED <<fileVars, commands, timer, playVars>>

Next ==
    \/ \E offset \in Offsets :
            ReplayCommand(offset) \/ SeekRelative(offset) \/ SeekAbsolute(offset)
    \/ \E speed \in Speeds : SetSpeed(speed)
    \/ BeginReplay
    \/ StopReplay
    \/ PlayDemo
    \/ Tick

Spec == Init /\ [][Next]_vars

\* The engine runs its frames and timers, and every frame plays what is due.
LiveSpec == Spec /\ WF_vars(Tick) /\ WF_vars(PlayDemo) /\ WF_vars(BeginReplay)

-----------------------------------------------------------------------------
(* Properties *)

\* Every variable keeps its type; the offsets stay inside the file.
TypeOK ==
    /\ shown \in 0..Len(file)
    /\ playing \in BOOLEAN
    /\ replaySpeed \in Speeds
    /\ replayFrame \in 0..MaxFrames * (MaxCommands + 1)
    /\ lastFrameDemoTime \in Nat
    /\ {pos, nextFrameOffset} \subseteq 0..OffsetOf(Len(file) + 1)

\* DemoFile.h:181, a file is a header and frames: the player reads a frame
\* header only where one was written, so each size in the file leads to the
\* next frame.  A replay that another is opened over loses its place for the
\* half second until the new one is open (DemoPlayer.cpp:375), never longer.
AlignedOnceOpen ==
    opened /\ timer = <<>> /\ ~crashed => nextFrameOffset \in Boundaries

\* The time the player takes a frame for is the time it was recorded, whatever
\* mix of absolute times and 8 bit differences led to it.
TimeMatches ==
    playing /\ ~crashed /\ shown > 0 => lastFrameDemoTime = file[shown].real

\* No frame is played before the replay has got to the time it was recorded.
NeverEarly ==
    [][ReadFrame /\ clock >= replayStartTime /\ replaySpeed >= 0 =>
        file[shown'].real <= (clock - replayStartTime) * replaySpeed]_vars

\* The player implements Replay: it plays all whole frames in order, and
\* nothing of a frame that was cut off.
WholeFrames ==
    Cardinality({k \in 1..Len(file) : OffsetOf(k) + file[k].len <= fileSize})

Order == INSTANCE Replay WITH length <- WholeFrames, on <- playing, at <- shown
PlaysInOrder == Order!Spec

\* Every replay ends, at its last frame if no command ends it before, unless its
\* speed is set to 0 or less (main.cpp:613, which checks nothing), where it may
\* wait for ever, or the server crashes.
ReplayEnds == playing ~> (~playing \/ crashed \/ replaySpeed <= 0)

\* Of the files a crash of the recording server leaves, those that end inside the
\* size field of a header can crash the server that plays them (DemoPlayer.cpp:
\* 1994); no frame that is whole, or cut elsewhere, can, while the player has not
\* lost its place.
OnlyCutSizesCrash ==
    crashed =>
        \/ nextFrameOffset \notin Boundaries
        \/ SizeAt < fileSize /\ fileSize < SizeAt + SizeBytes(Here.kind)
=============================================================================
