# SvenTV in TLA+

SvenTV is a game-server plugin. It records what the clients of a game see into
a demo file, and plays such a file back on a server. This directory models it:
TLA+ modules, TLC runs on small instances, and proofs checked by TLAPS.

`PROJECT.json` lists the runs, the code each definition stands for, the hazards
and the findings. References such as `DemoWriter.cpp:641` are to the sources in
`src/src`.

## The system

| Component | State | Operations | Works with |
|---|---|---|---|
| Capture hooks and commands (`main.cpp`) | arrays of messages, commands, events and their counts; `g_can_autostart_demo`; string pool | `MessageBegin/End`, `ClientCommand`, `PlaybackEvent`, `Changelevel`, `MapInitHook`, `StartFrameHook`, `demo` and `replay` commands | the recorder reads the arrays; commands switch `enableDemoFile` and call the player |
| Recorder (`SvenTV.cpp`) | `edictCopyState`, `FrameData`, `enableDemoFile` | `think_mainThread`, `think_tvThread` | writer, UDP server; in the mode with threads it shares the frame with the server thread |
| Writer (`DemoWriter.cpp`) | the open file, `fileedicts`, times of the next frame and keyframe, the compression thread | `initDemoFile`, `writeDemoFile`, `closeDemoFile`, `compressDemo` | sends ambient sounds back through the hooks |
| Entity deltas (`netedict.cpp`) | one state per slot, `forceNextFrame` | `load`, `writeDeltas`, `readDeltas`, `reset` | writer, player, UDP server |
| Player deltas (`DemoPlayerEnt.cpp`) | one state per player | `writeDeltas`, `readDeltas` | writer, player |
| Format (`DemoFile.cpp/h`) | | frame headers, records of messages, commands, events | writer, player |
| Player (`DemoPlayer.cpp`) | the open file, its next offset, start time, speed, `fileedicts`, the entities made for the replay | `openDemo`, `playDemo`, `seek`, `setPlaybackSpeed`, `stopReplay` | timers and commands of `main.cpp`, the engine's entities |
| UDP server (`SvenTV.cpp`, `NetClient.cpp`) | per client: baseline and its id, updates sent | connect, reset, acknowledgement, `broadcastEntityStates`, timeout | clients, which are not in the repository |
| Compression (`lzma.cpp`) | | `lzmaCompress` | a thread started by `closeDemoFile` |
| Statistics (`DemoStats.cpp`) | counters | text on the screen | its `frameCount` triggers the ambient sounds |

Hard to test are: the order in which hooks, engine frames, the update delay and
(with threads) the recorder follow one another, and the calls that build a message
in both threads; two reads of the clock in one pass; states of writer and reader that must agree across keyframes, skipped
frames, new files and seeks; header and code widths at their limits; files that
a crash cut off; the compression thread against the next recording; commands
during a replay; acknowledgements that are lost, late or repeated. `hazards` in
`PROJECT.json` has each at its line.

What makes each component correct:

- hooks and recorder: a captured item is recorded once, in the demo of its map,
  unless its array was full; a stopped recording is closed and stays stopped;
- writer, deltas, format and player: the player has, after each frame, the
  states that were recorded, at the time they were recorded, frame after frame;
- files: no recording is lost; what a crash left can be told;
- UDP server: client and server agree on the state a delta starts from.

## Modules

| Module | Models | Used by |
|---|---|---|
| `FramePipeline` | hooks, recorder and the writer's view of items | `MCFramePipeline`, `FramePipelineProofs` |
| `EntityCodec` | the delta of one entity and of one coordinate | `DeltaStream`, `DeltaServer` |
| `DeltaStream` | entity states from the game through a file to the player | `MCDeltaStream`, `DeltaStreamProofs` |
| `EntityIndexing` | which slot a delta belongs to | `DeltaStreamProofs` |
| `DemoFrames` | headers of frames: kind, time, size | `DemoPlayback` |
| `DemoPlayback` | the player and its commands | `MCDemoPlayback`, `DemoPlaybackProofs` |
| `Replay` | abstract: what a replay promises | `DemoPlayback` |
| `Recording` | abstract: what a recording of states promises its reader | `PlayerStates` |
| `PlayerStates` | player states from the hooks through a file to the player | `MCPlayerStates`, `PlayerStatesProofs` |
| `ClassNames` | the string pool and the offsets that entities and files keep | `MCClassNames`, `ClassNamesProofs` |
| `ReplayEntities` | entities and bots that a replay makes in the game | `MCReplayEntities`, `ReplayEntitiesProofs` |
| `DeltaServer` | UDP server, one client, the network between | `DeltaServerProofs` |
| `DemoFiles` | names and life of demo files, compression, crashes | `DemoFilesProofs` |

**FramePipeline.** `buf` and `count` are the capture arrays; `pcMain` and `pcTv`
say where the server thread and the recorder are. A pass of the recorder is
several actions (`TvLoad`, `TvOpen`, `TvWrite` and the early returns), so that
in the mode with threads every interleaving occurs. `SingleThread` selects
between `singleThreadMode`, which the build sets (main.cpp:48) and where the
frame is the arrays themselves, and the other mode, where it is a copy.
`Tick` is the update delay that elapses, also between the two tests of the
clock in one pass. With threads, the calls that build a message are steps of their
own in both: the hooks on the server thread (`MessageBegin` to `MessageStore`) and
the recorder's ambient sounds (`TvAmbients` to `AmbientStore`), which fill the same
array without a lock. `own` is the count as a thread has read it in `MessageEnd`,
before it stores it increased by one. An item is a number, and `-x` in the array
the message x that is not complete. `file`, `again`, `older`, `dropped`, `recStart`,
`mapStart`, `copies`, `overlapped` and `raced` are history.

**EntityCodec, DeltaStream.** An entity has a set of flags, a position, a
sequence, a frame rate and a frame; the other groups of fields are coded in the
same way as one of these. `ThinkOnly` and `ThinkAndWrite` are passes of the
recorder without and with a written frame, `base` is the writer's `fileedicts`,
`pl` the player's. A frame keeps the states it was made from as history.

`PlayerStates` implements `Recording`: a log that grows, a cursor and what the
reader shows. It does not mention deltas, keyframes or the writer's base, which is
what the implementation must get right. `DeltaStream` says the same of entities in
one invariant, `PlaybackMatches`.

**PlayerStates.** `live` is `g_demoplayers`, `base` and `pl` the states of writer
and player. `StartFrameHook` is one server frame of the build's single thread
mode: buttons are gathered, players checked once a second (`pings`), the state
is loaded, perhaps written, and the buttons released. The clock's two tests
(`early`, `late`) are independent but for their order. A player has flags,
buttons, one punch angle and one ordinary field.

**ClassNames.** A handle (`string_t`) means a name on one map; each map gives the
handles 1 to `NumHandles` any names, those of the map before or others. `known` and
`pool` are the plugin's, `slots` the offsets cached in `netedict`, `disk` the pool in the
file, which is written after the frame that may need it; `Crash` can come
between. `stale` is history: the slots with a handle that an earlier map gave out.

**ReplayEntities.** `recorded` is the player's `fileedicts`, `infos` its players,
`ents` what the replay made in the game and `h_ent` the handles. `Simulated` is
the loop of `simulate`, slot after slot: conversion, state, interpolation. An
entity that is removed by `UTIL_Remove`, or kicked, is `going` until the end of
the server frame. `PrepareAnother` is what a replay command does to a replay that
is playing: `clearMapForPlayback` is true (DemoPlayer.h:102), so `prepareDemo`
removes every edict with a name from that of the last client on
(DemoPlayer.cpp:337-345). These are all models and beams, and the last client's
own, which may be a bot; its client stays connected (`ghosts`). A beam has two
ends, at slots before it, after it, or its own, and is a sprite or not; the others
are hidden (DemoPlayer.cpp:841-844). `plain`, `made`, `reused` and `missed` are
history. `Scenes` bounds what frames record in the run; the proofs take any set of
them. Frames have arbitrary contents: `DeltaStream` and
`PlayerStates` show that contents are read right, this module what is made of
them. Player slots hold players only (SvenTV.cpp:475), so the branches that
kick a bot out of a slot of another kind cannot be reached.

**EntityIndexing.** The loops of `writeEntDeltas` and `readEntDeltas`, one slot
and one delta per action.

**DemoFrames, DemoPlayback.** The file is a sequence of frames whose recorded
sizes and times are those that fit in the header's fields. Its last frame may be cut
off at any byte of its header or in its data. The reads of the fields are not
checked (DemoPlayer.cpp:1951-1963): of a field that is cut off the player gets
nothing or a part, either of which the model allows, since the stream's code is not
in the repository. A size that is smaller than its header underflows
(DemoPlayer.cpp:1994), and the allocation that follows is a crash. A file that
cannot be opened leaves a stream without a file behind (DemoPlayer.cpp:163-166):
`playing` without `opened`. `PlayDemo` is one round of the loop of `playDemo`. A frame is what the
sizes lead to, so a wrong size leads the model, as the code, elsewhere. Speeds are
whole numbers, 0 and negative ones included.

**DeltaServer.** `frame` changes between updates; each update is cut into
packets. The network loses any packet or acknowledgement, delivers it out of order
and up to `Window` updates late, and acknowledgements more than once (`MaxCopies`).
The client is external: it does what the comments in NetClient.h ask of it, may
send fewer bits than there are packets, and may discard states it does not need.
`astray` is history: whether one of three things happened, since the client last
began, by which the agreement on the baseline is lost.

**DemoFiles.** `disk` maps paths to recordings. Compression is two steps, the
file it writes and the removal of the other, since the next recording looks for
a name in between. A compression can fail and a crash can interrupt it.

## Runs

| Run | Shows | Bounds, and why they suffice |
|---|---|---|
| `pipeline_single` | no item lost, one map per file, no restart after a stop, files closed, items written; items repeated by older counts only; nothing of the map before from the second copy on | arrays of 3 and 2, so that they fill; 2 items; 2 maps, so that a file can outlive one |
| `pipeline_multi` | exclusive handoff; no item lost or repeated, whatever the order of the calls in the two threads | the same on one map with a thread; one ambient message, sent in the first frame, which is enough for it to meet each call of a captured one. Two maps are too many states; the proofs have any number |
| `entity_indexes` | each delta finds its slot | 9 slots, limits 3 and 5 in place of 16 and 256: all gaps around both |
| `stream_states` | the player has the recorded states | 3 changes, so that a slot is filled, freed and filled again; 2 frames; a move of 128, the first that 8 bits do not hold |
| `stream_resets` | finding: a restarted animation can be lost | 4 changes |
| `playback` | frames are found and timed right, order of frames (implements `Replay`), nothing early, every replay ends, only sizes that are cut off crash the server | 3 frames; sizes at limits of the headers, gaps on both sides of 8 bits; whole files, and cuts at every byte of the last header and in its data; speeds 0, 1, 3; 2 commands, replays opened over others and files that are not there included |
| `player_states` | players are read back as recorded (implements `Recording`); punch angles bounded; no press lost; who is shown is there | 1 player slot, 3 inputs, 2 identities, so that a slot changes hands; 3 steps of the game between frames; 2 frames |
| `class_names` | each entity of each frame has its own name or none; none only when the pool is full | a pool of 6 that two of the names fill; 2 handles on 2 maps, so that a handle comes back with the same name and with another; 5 changes |
| `replay_entities` | the game shows what is recorded, each entity owned, dressed, attached and placed; nothing is left behind; crashes only when the server is full | a player and two other slots, five scenes in any order: monsters that move, beams at each side of what they start or end at; 5 edicts, so that entities that leave are still there; one client slot, so that it can be taken; 2 positions; looks 0 and another |
| `server_baselines` | client and server agree on the baseline but for three ways; ids name one update | 2 entities in packets of one; 5 updates, ids modulo 4 from 3 on, so that they wrap and pass 0; history of 2, 1 think left out; messages one update late, 1 copy; 2 connections or resets |
| `server_late_acks` | finding: acknowledgements that come one update late send the baseline to and fro for ever | 1 entity that moves once, updates without end |
| `files_kept` | recordings stay; the open file keeps its name; missing ends tell crashes | 4 recordings, 2 crashes, 2 changes of the settings |

The run of `ReplayEntities` is bounded by its scenes and not in its length; it uses
the symmetry of edicts, which the properties do not tell apart. Sizes: 4.5 million
states for `pipeline_multi`, 1.7 million for `server_baselines`, 0.8 million for
`playback`, 145 thousand for `pipeline_single`, 67 thousand for `replay_entities`.

Runs of `DemoPlayback`, `DeltaServer`, `DemoFiles`, `PlayerStates` and `ClassNames` do
not check deadlock, since behaviours stop where a bound (`MaxClock`, `MaxUpdates`,
`MaxRecordings`, `MaxFrames`) does; nor does that of `ReplayEntities`, where the
server can crash.

### Restrictions of the runs

Some properties hold only while something does not happen. Where a constant
names it, TLC refutes the property when it does; elsewhere the property leaves
the case out, and is refuted without the exception:

- `NoItemLost` in single thread mode takes `Ambients = 0`. With ambient sounds
  on the map, `initAmbientSounds` overwrites the first messages of the fifth
  frame (DemoWriter.cpp:641; `g_netmessage_count` is 0 again at SvenTV.cpp:113).
- With a recorder thread, `NoItemLost` leaves out `overlapped`, the messages captured
  in part while ambient sounds were sent, and `AtMostOnce` the behaviours that
  `raced`, in which the server thread touched the messages meanwhile. Both threads
  fill `g_netmessages[g_netmessage_count]` without a lock (main.cpp:398-455,
  DemoWriter.cpp:547-605): one overwrites the other's message, or counts it up with
  an index that is no longer its own.
- `RepeatsFromOlder` admits items that a write with older counts put into the file.
  A pass that was not due at SvenTV.cpp:87 and is due at DemoWriter.cpp:632 writes
  the counts of the last copy, in any frame. A pass without recording leaves
  `edictCopyState` finished (SvenTV.cpp:572-580), so that the first frame of the next
  recording is written with older counts as well (SvenTV.cpp:131). SvenTV.cpp:86
  says that the mode "must use new data immediately".
- `OldMapItems` begins with the second copy made on a map. `Changelevel` empties the
  messages only (main.cpp:153): commands and events of the old map wait for the
  next file, and are in the first copy and what is written from it.
- `NoAutoRestart` is about stops by `demo` and by failures. `replay_demo` ends a
  recording and leaves autostart possible (main.cpp:573).
- `AlignedOnceOpen` leaves out the half second between a replay command and its
  timer. `prepareDemo` runs at once, on a replay that may still be playing, and
  sets its offset to wherever its stream is (main.cpp:567, DemoPlayer.cpp:375),
  which after a frame that was not due is inside that frame. `OnlyCutSizesCrash`
  leaves out the player that lost its place in this way.
- `ReplayEnds` leaves out replays at a speed of 0 or less, which never get to their
  next frame (`.speed` takes any number, main.cpp:613-617), and crashes.
- `NamesRight` and `NamedIfRoom` leave out `stale` slots. A slot looks its name up
  only when the handle changes (netedict.cpp:245), and a new map empties the
  pool (main.cpp:178): where a map gives out a handle that the slot has already, the
  slot keeps an offset into the old pool.
- `NoStrays` is about entities without a slot. The converse need not hold:
  `PrepareAnother` can take the entity of a client that stays connected.
- `OnlyFullServersCrash` is weak on purpose: on a full server a player who is
  first seen with a state that is already read has no entity when the bot
  cannot be made, and DemoPlayer.cpp:686 uses it before 688 tests it.
- `BotsLookRight` leaves out `plain` players, whose look has been 0 since their state
  was cleared. A delta leaves out what is 0, also after a keyframe or a rewind, and
  a bot keeps its colors (DemoPlayer.cpp:981).
- `MonstersPlaced` leaves out monsters that moved last in a frame that was read but not
  simulated. `BeamsAttached` leaves out the ends at later slots that got another
  entity in the same frame: the beam was attached to the one before, and finds the
  new one a frame later. `ShownRight` and `BeamsAttached` leave out `reused` slots,
  which were emptied and filled again within one server frame: they get the entity
  that is being removed, and lose it (DemoPlayer.cpp:812).
- `BaselineAgrees` leaves out `astray`. An acknowledgement adds differences to the
  baseline of now, whichever they were made from (SvenTV.cpp:170); one with too few
  bits leaves packets out of the baseline (SvenTV.cpp:165); when ids wrap around,
  an update can go out as 0, which also means that there is no baseline, or with
  the id of the baseline (SvenTV.cpp:589). The first is what a round trip longer than
  an update leads to (1/60 s, NetClient.h:38), and the finding of
  `server_late_acks`. Nothing in the repository sets `enableServer`.
- `RecordingOnDisk` and `EndTimeTellsCrash` take `MidRecording = FALSE`: auto mode that
  is set during a recording of a fixed name has that file compressed, and the next
  recording may open it meanwhile (DemoWriter.cpp:863). `RecordingsKept` does not
  need it.

Seen while modelling, and not in a property: an absolute seek at speed s leads
to s times the position it announces (DemoPlayer.cpp:2408); `load` keeps the
flags of the entity that had a slot before (netedict.cpp:166); `renderfx` is cut
with 0x31 (netedict.cpp:132); slots from `maxClients + 1` to 32 are never
recorded (SvenTV.cpp:475); when a replay closes, names of real players are set
back only if the first one's was changed, and then all are (DemoPlayer.cpp:442);
`writePings` takes the pings of all bots from the replay's players, also of bots
that are not the replay's (DemoPlayer.cpp:572); the destructor of `SvenTV` frees
what the recorder's thread uses before it joins it (SvenTV.cpp:42).

### Fairness

- `FramePipeline`: the engine calls `StartFrameHook` frame after frame and loads
  maps, the recorder thread is scheduled (weak fairness); the update delay
  elapses again and again between two frames (strong fairness of `Tick` there,
  since each written frame starts it anew). Players' commands have none.
- `DemoPlayback`: server frames, timers and the loop of `playDemo` go on (weak).
- `DeltaServer`, for `server_late_acks` only: updates are sent (weak); of the packets
  of a number, and of the acknowledgements, some arrive again and again (strong).
  This excludes the counterexamples in which the network delivers nothing.

## Proofs

Every invariant, action property and refinement that a passing run checks is also proved,
for every value of the constants that the modules' assumptions and the hypothesis
in the table admit. Bounds such as `MaxItems` remain parameters of the theorems.

| Theorem | States | Under | Inductive invariant |
|---|---|---|---|
| `FramePipelineProofs!TypesCorrect`, `HandoffIsExclusive` | `TypeOK`, `HandoffExclusive` | | `HandoffInv` |
| `FramePipelineProofs!NothingLost` | `NoItemLost` | single-threaded: no ambient sounds | `HandoffInv`, `KeptInv`, `WholeInv` |
| `FramePipelineProofs!OneMap`, `StaysStopped` | `OneMapPerFile`, `NoAutoRestart` | `SingleThread` | `PassInv` |
| `FramePipelineProofs!WrittenOnce` | `AtMostOnce` | `~SingleThread` | `HandoffInv`, `WholeInv`, `OnceInv` |
| `FramePipelineProofs!OnlyOlderRepeats`, `OldItemsGone` | `RepeatsFromOlder`, `OldMapItems` | `SingleThread` | `HandoffInv`, `AgeInv`, `RepeatInv` |
| `DeltaStreamProofs!PlaybackIsFaithful` | `PlaybackMatches` | | `Inv` |
| `DeltaStreamProofs!StreamTyped` | `TypeOK` | | `TypeInv` |
| `DeltaStreamProofs!CoordinateRoundTrip` | a coordinate is read back from its delta | | |
| `DeltaStreamProofs!SlotsFound` | `EntityIndexing!IndexesMatch` | | `IndexInv` |
| `DemoPlaybackProofs!SizesReadBack`, `TimesReadBack` | size and time of a frame are read as they were written | | |
| `DemoPlaybackProofs!PlayerStaysAligned`, `FramesAreTimed`, `NoFrameIsEarly`, `OnlyCutFilesCrash` | `AlignedOnceOpen`, `TimeMatches`, `NeverEarly`, `OnlyCutSizesCrash` | | `PlayInv` |
| `DemoPlaybackProofs!PlayerImplementsReplay` | refines `Replay` | | `PlayInv` |
| `PlayerStatesProofs!PlayersTyped`, `PunchIsBounded`, `ButtonsAreShown`, `ThoseThereAreShown` | `TypeOK`, `PunchBound`, `ButtonsShown`, `ShownAreThere` | | `Inv` |
| `PlayerStatesProofs!PlayersAreRecorded` | refines `Recording` | | `Inv` |
| `ClassNamesProofs!NamesTyped` | `TypeOK` | | `TypeInv` |
| `ClassNamesProofs!NamesAreRight`, `NamelessOnlyWhenFull` | `NamesRight`, `NamedIfRoom` | | `NameInv` |
| `ReplayEntitiesProofs!NothingLeftBehind`, `RecordedIsShown`, `BotsLookAsRecorded`, `BeamsEndRight`, `MonstersMoveRight`, `RoomKeepsServersUp` | `NoStrays`, `ShownRight`, `BotsLookRight`, `BeamsAttached`, `MonstersPlaced`, `OnlyFullServersCrash` | | `EntityInv` |
| `DeltaServerProofs!IdsAreUnique` | `UniqueIds` | `IdsSuffice` | `AgeInv` |
| `DeltaServerProofs!ServerTyped` | `TypeOK` | | `TypedInv` |
| `DeltaServerProofs!ServerHasClientsStates` | `BaselineAgrees` | `IdsSuffice` | `AgeInv`, `TypedInv`, `UnderwayInv`, `BaselineInv` |
| `DemoFilesProofs!RecordingsStay` | `RecordingsKept` | | `Inv` |
| `DemoFilesProofs!OpenFileStays`, `EndTells` | `RecordingOnDisk`, `EndTimeTellsCrash` | `~MidRecording` | `EndInv` |

Hypotheses are those under which the run checks the property, and the list of
restrictions above says what goes wrong without them. One is arithmetic:
`IdsSuffice`, `MaxSent * (MaxSkips + 1) <= IdMod`. The code has 100 updates and 2^16
ids (SvenTV.cpp:443), so that a client may be due once in 655 thinks. The run
`server_baselines` takes the inequality to its limit (2, 1 and 4).

`ReplayEntities` assumes more free edicts than slots and clients together, enough for
one entity of each slot and for bots that are leaving. It is an assumption on the
server a replay runs on, not on the code: an engine without free edicts ends the game.

### Why the invariants are not inductive, and what makes them so

- `NoItemLost` counts the frame in flight, although `edictCopyState` may be left
  finished for long. `HandoffInv` says which thread may be where for each
  `edictCopyState`; `KeptInv` that a closed file does not count, and that
  single-threaded the frame counts only from the copy to the end of that pass.
- `OneMapPerFile` says nothing of a file that is open before the next pass. `PassInv`
  adds why that is harmless: a file of an earlier map is open only while
  recording is off, and the pass that closes it comes before anything can switch
  it on (`MapInv`); what stopped a recording took the right to autostart (`StopInv`).
- `AtMostOnce` needs that an item is in one place only: in the arrays, in the
  frame, or in the file, and that a message in the making is the thread's own
  (`OnceInv`, `WholeInv`). `OldMapItems` needs where items of an earlier map may still
  be after one copy and after two (`AgeInv`), `RepeatsFromOlder` that what is in the
  arrays and in the file came there by an older copy (`RepeatInv`).
- `PlaybackMatches`, and that `PlayerStates` implements `Recording`, say nothing of frames that
  are not played yet: each frame of the file must lead from the state before it to
  its own, keyframes from nothing, and the writer's `base` must be the last. For
  players that is weaker, since the decay of a punch angle is not stored: the writer's
  base may be ahead of the last frame. `Leads` asks it of every reader whose states
  stand for the recorded ones, and `Covers` says which do.
- `IndexesMatch`: the codes written so far lead from slot to slot, and the reader is
  at the last it read.
- `AlignedOnceOpen`: sizes and times of the frames are those the reader makes of them
  (`GoodFile`), and after each command its offset, the next frame's and the time
  are those of the frame shown, or the offset is inside of a frame, which is not
  read as a header unless a replay command is on its way (`PlaceInv`). `TimesReadBack` is the step from one frame to the next.
- `NamesRight`: an offset in a slot, and each offset in a frame of the open file,
  leads to the right name in the pool of now, which only grows until the map
  changes (`SlotsRight`, `FramesRight`); with the map all slots that have a handle
  become stale. What is on the disk is a pool of before.
- The properties of `ReplayEntities` hold between frames, but each slot is
  handled on its own inside of one. `GoodWorld` is what holds after each slot:
  an entity is that of one slot or a bot on its way out, a bot is a player's, and
  bots, humans and ghosts together are no more than the clients. The six properties
  are then about what one slot does (`Converted`, `Attached`, `Interpolated`) and
  that the others leave it alone: a beam's end at a later slot stays right unless
  that slot gets another entity (`BeamStays`); the look of a player who is plain is
  0 or none (`PlainInv`). The loop over slots is a recursive function on a finite set of numbers: the
  proofs take the least slot for which a claim fails, which needs no induction
  over data.
- `UniqueIds`: the update that is i-th from the end of the history is at most
  `i * (MaxSkips + 1)` thinks old, and the older an update the earlier it is in
  the history (`AgeInv`); ages, unlike ids, do not wrap.
- `BaselineAgrees`: the acknowledgement that is taken must do to the server's
  baseline what the packets did to the client's state. `UnderwayInv` says that the
  ids of what is underway are none that is used next, and that an update underway
  is the one of its id in the history; `BaselineInv` that an acknowledged update which was made
  from the baseline of now leads to the state the client has of it, and that of
  the updates in the history only the baseline's own, the oldest, is one that others
  were made from, so that no answer to another is from the baseline of now. That deltas keep states in `AllStates`, whatever state they are
  applied to, is `TypedInv`.
- `RecordingsKept`: what the thread was started with, the file it reads is there,
  the one it makes is new, and both hold one recording when it removes the first.
  `EndTimeTellsCrash` adds that all recordings but the open one and those that
  crashed have ended.

### Left to TLC

The liveness properties `ClosedAfterStop`, `EventuallyWritten` and `ReplayEnds`: they
need fairness, and so `ENABLED`, which the proof system does not
reason about. What a recursive function computes for every input would need
induction over data; where a proof meets one, the function runs over the finite
set 0..N of slots. That `ResetsReplayed` and `UnchangedNotSent` are violated is shown by
the runs `stream_resets` and `server_late_acks` alone.

## Not modelled

The bytes of messages, how `main.cpp` fills them, and their compression, which
the build switches off (main.cpp:28); the debug validation of
written frames; the check for free disk space, which is one way `TvOpenFails`
comes about; messages, events and sounds of a replay, and the texts in them;
animation between frames, visibility and gait; names of real players; the text
of the statistics; engine, sockets, scheduler and the LZMA coder, which are
external. Bots that the engine or an administrator removes on their own are not
in `ReplayEntities`.

## Plan

Done: the modules above, in the order of the table.

Left of the model:
1. Recorder and player in one server, sharing `g_stats` (DemoPlayer.cpp:161): one
   counter, which only decides when ambient sounds are sent.
2. Messages of a replay and the entities they name (DemoPlayer.cpp:1656-1774), on
   top of `ReplayEntities`.

Then, proving more:
1. `NothingLost` with the counts of the ambient sounds: which items the fifth
   frame loses, and no other.
2. Lemmas that two proof modules have in common (coordinates in `DeltaStreamProofs`
   and `DeltaServerProofs`) in one place.
