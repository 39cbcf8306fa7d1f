----------------------------- MODULE DeltaStream -----------------------------
(***************************************************************************)
(* Entity states on their way from the engine through the demo file to the *)
(* player: the recorder loads them every think (SvenTV.cpp,                *)
(* netedict::load), the writer stores the deltas of the thinks that are    *)
(* due, with a full state at every keyframe (DemoWriter.cpp), and the      *)
(* player rebuilds the states from the frames (DemoPlayer.cpp).  A frame   *)
(* maps slots to deltas; how the file names the slots is EntityIndexing.   *)
(*                                                                         *)
(* Slot 0 is the world entity, which the engine never frees.               *)
(***************************************************************************)
EXTENDS EntityCodec, Sequences

CONSTANTS
    NumEdicts,      \* MAX_EDICTS
    Kinds,          \* flag sets of the entities the game spawns
    Positions, Seqs, Rates, FrameValues,    \* values of their fields
    Restarts,       \* whether the game restarts animations
    MaxChanges,     \* bound: changes of the game in a behaviour
    MaxFrames       \* bound: frames in a file

\* The world, which fills slot 0, is a plain model at the origin.
ASSUME StreamAssumption ==
    /\ NumEdicts \in Nat \ {0}
    /\ {"valid"} \in Kinds /\ \A k \in Kinds : "valid" \in k
    /\ 0 \in Positions /\ Positions \subseteq Int
    /\ 0 \in Seqs \cap Rates \cap FrameValues
    /\ Seqs \cup Rates \cup FrameValues \subseteq Nat
    /\ FALSE \in Restarts /\ Restarts \subseteq BOOLEAN
    /\ MaxChanges \in Nat /\ MaxFrames \in Nat

VARIABLES
    world,      \* edict_t: the fields, and restarted: m_flLastEventCheck has
                \* passed the lastAnimationReset of the last load
    changes,    \* changes of the game so far
    loaded,     \* frame.netedicts
    force,      \* slots with forceNextFrame
    base,       \* DemoWriter::fileedicts
    keyed,      \* nextDemoKeyframe # 0
    file,       \* frames written since the file was opened
    pl,         \* DemoPlayer::fileedicts
    at,         \* frames of the file read so far
    animated,   \* slots with FL_DELTA_ANIM_CHANGED in the last frame read
    resets      \* history: entities whose animation restarted since the last
                \* frame

recVars  == <<world, changes, loaded, force, resets>>
fileVars == <<base, keyed, file>>
playVars == <<pl, at, animated>>
vars     == <<recVars, fileVars, playVars>>

Edicts == 0..(NumEdicts - 1)
Nulls  == [i \in Edicts |-> Null]

\* External: what the engine may hold in a slot; {} stands for an entity that
\* is free or not drawn.
Entity ==
    [flags : Kinds, pos : Positions, seq : Seqs, rate : Rates,
     frame : FrameValues, restarted : Restarts]
Free == [flags |-> {}, pos |-> 0, seq |-> 0, rate |-> 0, frame |-> 0,
         restarted |-> FALSE]

-----------------------------------------------------------------------------
(* netedict::load *)

\* Monsters set the event time in every think, so only a restart at frame 0
\* counts; players restart anywhere.
AnimationReset(n, e) ==
    \/ n.flags = {}                \* the slot was reset: the model changes
    \/ e.rate # n.rate
    \/ e.seq # n.seq
    \/ e.restarted /\ (e.frame = 0 \/ "player" \in e.flags)

\* The player predicts the frame between restarts, unless the rate loaded
\* before this load was 0.
Load(n, e) ==
    IF e.flags = {} THEN Null
    ELSE [flags |-> n.flags \cup e.flags,
          pos |-> e.pos, seq |-> e.seq, rate |-> e.rate,
          frame |-> IF AnimationReset(n, e) \/ n.rate = 0 THEN e.frame ELSE n.frame]

Forced(n, e) == e.flags # {} /\ AnimationReset(n, e)

Loaded    == [i \in Edicts |-> Load(loaded[i], world[i])]
ForcedNow == {i \in Edicts : Forced(loaded[i], world[i])}
Restarted == {i \in ForcedNow : loaded[i].flags # {}}

-----------------------------------------------------------------------------
Init ==
    /\ world = [i \in Edicts |->
                    IF i = 0 THEN [Free EXCEPT !.flags = {"valid"}] ELSE Free]
    /\ changes = 0
    /\ loaded = Nulls
    /\ force = {}
    /\ resets = {}
    /\ base = Nulls
    /\ keyed = FALSE
    /\ file = <<>>
    /\ pl = Nulls
    /\ at = 0
    /\ animated = {}

\* The game changes, spawns or frees an entity.
EngineStep(i, e) ==
    /\ changes < MaxChanges
    /\ changes' = changes + 1
    /\ i = 0 => e.flags # {}
    /\ world' = [world EXCEPT ![i] = e]
    /\ UNCHANGED <<loaded, force, resets>>
    /\ UNCHANGED fileVars /\ UNCHANGED playVars

\* The entity part of think_tvThread.
LoadAll ==
    /\ loaded' = Loaded
    /\ force' = ForcedNow
    /\ world' = [i \in Edicts |-> [world[i] EXCEPT !.restarted = FALSE]]
    /\ UNCHANGED changes

\* A think in which nothing is written: not recording, or not due.
ThinkOnly ==
    /\ LoadAll
    /\ resets' = resets \cup Restarted
    /\ UNCHANGED fileVars /\ UNCHANGED playVars

Bug_FrameBase(key) == base
FrameBase(key) == IF key THEN Nulls ELSE base

Changed(old) ==
    {i \in Edicts : ~Empty(EdictDelta(loaded'[i], old[i], i \in force'))}

Frame(key, old) ==
    [key    |-> key,
     deltas |-> [i \in Changed(old) |->
                    EdictDelta(loaded'[i], old[i], i \in force')],
     state  |-> loaded',                    \* history: what was recorded
     resets |-> resets \cup Restarted]

\* A think that is due: the first frame of a file is a keyframe, others when
\* KEYFRAME_INTERVAL has passed.  A frame without deltas is not stored, though
\* the writer goes on as if it were.
ThinkAndWrite(key) ==
    /\ Len(file) < MaxFrames
    /\ ~keyed => key
    /\ LoadAll
    /\ keyed' = TRUE
    /\ base' = loaded'
    /\ LET old == FrameBase(key)
       IN  IF Changed(old) = {}
           THEN file' = file /\ resets' = resets \cup Restarted
           ELSE file' = Append(file, Frame(key, old)) /\ resets' = {}
    /\ UNCHANGED playVars

\* initDemoFile, after the last file was closed.  The player goes to the new
\* file as it is: openDemo keeps the states an earlier replay left.
NewFile ==
    /\ keyed
    /\ base' = Nulls
    /\ keyed' = FALSE
    /\ file' = <<>>
    /\ resets' = {}
    /\ at' = 0
    /\ animated' = {}
    /\ UNCHANGED <<world, changes, loaded, force, pl>>

-----------------------------------------------------------------------------
(* The player *)

ReadBase(key) == IF key THEN Nulls ELSE pl

\* readDemoFrame and readEntDeltas
Rebuild(old, deltas) ==
    [i \in Edicts |->
        IF i \in DOMAIN deltas THEN ApplyDelta(old[i], deltas[i]) ELSE old[i]]

ReadFrame ==
    /\ at < Len(file)
    /\ LET f   == file[at + 1]
           old == ReadBase(f.key)
       IN  /\ pl' = Rebuild(old, f.deltas)
           /\ animated' = {i \in DOMAIN f.deltas : AnimChanged(old[i], f.deltas[i])}
    /\ at' = at + 1
    /\ UNCHANGED recVars /\ UNCHANGED fileVars

\* seek, to an earlier position: from the first frame, with cleared states.
SeekBack ==
    /\ at > 0
    /\ at' = 0
    /\ pl' = Nulls
    /\ animated' = {}
    /\ UNCHANGED recVars /\ UNCHANGED fileVars

\* openDemo: from the first frame; the states stay as they are.
OpenDemo ==
    /\ at > 0
    /\ at' = 0
    /\ animated' = {}
    /\ UNCHANGED pl
    /\ UNCHANGED recVars /\ UNCHANGED fileVars

Next ==
    \/ \E i \in Edicts, e \in Entity \cup {Free} : EngineStep(i, e)
    \/ ThinkOnly
    \/ \E key \in BOOLEAN : ThinkAndWrite(key)
    \/ NewFile
    \/ ReadFrame \/ SeekBack \/ OpenDemo

Spec == Init /\ [][Next]_vars

-----------------------------------------------------------------------------
(* Properties *)

State == [flags : {{}} \cup SUBSET UNION Kinds, pos : Positions,
          seq : Seqs \cup {0}, rate : Rates \cup {0}, frame : FrameValues \cup {0}]

\* Every variable keeps its type.
TypeOK ==
    /\ loaded \in [Edicts -> State] /\ base \in [Edicts -> State]
    /\ pl \in [Edicts -> State]
    /\ force \subseteq Edicts /\ resets \subseteq Edicts /\ animated \subseteq Edicts
    /\ keyed \in BOOLEAN
    /\ Len(file) <= MaxFrames /\ at \in 0..Len(file)

\* DemoPlayer.cpp:504, "Read unexpected ent state": after any frame the player
\* holds, for every entity, the state the recorder had loaded when it wrote
\* that frame, whatever an earlier replay or a seek left behind.
PlaybackMatches == at > 0 => pl = file[at].state

\* netedict.h:82, forceNextFrame is there "for animation resets": a restart the
\* recorder saw reaches the player as a changed animation in the next frame.
ResetsReplayed ==
    at > 0 => {i \in file[at].resets : pl[i].flags # {}} \subseteq animated
=============================================================================
