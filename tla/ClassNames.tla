----------------------------- MODULE ClassNames -----------------------------
(***************************************************************************)
(* The names of entity classes in a demo: the plugin keeps a pool of the   *)
(* names used on the map (main.cpp), each entity slot the offset of its    *)
(* name in the pool (netedict::load), frames store the offset and the file *)
(* the pool (DemoWriter.cpp).  The engine refers to strings by handles     *)
(* (string_t), which mean something on one map only; the next map may give *)
(* the same handle to another name, and a slot that finds its own handle   *)
(* again does not look it up again.                                        *)
(*                                                                         *)
(* A frame keeps all offsets; that a reader of the deltas has them is      *)
(* shown by DeltaStream.                                                   *)
(***************************************************************************)
EXTENDS Integers, Sequences

CONSTANTS
    NumEdicts,      \* MAX_EDICTS
    Names,          \* class names
    NameLength,     \* their strlen
    PoolSize,       \* STRING_POOL_SIZE
    NumHandles,     \* handles the engine gives out, on every map
    MaxMaps,        \* bound: maps in a behaviour
    MaxFrames,      \* bound: frames in a file
    MaxChanges      \* bound: changes of the game in a behaviour

ASSUME NamesAssumption ==
    /\ {NumEdicts, PoolSize} \subseteq Nat \ {0}
    /\ NameLength \in [Names -> Nat \ {0}]
    /\ {NumHandles, MaxMaps, MaxFrames, MaxChanges} \subseteq Nat \ {0}

VARIABLES
    map,        \* the current map
    string,     \* External: what the handles of the map mean, STRING()
    world,      \* the class name handles of the entities; 0: none there
    changes,    \* changes of the game so far
    pool,       \* g_stringpool: the names by the offset they start at
    poolIdx,    \* g_stringpool_idx
    known,      \* g_stringtToClassIdx, by handle
    slots,      \* frame.netedicts: classname_stringt and classname
    stale,      \* history: the slots with a handle of an earlier map
    open,       \* demoFile # NULL
    frames,     \* the frames of the file that is or was open
    disk,       \* its string pool
    pc          \* "pool" between a frame and the pool that goes with it;
                \* "torn" when a crash came between

gameVars == <<map, string, world, changes>>
poolVars == <<pool, poolIdx, known, slots, stale>>
fileVars == <<open, frames, disk>>
vars     == <<gameVars, poolVars, fileVars, pc>>

Edicts  == 0..(NumEdicts - 1)
Handles == 1..NumHandles
NoSlot  == [handle |-> 0, name |-> 0]       \* netedict::reset
NoPool  == <<>>

-----------------------------------------------------------------------------
(* getPoolOffsetForString and netedict::load, slot after slot *)

Bug_FirstFree == poolIdx
FirstFree == 1          \* offset 0 is for entities without a name

Bug_Fits(p, name) == TRUE
Fits(p, name) == NameLength[name] + p.idx + 1 < PoolSize

\* The pool p after a look-up of handle h.
LookedUp(p, h) ==
    IF h \in DOMAIN p.known \/ ~Fits(p, string[h]) THEN p
    ELSE [names |-> [o \in DOMAIN p.names \cup {p.idx} |->
                        IF o = p.idx THEN string[h] ELSE p.names[o]],
          idx   |-> p.idx + NameLength[string[h]] + 1,
          known |-> [k \in DOMAIN p.known \cup {h} |->
                        IF k = h THEN p.idx ELSE p.known[k]]]
OffsetOf(p, h) ==
    CASE h \in DOMAIN p.known -> p.known[h]
      [] h \notin DOMAIN p.known /\ Fits(p, string[h]) -> p.idx
      [] OTHER -> 0             \* "Overflowed string pool!"

\* Slot s with an entity of class h; p is the pool it finds.
CachedIn(s, h) == h = 0 \/ s.handle = h
Load(s, h, p) ==
    IF h = 0 THEN NoSlot
    ELSE IF s.handle = h THEN s
    ELSE [handle |-> h, name |-> OffsetOf(p, h)]

Pool == [names |-> pool, idx |-> poolIdx, known |-> known]
PoolBefore[i \in 0..NumEdicts] ==
    IF i = 0 THEN Pool
    ELSE IF CachedIn(slots[i - 1], world[i - 1]) THEN PoolBefore[i - 1]
    ELSE LookedUp(PoolBefore[i - 1], world[i - 1])
Loaded == [i \in Edicts |-> Load(slots[i], world[i], PoolBefore[i])]

LoadAll ==
    /\ slots' = Loaded
    /\ stale' = {i \in stale : Loaded[i] = slots[i]}
    /\ pool' = PoolBefore[NumEdicts].names
    /\ poolIdx' = PoolBefore[NumEdicts].idx
    /\ known' = PoolBefore[NumEdicts].known

-----------------------------------------------------------------------------
Init ==
    /\ map = 1
    /\ string \in [Handles -> Names]
    /\ world = [i \in Edicts |-> 0]
    /\ changes = 0
    /\ pool = NoPool /\ poolIdx = 1 /\ known = <<>>
    /\ slots = [i \in Edicts |-> NoSlot]
    /\ stale = {}
    /\ open = FALSE
    /\ frames = <<>>
    /\ disk = NoPool
    /\ pc = "idle"

\* External: the game spawns or removes an entity.
EngineStep(i, h) ==
    /\ pc # "pool"
    /\ changes < MaxChanges
    /\ changes' = changes + 1
    /\ world' = [world EXCEPT ![i] = h]
    /\ UNCHANGED <<map, string, poolVars, fileVars, pc>>

\* Changelevel and MapInitHook.  The recording ends with its map, as
\* FramePipeline shows; the slots are not reset.
NewMap ==
    /\ pc # "pool"
    /\ map < MaxMaps
    /\ map' = map + 1
    /\ string' \in [Handles -> Names]
    /\ world' = [i \in Edicts |-> 0]
    /\ pool' = NoPool
    /\ poolIdx' = FirstFree
    /\ known' = <<>>
    /\ stale' = {i \in Edicts : slots[i].handle # 0}
    /\ open' = FALSE
    /\ UNCHANGED <<changes, slots, frames, disk, pc>>

\* think_tvThread when nothing is written; recording may have been switched off.
ThinkOnly ==
    /\ pc # "pool"
    /\ LoadAll
    /\ open' \in {open, FALSE}
    /\ UNCHANGED <<gameVars, frames, disk, pc>>

Frame == [offset |-> [i \in Edicts |-> slots'[i].name],
          class  |-> [i \in Edicts |->                   \* history
                        IF world[i] = 0 THEN "" ELSE string[world[i]]],
          stale  |-> stale']                            \* history

\* think_tvThread up to the last fwrite of the frame; initDemoFile puts the pool
\* of that time into a new file.  For the pool a frame that holds nothing, and is
\* not stored, is no different from none.
ThinkAndWrite ==
    /\ pc # "pool"
    /\ LoadAll
    /\ open' = TRUE
    /\ IF open THEN /\ Len(frames) < MaxFrames
                    /\ frames' = Append(frames, Frame)
                    /\ UNCHANGED disk
               ELSE /\ frames' = <<Frame>>
                    /\ disk' = pool'
    /\ pc' = "pool"
    /\ UNCHANGED gameVars

Bug_PoolInFile == disk
PoolInFile == pool

\* lastStringPoolIdx is never set, so the pool is written after every frame.
WritePool ==
    /\ pc = "pool"
    /\ disk' = PoolInFile
    /\ pc' = "idle"
    /\ UNCHANGED <<gameVars, poolVars, open, frames>>

\* The server crashes and is started again, with a map.
Crash ==
    /\ map < MaxMaps
    /\ map' = map + 1
    /\ string' \in [Handles -> Names]
    /\ world' = [i \in Edicts |-> 0]
    /\ pool' = NoPool /\ poolIdx' = 1 /\ known' = <<>>
    /\ slots' = [i \in Edicts |-> NoSlot]
    /\ stale' = {}
    /\ open' = FALSE
    /\ pc' = IF pc = "idle" THEN "idle" ELSE "torn"
    /\ UNCHANGED <<changes, frames, disk>>

Next ==
    \/ \E i \in Edicts, h \in Handles \cup {0} : EngineStep(i, h)
    \/ NewMap \/ ThinkOnly \/ ThinkAndWrite \/ WritePool \/ Crash

Spec == Init /\ [][Next]_vars

-----------------------------------------------------------------------------
(* Properties *)

\* Every variable keeps its type; the names end inside the pool.
TypeOK ==
    /\ map \in 1..MaxMaps /\ changes \in 0..MaxChanges
    /\ string \in [Handles -> Names]
    /\ world \in [Edicts -> Handles \cup {0}]
    /\ \A o \in DOMAIN pool :
          pool[o] \in Names /\ o > 0 /\ o + NameLength[pool[o]] < PoolSize
    /\ poolIdx \in 1..PoolSize
    /\ DOMAIN known \subseteq Handles /\ \A h \in DOMAIN known : known[h] \in DOMAIN pool
    /\ \A i \in Edicts : slots[i].handle \in Handles \cup {0} /\ slots[i].name \in 0..PoolSize
    /\ stale \subseteq Edicts
    /\ open \in BOOLEAN /\ Len(frames) <= MaxFrames
    /\ pc \in {"idle", "pool", "torn"}

NameRead(o) == IF o \in DOMAIN disk THEN disk[o] ELSE ""

\* Whoever opens the file finds, for every entity of every frame, its class name
\* or none, whatever was added to the pool after that frame; a crash can spoil
\* the newest frame only.  Not so for a slot whose entity has, by chance, the
\* handle that the slot had when its map began: its offset is one in the pool
\* of an earlier map (netedict.cpp:245), and stays so until the handle changes.
NamesRight ==
    \A n \in 1..Len(frames) : n < Len(frames) \/ pc = "idle" =>
        \A i \in Edicts \ frames[n].stale : frames[n].offset[i] # 0 =>
            NameRead(frames[n].offset[i]) = frames[n].class[i]

\* An entity is left without a name only while names of its own map fill the
\* pool (main.cpp:128), or because its slot was without one on an earlier map.
Filled(byte) == \E o \in DOMAIN pool : byte \in o..(o + NameLength[pool[o]])
NamedIfRoom ==
    \A i \in Edicts \ stale :
        slots[i].handle # 0 /\ slots[i].name = 0
            => \A byte \in 1..(PoolSize - NameLength[string[slots[i].handle]] - 2) :
                    Filled(byte)
=============================================================================
