-------------------------- MODULE DeltaStreamProofs --------------------------
(***************************************************************************)
(* Playback shows what was recorded, for every number of slots, every set  *)
(* of entity states and any interleaving of recording, new files, seeking  *)
(* and reopening; and for every number of slots, and limits of the codes   *)
(* that name them, the player finds the slot each delta was written for.   *)
(***************************************************************************)
EXTENDS DeltaStream, EntityIndexing, TLAPS

AnyState ==
    [flags : SUBSET UNION Kinds, pos : Int, seq : Nat, rate : Nat, frame : Nat]

\* What a netedict may hold: a slot without flags holds nothing else.
States == {s \in AnyState : s.flags = {} => s = Null}

\* What the engine may hold in a slot.
Slots ==
    [flags : Kinds \cup {{}}, pos : Positions, seq : Seqs, rate : Rates,
     frame : FrameValues, restarted : Restarts]

\* Slot 0, the world, is never free.
WorldRight ==
    /\ world \in [Edicts -> Slots]
    /\ world[0].flags # {}

LoadedRight == loaded \in [Edicts -> States]

\* A frame starts from nothing or from the frame before it.
StateBefore(k) == IF file[k].key THEN Nulls ELSE file[k - 1].state

\* The deltas of every frame rebuild its state, the first frame is a keyframe,
\* and the writer's base is the state of the last frame: the frames it leaves
\* out for lack of deltas change nothing.
FileRight ==
    /\ Len(file) \in Nat
    /\ DOMAIN file = 1..Len(file)
    /\ \A k \in 1..Len(file) :
        /\ file[k].state \in [Edicts -> States]
        /\ k = 1 => file[k].key
        /\ Rebuild(StateBefore(k), file[k].deltas) = file[k].state
    /\ keyed \in BOOLEAN
    /\ keyed => Len(file) > 0 /\ base = file[Len(file)].state
    /\ ~keyed => Len(file) = 0 /\ base = Nulls

PlayRight ==
    /\ at \in 0..Len(file)
    /\ at > 0 => pl = file[at].state

Inv == WorldRight /\ LoadedRight /\ FileRight /\ PlayRight

-----------------------------------------------------------------------------
(* The codec *)

\* A number in the range of a two's complement field is read back from its
\* low bits.
LEMMA SignExtendInverts ==
    ASSUME NEW d \in Int, NEW half \in Nat \ {0}, -half <= d, d < half
    PROVE  SignExtend(d % (2 * half), half) = d
<1>1. CASE d >= 0
  <2>1. d % (2 * half) = d
    BY <1>1, Z3
  <2> QED
    BY <2>1, <1>1 DEF SignExtend
<1>2. CASE d < 0
  <2>1. d % (2 * half) = d + 2 * half
    BY <1>2, Z3
  <2> QED
    BY <2>1, <1>2 DEF SignExtend
<1> QED
  BY <1>1, <1>2

\* A coordinate survives the delta for every pair of 32 bit values: each width
\* is used only for differences it can hold.
LEMMA CoordinateRoundTrip ==
    ASSUME NEW now \in Int, NEW old \in Int
    PROVE  ReadPos(old, PosDelta(now, old)) = now
<1> DEFINE d == now - old
<1>0. d \in Int /\ old + d = now
  OBVIOUS
<1>1. CASE d = 0
  BY <1>1, <1>0 DEF PosDelta, ReadPos
<1>2. CASE d # 0 /\ Between(d, 128)
  <2>1. SignExtend(d % 256, 128) = d
    <3>1. SignExtend(d % (2 * 128), 128) = d
      BY <1>2, SignExtendInverts DEF Between
    <3> QED
      BY <3>1
  <2> QED
    BY <1>2, <1>0, <2>1 DEF PosDelta, ReadPos
<1>3. CASE ~Between(d, 128) /\ Between(d, 2048)
  <2>1. SignExtend(d % 16384, 8192) = d
    <3>1. SignExtend(d % (2 * 8192), 8192) = d
      BY <1>3, SignExtendInverts DEF Between
    <3> QED
      BY <3>1
  <2>2. d # 0
    BY <1>3 DEF Between
  <2> QED
    BY <1>3, <1>0, <2>1, <2>2 DEF PosDelta, ReadPos
<1>4. CASE ~Between(d, 128) /\ ~Between(d, 2048)
  <2>1. d # 0
    BY <1>4 DEF Between
  <2> QED
    BY <1>4, <2>1 DEF PosDelta, ReadPos
<1> QED
  BY <1>1, <1>2, <1>3, <1>4

\* The delta of an entity turns the old state into the new one, and no delta
\* is needed exactly when nothing changed; a forced frame changes neither.
LEMMA EdictRoundTrip ==
    ASSUME NEW now \in States, NEW old \in States, NEW forced
    PROVE  /\ Empty(EdictDelta(now, old, forced)) => now = old
           /\ ApplyDelta(old, EdictDelta(now, old, forced)) = now
<1> DEFINE delta == EdictDelta(now, old, forced)
<1>1. Fresh(old) = old /\ Start(old, delta) = old
  BY DEF Fresh, Start, States
<1>2. /\ DOMAIN delta \subseteq Fields
      /\ \A f \in Fields : f \notin DOMAIN delta => now[f] = old[f]
      /\ \A f \in DOMAIN delta :
            delta[f] = IF f = "pos" THEN PosDelta(now.pos, old.pos) ELSE now[f]
  BY <1>1 DEF EdictDelta, Fields
<1>3. now = [f \in Fields |-> now[f]] /\ old = [f \in Fields |-> old[f]]
  BY DEF States, AnyState, Fields
<1>4. ReadPos(old.pos, PosDelta(now.pos, old.pos)) = now.pos
  BY CoordinateRoundTrip DEF States, AnyState
<1>5. \A f \in Fields : ApplyDelta(old, delta)[f] = now[f]
  BY <1>1, <1>2, <1>4 DEF ApplyDelta
<1>6. ApplyDelta(old, delta) = now
  BY <1>3, <1>5 DEF ApplyDelta
<1>7. Empty(delta) => now = old
  BY <1>2, <1>3 DEF Empty
<1> QED
  BY <1>6, <1>7

-----------------------------------------------------------------------------
(* Recording *)

\* What a load leaves in a slot is a netedict, and a drawn entity leaves flags.
LEMMA LoadRight ==
    ASSUME NEW n \in States, NEW e \in Slots
    PROVE  /\ Load(n, e) \in States
           /\ e.flags # {} => Load(n, e).flags # {}
<1>1. Null \in States
  BY DEF Null, States, AnyState
<1>2. CASE e.flags = {}
  BY <1>1, <1>2 DEF Load
<1>3. CASE e.flags # {}
  <2>1. Load(n, e) \in AnyState
    BY <1>3, StreamAssumption DEF Load, Slots, States, AnyState
  <2>2. Load(n, e).flags # {}
    BY <1>3 DEF Load
  <2> QED
    BY <2>1, <2>2 DEF States
<1> QED
  BY <1>2, <1>3

\* Every think loads netedicts, and the world's slot is never empty.
LEMMA LoadedStates ==
    ASSUME WorldRight, LoadedRight
    PROVE  Loaded \in [Edicts -> States] /\ Loaded # Nulls
<1>1. \A i \in Edicts : Loaded[i] \in States
  BY LoadRight DEF WorldRight, LoadedRight, Loaded
<1>2. 0 \in Edicts
  BY StreamAssumption DEF Edicts
<1>3. Loaded[0].flags # {} /\ Nulls[0].flags = {}
  BY <1>2, LoadRight DEF WorldRight, LoadedRight, Loaded, Nulls, Null
<1> QED
  BY <1>1, <1>3 DEF Loaded

\* Freeing or changing an entity and clearing the restart marks keep the slots
\* typed and the world in place.
LEMMA LoadAllRight ==
    ASSUME WorldRight, LoadedRight, LoadAll
    PROVE  WorldRight' /\ LoadedRight' /\ loaded' # Nulls
<1>1. loaded' = Loaded /\ LoadedRight' /\ loaded' # Nulls
  BY LoadedStates DEF LoadAll, LoadedRight
<1>2. world' = [i \in Edicts |-> [world[i] EXCEPT !.restarted = FALSE]]
  BY DEF LoadAll
<1>3. ASSUME NEW e \in Slots
      PROVE  /\ [e EXCEPT !.restarted = FALSE] \in Slots
             /\ [e EXCEPT !.restarted = FALSE].flags = e.flags
  BY StreamAssumption DEF Slots
<1>4. 0 \in Edicts
  BY StreamAssumption DEF Edicts
<1>5. WorldRight'
  BY <1>2, <1>3, <1>4 DEF WorldRight
<1> QED
  BY <1>1, <1>5

\* The deltas of a frame rebuild the loaded states from its base, and a frame
\* without deltas has the states of its base.
LEMMA FrameRight ==
    ASSUME NEW key \in BOOLEAN, NEW old \in [Edicts -> States], LoadedRight'
    PROVE  /\ Rebuild(old, Frame(key, old).deltas) = loaded'
           /\ Changed(old) = {} => loaded' = old
<1> DEFINE d(i) == EdictDelta(loaded'[i], old[i], i \in force')
           deltas == Frame(key, old).deltas
<1>1. ASSUME NEW i \in Edicts
      PROVE  /\ Empty(d(i)) => loaded'[i] = old[i]
             /\ ApplyDelta(old[i], d(i)) = loaded'[i]
  <2>1. loaded'[i] \in States /\ old[i] \in States
    BY DEF LoadedRight
  <2> QED
    BY <2>1, EdictRoundTrip
<1>2. deltas = [i \in Changed(old) |-> d(i)]
  BY DEF Frame
<1>3. ASSUME NEW i \in Edicts PROVE Rebuild(old, deltas)[i] = loaded'[i]
  BY <1>1, <1>2 DEF Rebuild, Changed
<1>4. loaded' = [i \in Edicts |-> loaded'[i]] /\ old = [i \in Edicts |-> old[i]]
  BY DEF LoadedRight
<1>5. Rebuild(old, deltas) = loaded'
  BY <1>3, <1>4 DEF Rebuild
<1>6. Changed(old) = {} => loaded' = old
  BY <1>1, <1>4 DEF Changed
<1> QED
  BY <1>5, <1>6

-----------------------------------------------------------------------------
(* The steps *)

\* A new file has no frames, and the writer starts from nothing.
LEMMA NoFrames ==
    file = <<>> /\ keyed = FALSE /\ base = Nulls => FileRight
<1> SUFFICES ASSUME file = <<>>, keyed = FALSE, base = Nulls PROVE FileRight
  OBVIOUS
<1>1. Len(file) = 0 /\ DOMAIN file = {} /\ 1..Len(file) = {}
  OBVIOUS
<1> QED
  BY <1>1 DEF FileRight

\* At first nothing is recorded.
LEMMA StreamInit == Init => Inv
<1> SUFFICES ASSUME Init PROVE Inv
  OBVIOUS
<1>1. 0 \in Edicts
  BY StreamAssumption DEF Edicts
<1>2. world = [i \in Edicts |->
                 IF i = 0 THEN [Free EXCEPT !.flags = {"valid"}] ELSE Free]
  BY DEF Init
<1>3. Nulls \in [Edicts -> States]
  BY DEF Nulls, Null, States, AnyState
<1>4. WorldRight
  <2>1. Free \in Slots /\ [Free EXCEPT !.flags = {"valid"}] \in Slots
    BY StreamAssumption DEF Slots, Free
  <2>2. [Free EXCEPT !.flags = {"valid"}].flags # {}
    BY DEF Free
  <2> QED
    BY <1>1, <1>2, <2>1, <2>2 DEF WorldRight
<1>5. LoadedRight
  BY <1>3 DEF Init, LoadedRight
<1>6. at = 0 /\ Len(file) = 0
  BY DEF Init
<1>7. FileRight
  BY NoFrames DEF Init
<1>8. PlayRight
  BY <1>6 DEF PlayRight
<1> QED
  BY <1>4, <1>5, <1>7, <1>8 DEF Inv

\* A frame that is stored extends the chain; one without deltas has the states
\* of its base, and is never a keyframe.
LEMMA WriteKeepsFile ==
    ASSUME Inv, NEW key \in BOOLEAN, ThinkAndWrite(key)
    PROVE  FileRight' /\ PlayRight'
<1> DEFINE old == FrameBase(key)
           n   == Len(file)
           f   == Frame(key, old)
<1>1. LoadedRight' /\ loaded' # Nulls
  BY LoadAllRight DEF ThinkAndWrite, Inv
<1>2. n \in Nat /\ DOMAIN file = 1..n
  BY DEF Inv, FileRight
<1>3. /\ keyed \in BOOLEAN
      /\ keyed => n > 0 /\ base = file[n].state
      /\ ~keyed => n = 0 /\ base = Nulls
  BY DEF Inv, FileRight
<1>4. /\ Nulls \in [Edicts -> States]
      /\ base \in [Edicts -> States]
      /\ old \in [Edicts -> States]
      /\ old = IF key THEN Nulls ELSE base
  <2>1. Nulls \in [Edicts -> States]
    BY DEF Nulls, Null, States, AnyState
  <2>2. ASSUME keyed PROVE base \in [Edicts -> States]
    BY <2>2, <1>2, <1>3 DEF Inv, FileRight
  <2>3. ASSUME ~keyed PROVE base \in [Edicts -> States]
    BY <2>1, <2>3, <1>3
  <2> QED
    BY <2>1, <2>2, <2>3, <1>3 DEF FrameBase
<1>5. /\ Rebuild(old, f.deltas) = loaded'
      /\ Changed(old) = {} => loaded' = old
  BY <1>1, <1>4, FrameRight
<1>6. keyed' = TRUE /\ base' = loaded' /\ (~keyed => key) /\ UNCHANGED <<pl, at>>
  BY DEF ThinkAndWrite, playVars
<1>7. CASE Changed(old) = {}
  <2>1. file' = file
    BY <1>7 DEF ThinkAndWrite
  <2>2. ~key /\ keyed /\ base' = base
    BY <1>1, <1>4, <1>5, <1>6, <1>7
  <2> QED
    BY <2>1, <2>2, <1>6 DEF Inv, FileRight, PlayRight, StateBefore
<1>8. CASE Changed(old) # {}
  <2>1. file' = Append(file, f)
    BY <1>8 DEF ThinkAndWrite
  <2>2. /\ Len(file') = n + 1 /\ DOMAIN file' = 1..(n + 1)
        /\ file'[n + 1] = f
        /\ \A k \in 1..n : file'[k] = file[k]
    BY <2>1, <1>2
  <2>3. f.key = key /\ f.state = loaded'
    BY DEF Frame
  <2>4. ASSUME NEW k \in 1..(n + 1)
        PROVE  /\ file'[k].state \in [Edicts -> States]
               /\ k = 1 => file'[k].key
               /\ Rebuild(StateBefore(k)', file'[k].deltas) = file'[k].state
    <3>1. CASE k \in 1..n
      <4>1. StateBefore(k)' = StateBefore(k)
        BY <3>1, <2>2, <1>2 DEF Inv, FileRight, StateBefore
      <4> QED
        BY <3>1, <4>1, <2>2 DEF Inv, FileRight
    <3>2. CASE k = n + 1
      <4>1. k = 1 => key
        BY <3>2, <1>2, <1>3, <1>6
      <4>2. StateBefore(k)' = old
        BY <3>2, <4>1, <2>2, <2>3, <1>2, <1>3, <1>4 DEF Inv, FileRight, StateBefore
      <4> QED
        BY <3>2, <4>1, <4>2, <2>2, <2>3, <1>1, <1>5 DEF LoadedRight
    <3> QED
      BY <3>1, <3>2, <1>2
  <2>5. FileRight'
    <3>1. base' = file'[Len(file')].state /\ Len(file') > 0
      BY <2>2, <2>3, <1>2, <1>6
    <3> QED
      BY <3>1, <2>2, <2>4, <1>2, <1>6 DEF FileRight
  <2>6. PlayRight'
    BY <2>2, <1>2, <1>6 DEF Inv, PlayRight
  <2> QED
    BY <2>5, <2>6
<1> QED
  BY <1>7, <1>8

\* The player rebuilds the state of the next frame from the state of the frame
\* before it, or from nothing.
LEMMA ReadKeeps ==
    ASSUME Inv, ReadFrame
    PROVE  Inv'
<1> DEFINE k   == at + 1
           old == ReadBase(file[k].key)
<1>1. /\ k \in 1..Len(file) /\ at' = k
      /\ pl' = Rebuild(old, file[k].deltas)
      /\ UNCHANGED recVars /\ UNCHANGED fileVars
  BY DEF ReadFrame, Inv, FileRight, PlayRight
<1>2. old = StateBefore(k)
  BY <1>1 DEF Inv, FileRight, PlayRight, ReadBase, StateBefore
<1>3. pl' = file[k].state
  BY <1>1, <1>2 DEF Inv, FileRight
<1> QED
  BY <1>1, <1>3
     DEF Inv, WorldRight, LoadedRight, FileRight, PlayRight, StateBefore, recVars, fileVars

\* Every step keeps the invariant.
LEMMA StreamNext == Inv /\ [Next]_vars => Inv'
<1> SUFFICES ASSUME Inv, [Next]_vars PROVE Inv'
  OBVIOUS
<1> USE DEF recVars, fileVars, playVars
<1>1. ASSUME NEW i \in Edicts, NEW e \in Entity \cup {Free}, EngineStep(i, e)
      PROVE  Inv'
  <2>1. e \in Slots
    <3>1. Free \in Slots
      BY StreamAssumption DEF Free, Slots
    <3>2. ASSUME e \in Entity PROVE e \in Slots
      BY <3>2 DEF Entity, Slots
    <3> QED
      BY <3>1, <3>2
  <2>2. WorldRight'
    BY <1>1, <2>1 DEF EngineStep, Inv, WorldRight
  <2> QED
    BY <2>2, <1>1
       DEF EngineStep, Inv, LoadedRight, FileRight, PlayRight, StateBefore
<1>2. CASE ThinkOnly
  <2>1. WorldRight' /\ LoadedRight'
    BY <1>2, LoadAllRight DEF ThinkOnly, Inv
  <2> QED
    BY <2>1, <1>2 DEF ThinkOnly, Inv, FileRight, PlayRight, StateBefore
<1>3. ASSUME NEW key \in BOOLEAN, ThinkAndWrite(key)
      PROVE  Inv'
  <2>1. WorldRight' /\ LoadedRight'
    BY <1>3, LoadAllRight DEF ThinkAndWrite, Inv
  <2> QED
    BY <2>1, <1>3, WriteKeepsFile DEF Inv
<1>4. CASE NewFile
  <2>1. FileRight'
    <3>1. file' = <<>> /\ keyed' = FALSE /\ base' = Nulls
      BY <1>4 DEF NewFile
    <3>2. Len(file') = 0 /\ DOMAIN file' = {} /\ 1..Len(file') = {}
      BY <3>1
    <3> QED
      BY <3>1, <3>2 DEF FileRight
  <2>2. Len(file') = 0
    BY <1>4 DEF NewFile
  <2> QED
    BY <2>1, <2>2, <1>4 DEF NewFile, Inv, WorldRight, LoadedRight, PlayRight
<1>5. CASE ReadFrame
  BY <1>5, ReadKeeps
<1>6. CASE SeekBack \/ OpenDemo
  BY <1>6 DEF SeekBack, OpenDemo, Inv, WorldRight, LoadedRight, FileRight,
              PlayRight, StateBefore
<1>7. CASE UNCHANGED vars
  BY <1>7 DEF vars, Inv, WorldRight, LoadedRight, FileRight, PlayRight, StateBefore
<1> QED
  BY <1>1, <1>2, <1>3, <1>4, <1>5, <1>6, <1>7 DEF Next

\* After any frame, whatever was played or sought before, every entity is in
\* the state the recorder had loaded when it wrote the frame.
THEOREM PlaybackIsFaithful == Spec => []PlaybackMatches
<1>1. Inv => PlaybackMatches
  BY DEF Inv, PlayRight, PlaybackMatches
<1> QED
  BY StreamInit, StreamNext, <1>1, PTL DEF Spec

-----------------------------------------------------------------------------
(* Types: what is recorded and played back are the values the game has.    *)
(* The player takes its states from the file, so those have their types,   *)
(* too; the deltas of the file name slots.                                 *)

TypeInv ==
    /\ loaded \in [Edicts -> State] /\ base \in [Edicts -> State]
    /\ pl \in [Edicts -> State]
    /\ force \subseteq Edicts /\ resets \subseteq Edicts /\ animated \subseteq Edicts
    /\ Len(file) <= MaxFrames
    /\ \A k \in 1..Len(file) :
        file[k].state \in [Edicts -> State] /\ DOMAIN file[k].deltas \subseteq Edicts

\* An empty slot, and what a load leaves of a typed one, have their type.
LEMMA LoadTyped ==
    /\ Nulls \in [Edicts -> State]
    /\ \A n \in State, e \in Slots : Load(n, e) \in State
<1>1. Null \in State
  BY StreamAssumption DEF Null, State
<1>2. ASSUME NEW n \in State, NEW e \in Slots PROVE Load(n, e) \in State
  <2>1. CASE e.flags = {}
    BY <1>1, <2>1 DEF Load
  <2>2. CASE e.flags # {}
    BY <2>2, StreamAssumption DEF Load, Slots, State
  <2>3. QED
    BY <2>1, <2>2
<1>3. QED
  BY <1>1, <1>2 DEF Nulls

\* A think loads typed states.
LEMMA LoadAllTyped ==
    ASSUME Inv, TypeInv, LoadAll
    PROVE  /\ loaded' \in [Edicts -> State] /\ force' \subseteq Edicts
           /\ Restarted \subseteq Edicts
<1>1. \A i \in Edicts : Load(loaded[i], world[i]) \in State
  BY LoadTyped DEF Inv, WorldRight, TypeInv
<1>2. QED
  BY <1>1 DEF LoadAll, Loaded, ForcedNow, Restarted

\* A frame that is stored has its type.
LEMMA WriteTyped ==
    ASSUME Inv, TypeInv, NEW key \in BOOLEAN, ThinkAndWrite(key)
    PROVE  TypeInv'
<1> DEFINE old == FrameBase(key)
           f   == Frame(key, old)
<1>1. /\ loaded' \in [Edicts -> State] /\ force' \subseteq Edicts
      /\ Restarted \subseteq Edicts
  BY LoadAllTyped DEF ThinkAndWrite
<1>2. /\ base' = loaded' /\ UNCHANGED <<pl, animated>>
      /\ Len(file) \in Nat /\ DOMAIN file = 1..Len(file) /\ Len(file) < MaxFrames
  BY DEF ThinkAndWrite, playVars, Inv, FileRight
<1>3. MaxFrames \in Nat
  BY StreamAssumption
<1>4. CASE Changed(old) = {}
  <2>1. file' = file /\ resets' = resets \cup Restarted
    BY <1>4 DEF ThinkAndWrite
  <2>2. QED
    BY <2>1, <1>1, <1>2 DEF TypeInv
<1>5. CASE Changed(old) # {}
  <2>1. file' = Append(file, f) /\ resets' = {}
    BY <1>5 DEF ThinkAndWrite
  <2>2. f.state = loaded' /\ DOMAIN f.deltas = Changed(old) /\ Changed(old) \subseteq Edicts
    BY DEF Frame, Changed
  <2> HIDE DEF f
  <2>3. /\ Len(file') = Len(file) + 1 /\ file'[Len(file) + 1] = f
        /\ \A k \in 1..Len(file) : file'[k] = file[k]
    BY <2>1, <1>2
  <2>4. Len(file') <= MaxFrames
    BY <2>3, <1>2, <1>3
  <2>5. ASSUME NEW k \in 1..Len(file')
        PROVE  file'[k].state \in [Edicts -> State] /\ DOMAIN file'[k].deltas \subseteq Edicts
    <3>1. CASE k = Len(file) + 1
      BY <3>1, <2>2, <2>3, <1>1
    <3>2. CASE k # Len(file) + 1
      <4>1. k \in 1..Len(file)
        BY <3>2, <2>3, <1>2
      <4>2. QED
        BY <4>1, <2>3 DEF TypeInv
    <3>3. QED
      BY <3>1, <3>2
  <2>6. QED
    BY <2>1, <2>4, <2>5, <1>1, <1>2 DEF TypeInv
<1>6. QED
  BY <1>4, <1>5

\* Every step keeps the types.
LEMMA TypeNext == Inv /\ TypeInv /\ [Next]_vars => TypeInv'
<1> SUFFICES ASSUME Inv, TypeInv, [Next]_vars PROVE TypeInv'
  OBVIOUS
<1> USE DEF recVars, fileVars, playVars
<1>1. ASSUME NEW i \in Edicts, NEW e \in Entity \cup {Free}, EngineStep(i, e)
      PROVE  TypeInv'
  BY <1>1 DEF EngineStep, TypeInv
<1>2. CASE ThinkOnly
  BY <1>2, LoadAllTyped DEF ThinkOnly, TypeInv
<1>3. ASSUME NEW key \in BOOLEAN, ThinkAndWrite(key) PROVE TypeInv'
  BY <1>3, WriteTyped
<1>4. CASE NewFile
  <2>1. Len(file') = 0 /\ 1..Len(file') = {} /\ 0 <= MaxFrames
    BY <1>4, StreamAssumption DEF NewFile
  <2>2. QED
    BY <2>1, <1>4, LoadTyped DEF NewFile, TypeInv
<1>5. CASE ReadFrame
  <2>1. /\ at + 1 \in 1..Len(file) /\ at' = at + 1
        /\ UNCHANGED <<file, loaded, base, force, resets>>
        /\ animated' \subseteq DOMAIN file[at + 1].deltas
    BY <1>5 DEF ReadFrame, Inv, FileRight, PlayRight
  <2>2. pl' = file[at + 1].state
    BY <1>5, <2>1, ReadKeeps DEF Inv, PlayRight
  <2>3. QED
    BY <2>1, <2>2 DEF TypeInv
<1>6. CASE SeekBack \/ OpenDemo
  BY <1>6, LoadTyped DEF SeekBack, OpenDemo, TypeInv
<1>7. CASE UNCHANGED vars
  BY <1>7 DEF vars, TypeInv
<1>8. QED
  BY <1>1, <1>2, <1>3, <1>4, <1>5, <1>6, <1>7 DEF Next

\* The recorder, the writer and the player hold values of the game only, and the
\* bound of the file holds.
THEOREM StreamTyped == Spec => []TypeOK
<1>1. Init => TypeInv
  <2> SUFFICES ASSUME Init PROVE TypeInv
    OBVIOUS
  <2>1. Len(file) = 0 /\ 1..Len(file) = {} /\ 0 <= MaxFrames
    BY StreamAssumption DEF Init
  <2>2. QED
    BY <2>1, LoadTyped DEF Init, TypeInv
<1>2. Inv /\ TypeInv => TypeOK
  BY DEF Inv, FileRight, PlayRight, TypeInv, TypeOK
<1>3. QED
  BY <1>1, <1>2, StreamInit, StreamNext, TypeNext, PTL DEF Spec

-----------------------------------------------------------------------------
(* Which slot a delta belongs to *)

\* The slot before the k-th one of a list; the first offset counts from 0.
Before(s, k) == IF k = 1 THEN 0 ELSE s[k - 1]

\* Every code of the buffer was made from the distance to the slot before.
CodesRight ==
    /\ owners \in Seq(Indexes)
    /\ DOMAIN entbuffer = 1..Len(owners)
    /\ Len(entbuffer) = Len(owners)
    /\ \A k \in 1..Len(owners) :
        /\ Before(owners, k) \in Nat /\ Before(owners, k) <= owners[k]
        /\ entbuffer[k] = EncodeIndex(owners[k] - Before(owners, k), owners[k])

\* The writer's offset is the distance from the last slot written.
OffsetRight ==
    /\ slot \in 0..NumIndexes
    /\ offset = slot - Before(owners, Len(owners) + 1)
    /\ offset \in Nat

\* The reader's index is the slot of the last delta it read.
ReaderRight ==
    /\ closed = FALSE
    /\ updated \in Seq(Nat)
    /\ Len(updated) <= Len(owners)
    /\ \A k \in 1..Len(updated) : updated[k] = owners[k]
    /\ slot < NumIndexes => updated = <<>>
    /\ fullIndex = Before(owners, Len(updated) + 1)

IndexInv == CodesRight /\ OffsetRight /\ ReaderRight

\* One code names the slot it was made for: an offset that fits is read back
\* from the bits that were kept of it.
LEMMA CodeRoundTrip ==
    ASSUME NEW prev \in Nat, NEW i \in Nat, prev <= i
    PROVE  DecodeIndex(prev, EncodeIndex(i - prev, i)) = i
<1> DEFINE d == i - prev
<1>0. d \in Nat /\ prev + d = i
  OBVIOUS
<1>1. CASE d >= Far
  BY <1>1, <1>0 DEF EncodeIndex, DecodeIndex
<1>2. CASE d >= Near /\ d < Far
  <2>1. d % Far = d
    BY <1>2, <1>0, IndexAssumption
  <2> QED
    BY <1>2, <2>1, <1>0, IndexAssumption DEF EncodeIndex, DecodeIndex
<1>3. CASE d < Near /\ d # 1
  <2>1. d % Near = d
    BY <1>3, <1>0, IndexAssumption
  <2> QED
    BY <1>3, <2>1, <1>0, IndexAssumption DEF EncodeIndex, DecodeIndex
<1>4. CASE d = 1
  BY <1>4, <1>0, IndexAssumption DEF EncodeIndex, DecodeIndex
<1> QED
  BY <1>0, <1>1, <1>2, <1>3, <1>4, IndexAssumption

\* The slot before is a number, also past the last slot of the list.
LEMMA BeforeIsNat ==
    ASSUME NEW s \in Seq(Indexes), NEW k \in 1..(Len(s) + 1)
    PROVE  Before(s, k) \in Nat
<1>1. CASE k = 1
  BY <1>1 DEF Before
<1>2. CASE k # 1
  <2>1. s[k - 1] \in Indexes
    BY <1>2
  <2> QED
    BY <2>1, <1>2, IndexAssumption DEF Before, Indexes
<1> QED
  BY <1>1, <1>2

\* Nothing is written and nothing read at first.
LEMMA IndexingInit == IndexInit => IndexInv
<1> SUFFICES ASSUME IndexInit PROVE IndexInv
  OBVIOUS
<1> USE DEF IndexInit, Indexes, Before
<1>1. CodesRight
  BY DEF CodesRight
<1>2. OffsetRight
  BY IndexAssumption DEF OffsetRight
<1>3. ReaderRight
  BY DEF ReaderRight
<1> QED
  BY <1>1, <1>2, <1>3 DEF IndexInv

\* A slot that is written adds its own code and becomes the one offsets count
\* from.
LEMMA IndexWritten == IndexInv /\ WriteSlot => IndexInv'
<1> SUFFICES ASSUME IndexInv, WriteSlot PROVE IndexInv'
  OBVIOUS
<1> DEFINE n == Len(owners)
<1>1. /\ owners \in Seq(Indexes) /\ n \in Nat
      /\ DOMAIN entbuffer = 1..n /\ Len(entbuffer) = n
      /\ slot \in 0..(NumIndexes - 1) /\ slot \in Indexes
      /\ offset = slot - Before(owners, n + 1) /\ offset \in Nat
  BY IndexAssumption DEF IndexInv, CodesRight, OffsetRight, WriteSlot, Indexes
<1>2. /\ owners' = Append(owners, slot)
      /\ entbuffer' = Append(entbuffer, EncodeIndex(offset, slot))
      /\ slot' = slot + 1 /\ offset' = 1
      /\ UNCHANGED <<fullIndex, updated, closed>>
  BY DEF WriteSlot, readVars, OffsetAfterDelta
<1>3. /\ owners' \in Seq(Indexes) /\ Len(owners') = n + 1
      /\ \A k \in 1..n : owners'[k] = owners[k]
      /\ owners'[n + 1] = slot
  BY <1>1, <1>2
<1>4. /\ DOMAIN entbuffer' = 1..(n + 1) /\ Len(entbuffer') = n + 1
      /\ \A k \in 1..n : entbuffer'[k] = entbuffer[k]
      /\ entbuffer'[n + 1] = EncodeIndex(offset, slot)
  BY <1>1, <1>2
<1>5. \A k \in 1..(n + 1) : Before(owners', k) = Before(owners, k)
  BY <1>1, <1>3 DEF Before
<1>6. Before(owners, n + 1) \in Nat
  BY <1>1, BeforeIsNat
<1>7. CodesRight'
  <2>1. ASSUME NEW k \in 1..(n + 1)
        PROVE  /\ Before(owners', k) \in Nat /\ Before(owners', k) <= owners'[k]
               /\ entbuffer'[k] =
                    EncodeIndex(owners'[k] - Before(owners', k), owners'[k])
    <3>1. CASE k \in 1..n
      BY <3>1, <1>3, <1>4, <1>5 DEF IndexInv, CodesRight
    <3>2. CASE k = n + 1
      BY <3>2, <1>1, <1>3, <1>4, <1>5, <1>6
    <3> QED
      BY <3>1, <3>2, <1>1
  <2> QED
    BY <2>1, <1>3, <1>4 DEF CodesRight
<1>8. OffsetRight'
  <2>1. Before(owners', n + 2) = slot
    BY <1>1, <1>3 DEF Before
  <2> QED
    BY <2>1, <1>1, <1>2, <1>3, IndexAssumption DEF OffsetRight
<1>9. ReaderRight'
  <2>1. updated = <<>>
    BY <1>1, IndexAssumption DEF IndexInv, ReaderRight
  <2>2. updated' = <<>> /\ Len(updated') = 0 /\ fullIndex' = 0 /\ closed' = FALSE
    BY <2>1, <1>2 DEF IndexInv, ReaderRight, Before
  <2> QED
    BY <2>2, <1>3, <1>1 DEF ReaderRight, Before
<1> QED
  BY <1>7, <1>8, <1>9 DEF IndexInv

\* The reader decodes the next code from the slot before and finds its owner,
\* which is in range.
LEMMA IndexRead == IndexInv /\ ReadDelta => IndexInv'
<1> SUFFICES ASSUME IndexInv, ReadDelta PROVE IndexInv'
  OBVIOUS
<1> DEFINE n == Len(updated)
           next == n + 1
<1>1. /\ owners \in Seq(Indexes) /\ Len(owners) \in Nat
      /\ updated \in Seq(Nat) /\ n \in Nat /\ n < Len(owners)
      /\ next \in 1..Len(owners)
      /\ slot = NumIndexes
      /\ UNCHANGED <<slot, offset, entbuffer, owners>>
  BY DEF IndexInv, CodesRight, ReaderRight, ReadDelta, writeVars
<1>2. owners[next] \in Nat /\ owners[next] < NumIndexes
  BY <1>1, IndexAssumption DEF Indexes
<1>3. fullIndex' = owners[next]
  <2>1. /\ Before(owners, next) \in Nat /\ Before(owners, next) <= owners[next]
        /\ entbuffer[next] =
             EncodeIndex(owners[next] - Before(owners, next), owners[next])
    BY <1>1 DEF IndexInv, CodesRight
  <2>2. fullIndex' = DecodeIndex(Before(owners, next), entbuffer[next])
    BY DEF IndexInv, ReaderRight, ReadDelta
  <2> QED
    BY <2>1, <2>2, <1>2, CodeRoundTrip
<1>4. updated' = Append(updated, owners[next]) /\ closed' = FALSE
  BY <1>2, <1>3, IndexAssumption DEF ReadDelta, IndexInv, ReaderRight
<1>5. CodesRight' /\ OffsetRight'
  BY <1>1 DEF IndexInv, CodesRight, OffsetRight, Before
<1>6. ReaderRight'
  <2>1. updated' \in Seq(Nat) /\ Len(updated') = next
    BY <1>1, <1>2, <1>4
  <2>2. \A k \in 1..next : updated'[k] = owners[k]
    BY <1>1, <1>4 DEF IndexInv, ReaderRight
  <2>3. fullIndex' = Before(owners, next + 1)
    BY <1>1, <1>3 DEF Before
  <2> QED
    BY <2>1, <2>2, <2>3, <1>1, <1>4, IndexAssumption DEF ReaderRight, Before
<1> QED
  BY <1>5, <1>6 DEF IndexInv

\* Every step keeps the invariant.
LEMMA IndexingNext == IndexInv /\ [IndexNext]_indexVars => IndexInv'
<1> SUFFICES ASSUME IndexInv, [IndexNext]_indexVars PROVE IndexInv'
  OBVIOUS
<1>1. CASE SkipSlot
  <2>1. /\ UNCHANGED <<entbuffer, owners, fullIndex, updated, closed>>
        /\ slot < NumIndexes /\ slot' = slot + 1 /\ offset' = offset + 1
    BY <1>1 DEF SkipSlot, readVars
  <2>2. CodesRight' /\ ReaderRight'
    BY <2>1, IndexAssumption DEF IndexInv, CodesRight, ReaderRight, OffsetRight, Before
  <2>3. Before(owners, Len(owners) + 1) \in Nat
    BY BeforeIsNat DEF IndexInv, CodesRight
  <2>4. OffsetRight'
    BY <2>1, <2>3, IndexAssumption DEF IndexInv, OffsetRight, Before
  <2> QED
    BY <2>2, <2>4 DEF IndexInv
<1>2. CASE WriteSlot
  BY <1>2, IndexWritten
<1>3. CASE ReadDelta
  BY <1>3, IndexRead
<1>4. CASE NextFrame
  <2>1. CodesRight'
    BY <1>4 DEF NextFrame, CodesRight, Before
  <2>2. OffsetRight'
    BY <1>4, IndexAssumption DEF NextFrame, OffsetRight, Before
  <2>3. ReaderRight'
    BY <1>4 DEF NextFrame, IndexInv, ReaderRight, Before
  <2> QED
    BY <2>1, <2>2, <2>3 DEF IndexInv
<1>5. CASE UNCHANGED indexVars
  BY <1>5 DEF indexVars, writeVars, readVars, IndexInv, CodesRight, OffsetRight, ReaderRight, Before
<1> QED
  BY <1>1, <1>2, <1>3, <1>4, <1>5 DEF IndexNext

\* Whatever slots change, the player applies every delta to the slot it was
\* written for: the codes are unambiguous for every limit of their widths.
THEOREM SlotsFound == IndexSpec => []IndexesMatch
<1>1. IndexInv => IndexesMatch
  BY DEF IndexInv, ReaderRight, IndexesMatch
<1> QED
  BY IndexingInit, IndexingNext, <1>1, PTL DEF IndexSpec
=============================================================================
