--------------------------- MODULE ReplayEntities ---------------------------
(***************************************************************************)
(* The entities a replay puts into the running game (DemoPlayer.cpp).  Each *)
(* slot of the recorded entity list has a handle to the entity that shows   *)
(* it: a fake client for a player, a beam for a beam, a model for the rest. *)
(* Frames are read one by one; while the player is seeking, and when a      *)
(* section of a frame fails, the recorded states advance but the entities   *)
(* are left as they are.                                                    *)
(*                                                                          *)
(* What frames contain is arbitrary: the properties are about what the      *)
(* player makes of it.  That it reads the states that were recorded is      *)
(* shown in DeltaStream and PlayerStates.                                   *)
(***************************************************************************)
EXTENDS Integers, FiniteSets

CONSTANTS
    NumPlayers,     \* the first slots are those of players
    NumSlots,
    Ids,            \* edicts of the running game that the replay may get
    Clients,        \* client slots of the running game
    Positions,      \* of monsters
    Looks,          \* of players: a value of their name, model or colors, with 0
    NoInfo,         \* instead of the look of a player whose flags are 0
    Scenes          \* bound: what frames record, of all that they could

Players == 1..NumPlayers
Slots   == 1..NumSlots

Ends   == {"start", "end"}      \* of a beam
NoEnds == [e \in Ends |-> 0]
Gone   == [kind |-> "none", at |-> 0, ends |-> NoEnds, sprite |-> FALSE]

\* What can be recorded in a slot.  "at" is a monster's position; a beam has at
\* each end the slot of an entity, or 0, and a model that is a sprite or not.
Recordings(s) ==
    {Gone} \cup
    IF s \in Players THEN {[Gone EXCEPT !.kind = "player"]}
    ELSE [kind : {"monster"}, at : Positions, ends : {NoEnds}, sprite : {FALSE}]
         \cup [kind : {"beam"}, at : {0}, ends : [Ends -> 0..NumSlots], sprite : BOOLEAN]

Files == {f \in [Slots -> UNION {Recordings(s) : s \in Slots}] :
            \A s \in Slots : f[s] \in Recordings(s)}

ASSUME ReplayAssumption ==
    /\ NumPlayers \in Nat /\ NumSlots \in Nat /\ NumPlayers <= NumSlots
    /\ 0 \notin Ids
    /\ Clients \in Nat
    /\ IsFiniteSet(Ids) /\ Cardinality(Ids) > NumSlots + Clients   \* room for a replay
    /\ 0 \in Positions /\ Positions \subseteq Nat
    /\ 0 \in Looks /\ NoInfo \notin Looks
    /\ Scenes \subseteq Files

VARIABLES
    open,       \* replayData # NULL
    fresh,      \* the next frame is the first of the file, a keyframe
    recorded,   \* fileedicts
    infos,      \* fileplayerinfos: a look, or NoInfo
    ents,       \* entities that the replay made in the running game
    h_ent,      \* replayEnts[i].h_ent
    end,        \* replayEnts[i].interp.originEnd
    humans,     \* real clients on the server
    ghosts,     \* bots whose edict was removed, but that are still connected
    up,         \* the server has not crashed
    shown,      \* history: the last frame that was read was simulated, with
                \* as many clients as there are now
    missed,     \* history: slots that changed in frames not simulated
    reused,     \* history: slots that took over an entity being removed
    made,       \* history: slots that got another entity in that frame
    plain       \* history: players whose look has been 0 since it was cleared

fileVars == <<open, fresh, recorded, infos>>
gameVars == <<ents, h_ent, end, up>>
clients  == <<humans, ghosts>>
history  == <<shown, missed, reused, made, plain>>
vars     == <<fileVars, gameVars, clients, history>>

Place(r) == IF r.kind = "monster" THEN r.at ELSE 0

\* An entity of the game.  One that is going is freed at the end of the server
\* frame; attach has the edicts at the ends of a beam.
Free == [kind |-> "free"]
New(kind, look) ==
    [kind |-> kind, hidden |-> FALSE, going |-> FALSE, look |-> look,
     attach |-> NoEnds]
Entities ==
    [kind : {"model"}, hidden : BOOLEAN, going : BOOLEAN, look : {0},
     attach : {NoEnds}]
    \cup [kind : {"bot"}, hidden : BOOLEAN, going : BOOLEAN, look : Looks,
          attach : {NoEnds}]
    \cup [kind : {"beam"}, hidden : BOOLEAN, going : BOOLEAN, look : {0},
          attach : [Ends -> Ids \cup {0}]]

Bots(es) == {id \in Ids : es[id].kind = "bot"}
Room(es) == Clients - humans - ghosts - Cardinality(Bots(es))

-----------------------------------------------------------------------------
(* simulate, for one slot.  w is the game: its entities, the handles, the   *)
(* interpolation's targets, and whether it is up.                           *)

Has(w, s) == w.h_ent[s] # 0
KindOf(w, s) == IF Has(w, s) THEN w.ents[w.h_ent[s]].kind ELSE "none"

\* A slot that is no longer recorded: the entity is hidden, and removed unless
\* it is a client.
Bug_Hide(w, s) ==
    IF ~Has(w, s) THEN w
    ELSE [w EXCEPT !.ents[w.h_ent[s]].going = @ \/ KindOf(w, s) # "bot"]
Hide(w, s) ==
    IF ~Has(w, s) THEN w
    ELSE [w EXCEPT !.ents[w.h_ent[s]].hidden = TRUE,
                   !.ents[w.h_ent[s]].going = @ \/ KindOf(w, s) # "bot"]

\* The old entity is removed after the new one is made.
Bug_Replace(w, s, new) ==
    LET id == CHOOSE i \in Ids : w.ents[i] = Free
    IN  [w EXCEPT !.ents[id] = new, !.h_ent[s] = id]
Replace(w, s, new) ==
    LET id   == CHOOSE i \in Ids : w.ents[i] = Free
        old  == w.h_ent[s]
    IN  [w EXCEPT !.ents = [i \in Ids |-> IF i = id THEN new
                                          ELSE IF i = old THEN Free ELSE @[i]],
                  !.h_ent[s] = id]

NeedsBot(w, s, r, info) == r.kind = "player" /\ KindOf(w, s) # "bot" /\ info # NoInfo

NeedsBeam(w, s, r) == r.kind = "beam" /\ KindOf(w, s) # "beam"

Bug_NeedsModel(w, s, r) == r.kind # "beam" /\ KindOf(w, s) = "beam"
NeedsModel(w, s, r) == r.kind # "beam" /\ KindOf(w, s) \in {"beam", "none"}

\* convertEdictType.  When a bot cannot be made and nothing stood for it yet,
\* the visibility of a null entity is set.
Converted(w, s, r, info) ==
    LET m ==
          CASE NeedsBot(w, s, r, info) ->
                  IF Room(w.ents) > 0 THEN Replace(w, s, New("bot", info)) ELSE w
            [] ~NeedsBot(w, s, r, info) /\ NeedsBeam(w, s, r) ->
                  Replace(w, s, New("beam", 0))
            [] ~NeedsBot(w, s, r, info) /\ NeedsModel(w, s, r) ->
                  Replace(w, s, New("model", 0))
            [] OTHER -> w
    IN  IF Has(m, s) THEN [m EXCEPT !.ents[m.h_ent[s]].hidden = FALSE]
        ELSE [m EXCEPT !.up = FALSE]

\* netedict::apply, of a beam: its ends are attached to the entities that stand
\* for the recorded ones now, and to none if there is none.  simulate hides it
\* again unless its model is a sprite.
Bug_Attached(w, s, r) ==
    IF r.kind # "beam" \/ r.ends = NoEnds THEN w
    ELSE [w EXCEPT !.ents[w.h_ent[s]].attach =
                IF @ = NoEnds THEN [e \in Ends |-> IF r.ends[e] = 0 THEN 0 ELSE w.h_ent[r.ends[e]]]
                ELSE @]
Attached(w, s, r) ==
    IF r.kind # "beam" THEN w
    ELSE [w EXCEPT !.ents[w.h_ent[s]].attach =
                       [e \in Ends |-> IF r.ends[e] = 0 THEN 0 ELSE w.h_ent[r.ends[e]]],
                   !.ents[w.h_ent[s]].hidden = ~r.sprite]

\* setupInterpolation: monsters move only when the frame says so.
Bug_Interpolated(w, s, r, old) ==
    IF r.kind = "monster" /\ Place(r) = Place(old) THEN w
    ELSE [w EXCEPT !.end[s] = Place(r)]
Interpolated(w, s, r, old) ==
    IF r.kind = "monster" /\ old.kind = r.kind /\ Place(r) = Place(old) THEN w
    ELSE [w EXCEPT !.end[s] = Place(r)]

SimulatedSlot(w, s, r, old, info) ==
    LET c == Converted(w, s, r, info)
    IN  CASE ~w.up            -> w
          [] w.up /\ r = Gone -> Hide(w, s)
          [] OTHER            -> IF c.up THEN Interpolated(Attached(c, s, r), s, r, old)
                                 ELSE c

\* Slot by slot, rs being what is recorded now and olds what was before.
Simulated(w, rs, olds, is) ==
    LET sim[s \in 0..NumSlots] ==
            IF s = 0 THEN w
            ELSE SimulatedSlot(sim[s - 1], s, rs[s], olds[s],
                               IF s \in Players THEN is[s] ELSE NoInfo)
    IN  sim[NumSlots]

\* readPlayerDeltas: bots take over what changed of their player, compared to
\* a state of zeros for one who was not there.
Told(info, old) == info # NoInfo /\ info # (IF old = NoInfo THEN 0 ELSE old)

Bug_Dressed(w, is, olds) ==
    [w EXCEPT !.ents = [id \in Ids |->
        IF \E p \in Players : w.h_ent[p] = id /\ @[id].kind = "bot"
                              /\ ~@[id].hidden /\ Told(is[p], olds[p])
        THEN [@[id] EXCEPT !.look = is[CHOOSE p \in Players : w.h_ent[p] = id]]
        ELSE @[id]]]
Dressed(w, is, olds) ==
    [w EXCEPT !.ents = [id \in Ids |->
        IF \E p \in Players : w.h_ent[p] = id /\ @[id].kind = "bot"
                              /\ Told(is[p], olds[p])
        THEN [@[id] EXCEPT !.look = is[CHOOSE p \in Players : w.h_ent[p] = id]]
        ELSE @[id]]]

-----------------------------------------------------------------------------
NoFile  == [s \in Slots |-> Gone]
NoInfos == [p \in Players |-> NoInfo]

Init ==
    /\ open = FALSE
    /\ fresh = FALSE
    /\ recorded = NoFile
    /\ infos = NoInfos
    /\ ents = [id \in Ids |-> Free]
    /\ h_ent = [s \in Slots |-> 0]
    /\ end = [s \in Slots |-> 0]
    /\ humans \in 0..Clients
    /\ ghosts = 0
    /\ up = TRUE
    /\ shown = FALSE
    /\ missed = {} /\ reused = {} /\ made = {} /\ plain = {}

\* openDemo, once what was played before is closed
OpenReplay ==
    /\ up /\ ~open
    /\ open' = TRUE
    /\ fresh' = TRUE
    /\ UNCHANGED <<recorded, infos, clients, gameVars, history>>

\* readDemoFrame.  skips: the player is seeking, or a section after those of
\* the entities and players is not valid.
ReadFrame(key, rs, is, skips) ==
    LET olds == IF key THEN NoFile ELSE recorded
        oldi == IF key THEN NoInfos ELSE infos
        w    == Dressed([ents |-> ents, h_ent |-> h_ent, end |-> end, up |-> up], is, oldi)
        changed == {s \in Slots \ Players :
                        rs[s].kind # olds[s].kind \/ Place(rs[s]) # Place(olds[s])}
    IN  /\ up /\ open
        /\ fresh => key
        /\ fresh' = FALSE
        /\ recorded' = rs
        /\ infos' = is
        /\ \E now \in {IF skips THEN w ELSE Simulated(w, rs, olds, is)} :
              /\ ents' = now.ents
              /\ h_ent' = now.h_ent
              /\ end' = now.end
              /\ up' = now.up
        /\ shown' = (~skips /\ up')
        /\ missed' = IF skips THEN missed \cup changed ELSE missed \ changed
        /\ reused' = IF skips THEN {}
                     ELSE {s \in Slots : rs[s] # Gone /\ h_ent'[s] # 0
                                         /\ ents'[h_ent'[s]].going}
        /\ made' = IF skips THEN {} ELSE {s \in Slots : h_ent'[s] # h_ent[s]}
        /\ plain' = {p \in Players : is[p] = 0 /\ (oldi[p] = NoInfo \/ p \in plain)}
        /\ UNCHANGED <<open, clients>>

\* seek, to an earlier position: the entities stay.
SeekBack ==
    /\ up /\ open
    /\ fresh' = TRUE
    /\ recorded' = NoFile
    /\ infos' = NoInfos
    /\ shown' = FALSE
    /\ reused' = {} /\ made' = {}
    /\ UNCHANGED <<open, clients, gameVars, missed, plain>>

\* closeReplayFile, at the end of the file or by command: bots are kicked.
CloseReplay ==
    /\ up /\ open
    /\ open' = FALSE
    /\ ents' = [id \in Ids |->
                  IF \A s \in Slots : h_ent[s] # id THEN ents[id]
                  ELSE IF ents[id].kind = "bot" THEN [ents[id] EXCEPT !.going = TRUE]
                  ELSE Free]
    /\ h_ent' = [s \in Slots |-> 0]
    /\ end' = [s \in Slots |-> 0]
    /\ shown' = FALSE
    /\ missed' = {} /\ reused' = {} /\ made' = {}
    /\ UNCHANGED <<fresh, recorded, infos, up, clients, plain>>

\* prepareDemo, for a replay that is to be opened over this one.  It removes
\* every edict with a name from the one of the last client on (the loop starts
\* one early): all models and beams, and the bot that is the last client, if
\* one is.  The engine keeps a client without an edict connected.
PrepareAnother ==
    LET things == {id \in Ids : ents[id].kind \in {"model", "beam"}}
    IN  /\ up /\ open
        /\ \E last \in {{}} \cup {{b} : b \in Bots(ents)} :
              /\ last # {} => ghosts = 0
              /\ \A b \in last : ~ents[b].going
              /\ ghosts' = IF last = {} THEN ghosts ELSE 1
              /\ ents' = [id \in Ids |-> IF id \in things \cup last THEN Free ELSE ents[id]]
              /\ h_ent' = [s \in Slots |-> IF h_ent[s] \in things \cup last THEN 0
                                           ELSE h_ent[s]]
        /\ shown' = FALSE
        /\ reused' = {} /\ made' = {}
        /\ UNCHANGED <<end, up, humans, fileVars, missed, plain>>

\* External: the server frame ends.  Entities that were removed are freed,
\* which makes the handles to them null, and kicked clients leave.
ServerFrameEnds ==
    LET going == {id \in Ids : ents[id] # Free /\ ents[id].going}
    IN  /\ up /\ going # {}
        /\ ents' = [id \in Ids |-> IF id \in going THEN Free ELSE ents[id]]
        /\ h_ent' = [s \in Slots |-> IF h_ent[s] \in going THEN 0 ELSE h_ent[s]]
        /\ shown' = (shown /\ going \cap Bots(ents) = {})
        /\ UNCHANGED <<end, up, clients, fileVars, missed, reused, made, plain>>

\* External: clients come and go.
ClientsChange ==
    /\ up
    /\ \E n \in 0..Clients :
          /\ n # humans
          /\ n + ghosts + Cardinality(Bots(ents)) <= Clients
          /\ humans' = n
    /\ shown' = FALSE
    /\ reused' = {} /\ made' = {}
    /\ UNCHANGED <<fileVars, gameVars, ghosts, missed, plain>>

Next ==
    \/ OpenReplay \/ SeekBack \/ CloseReplay \/ PrepareAnother
    \/ \E key, skips \in BOOLEAN, rs \in Scenes, is \in [Players -> Looks \cup {NoInfo}] :
          ReadFrame(key, rs, is, skips)
    \/ ServerFrameEnds \/ ClientsChange

Spec == Init /\ [][Next]_vars

-----------------------------------------------------------------------------
(* Properties *)

\* Every variable keeps its type; handles are to entities that exist.
TypeOK ==
    /\ {open, fresh, up, shown} \subseteq BOOLEAN
    /\ recorded \in Files /\ infos \in [Players -> Looks \cup {NoInfo}]
    /\ ents \in [Ids -> Entities \cup {Free}]
    /\ h_ent \in [Slots -> Ids \cup {0}]
    /\ \A s \in Slots : h_ent[s] # 0 => ents[h_ent[s]] # Free
    /\ end \in [Slots -> Positions] /\ humans \in 0..Clients /\ ghosts \in 0..1
    /\ missed \cup reused \cup made \subseteq Slots /\ plain \subseteq Players

\* The replay leaves no entity behind: whatever it made and is not being removed
\* is the entity of one slot, of a replay that is open (DemoPlayer.cpp:337, 418,
\* 618, 651, 671).  What prepareDemo can leave is a client without an entity.
NoStrays ==
    up => \A id \in Ids : ents[id] # Free /\ ~ents[id].going =>
        /\ open
        /\ Cardinality({s \in Slots : h_ent[s] = id}) = 1

\* The entity that stands for a slot, visible.
Shows(s, kind) ==
    /\ h_ent[s] # 0
    /\ ents[h_ent[s]].kind = kind
    /\ ~ents[h_ent[s]].hidden

\* After a frame that was simulated the game shows exactly what is recorded,
\* each slot by an entity of its kind; a player's is a model only while the
\* player's state has not been read, or the server is full, and a beam is hidden
\* if its model is no sprite.
ShownRight ==
    shown => \A s \in Slots \ reused :
        CASE recorded[s].kind = "none"   -> h_ent[s] = 0 \/ ents[h_ent[s]].hidden
          [] recorded[s].kind = "beam"   ->
                /\ h_ent[s] # 0
                /\ ents[h_ent[s]].kind = "beam"
                /\ ents[h_ent[s]].hidden = ~recorded[s].sprite
          [] recorded[s].kind = "player" ->
                \/ Shows(s, "bot")
                \/ Shows(s, "model") /\ (infos[s] = NoInfo \/ Room(ents) = 0)
          [] OTHER                       -> Shows(s, "model")

\* A bot looks as its player does, through keyframes, seeks, and players who
\* leave and others who take their slot (DemoPlayer.cpp:963).  Not so while the
\* player's look has been 0 (two black colors) ever since the state was cleared:
\* that is no change to a reader, and the bot keeps the look it had.
BotsLookRight ==
    up => \A p \in Players \ plain :
        h_ent[p] # 0 /\ ents[h_ent[p]].kind = "bot" /\ infos[p] # NoInfo =>
            ents[h_ent[p]].look = infos[p]

\* Both ends of a beam are at the entities that stand for the recorded ones now,
\* whatever they replaced (netedict.cpp:303, 322).  Not so for the entity of a
\* later slot that was made in the same frame, after the beam was attached.
BeamsAttached ==
    shown => \A s \in Slots \ reused, e \in Ends :
        LET t == recorded[s].ends[e]
        IN  recorded[s].kind = "beam" /\ t \in Slots \ reused
            /\ recorded[t] # Gone /\ (t > s => t \notin made)
                => ents[h_ent[s]].attach[e] = h_ent[t]

\* Monsters move to where they were recorded, except those that moved last in
\* a frame that was not simulated (DemoPlayer.cpp:744).
MonstersPlaced ==
    shown => \A s \in Slots \ missed :
        recorded[s].kind = "monster" => end[s] = recorded[s].at

\* No recording brings the server down while it has room for the bots
\* (DemoPlayer.cpp:686).
OnlyFullServersCrash == ~up => Room(ents) = 0
=============================================================================
