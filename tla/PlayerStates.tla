---------------------------- MODULE PlayerStates ----------------------------
(***************************************************************************)
(* Player states on their way from the engine through the demo file to the *)
(* player: the hooks and StartFrameHook keep g_demoplayers (main.cpp), the *)
(* recorder adds what the engine knows (SvenTV.cpp), the writer stores     *)
(* deltas (DemoPlayerEnt.cpp, DemoWriter.cpp), and the player rebuilds the *)
(* states (DemoPlayer.cpp).  The build's single thread mode: the frame the *)
(* writer sees is g_demoplayers itself.                                    *)
(*                                                                         *)
(* Of the fields of a DemoPlayerEnt the model keeps flags, which tells     *)
(* whether a player is there; button, which is gathered between frames;    *)
(* one punch angle, the only field that is not sent whenever it changes;   *)
(* and steamid64, which the hooks set.  The others are coded as steamid64. *)
(***************************************************************************)
EXTENDS Integers, Sequences

CONSTANTS
    NumPlayers,     \* gpGlobals->maxClients
    Inputs,         \* what a player may do at a time: stance (flags besides
                    \* PLR_FL_CONNECTED), buttons held, punch angle
    SteamIds,       \* who can join
    MaxChanges,     \* bound: steps of the game in a behaviour
    MaxFrames       \* bound: frames in a file

NoInput == [stance |-> {}, held |-> {}, punch |-> 0]

ASSUME PlayersAssumption ==
    /\ NumPlayers \in Nat
    /\ \A i \in Inputs : "connected" \notin i.stance /\ i.punch \in Int
    /\ NoInput \in Inputs
    /\ SteamIds \subseteq Nat \ {0} /\ SteamIds # {}
    /\ MaxChanges \in Nat /\ MaxFrames \in Nat \ {0}

VARIABLES
    there,      \* players whose edicts are valid
    input,      \* their edicts: what they do
    changes,    \* steps of the game so far
    enabled,    \* enableDemoFile
    live,       \* g_demoplayers
    asked,      \* edictCopyState = EDICT_COPY_REQUESTED
    open,       \* demoFile # NULL
    base,       \* DemoWriter::fileplayerinfos
    file,       \* frames of the file that is or was open
    pl,         \* DemoPlayer::fileplayerinfos
    at,         \* frames of the file read so far
    pressed     \* history: buttons held since the last frame took them

recVars  == <<there, input, changes, enabled, live, pressed>>
fileVars == <<asked, open, base, file>>
playVars == <<pl, at>>
vars     == <<recVars, fileVars, playVars>>

Players == 1..NumPlayers
Null    == [flags |-> {}, button |-> {}, punch |-> 0, steamid |-> 0]
Nulls   == [p \in Players |-> Null]

-----------------------------------------------------------------------------
(* The delta of one player *)

Abs(x) == IF x < 0 THEN -x ELSE x

\* Angles that decay are left to the player, which lets them decay as well.
Bug_PunchSent(now, old) == Abs(old) < Abs(now)
PunchSent(now, old) == Abs(old) < Abs(now) \/ (now = 0 /\ old # 0)

Bug_Fresh(state) == state
Fresh(state) == IF state.flags = {} THEN Null ELSE state

\* writeDeltas: of a player who is not there only the flags are sent.
PlayerDelta(now, base0) ==
    LET old     == Fresh(base0)
        changed == (IF now.flags # base0.flags THEN {"flags"} ELSE {})
            \cup (IF now.flags = {} THEN {}
                  ELSE {f \in {"button", "steamid"} : now[f] # old[f]}
                       \cup (IF PunchSent(now.punch, old.punch) THEN {"punch"} ELSE {}))
    IN  [f \in changed |-> now[f]]

\* readDeltas
ApplyDelta(old, delta) ==
    LET joined == old.flags = {} /\ "flags" \in DOMAIN delta /\ delta.flags # {}
        from   == IF joined THEN Null ELSE old
    IN  [f \in DOMAIN Null |-> IF f \in DOMAIN delta THEN delta[f] ELSE from[f]]

-----------------------------------------------------------------------------
\* The plugin may be loaded while players are on the server.
Init ==
    /\ there \in SUBSET Players
    /\ input = [p \in Players |-> NoInput]
    /\ changes = 0
    /\ enabled = FALSE
    /\ live = Nulls
    /\ asked = TRUE
    /\ open = FALSE
    /\ base = Nulls
    /\ file = <<>>
    /\ pl = Nulls
    /\ at = 0
    /\ pressed = [p \in Players |-> {}]

-----------------------------------------------------------------------------
(* The game and its hooks, between two runs of StartFrameHook *)

GameStep ==
    /\ changes < MaxChanges
    /\ changes' = changes + 1
    /\ UNCHANGED pressed
    /\ UNCHANGED fileVars /\ UNCHANGED playVars

\* External: a player moves, presses buttons, is hit.
Act(p, now) ==
    /\ p \in there
    /\ input' = [input EXCEPT ![p] = now]
    /\ GameStep
    /\ UNCHANGED <<there, enabled, live>>

Join(p, id) ==
    /\ p \notin there
    /\ there' = there \cup {p}
    /\ input' = [input EXCEPT ![p] = NoInput]
    /\ live' = [live EXCEPT ![p].steamid = id,
                            ![p].flags = @ \cup {"connected"}]
    /\ GameStep
    /\ UNCHANGED enabled

Leave(p) ==
    /\ p \in there
    /\ there' = there \ {p}
    /\ live' = [live EXCEPT ![p].flags = {}]
    /\ GameStep
    /\ UNCHANGED <<input, enabled>>

\* Changelevel: the players join again on the new map, without having left.
Changelevel ==
    /\ there' = {}
    /\ enabled' = FALSE
    /\ GameStep
    /\ UNCHANGED <<input, live>>

ToggleDemo ==
    /\ enabled' = ~enabled
    /\ UNCHANGED <<there, input, changes, live, pressed>>
    /\ UNCHANGED fileVars /\ UNCHANGED playVars

-----------------------------------------------------------------------------
(* StartFrameHook and what it calls *)

\* The buttons of the valid players are gathered while recording is on.
Gathered(state, p) ==
    IF p \in there THEN [state EXCEPT !.button = @ \cup input[p].held] ELSE state

\* Once a second: players that are not there lose their flags; those the
\* plugin has not seen join get them.
Bug_Checked(state, p) ==
    IF p \notin there THEN [state EXCEPT !.flags = {}] ELSE state
Checked(state, p) ==
    CASE p \notin there -> [state EXCEPT !.flags = {}]
      [] p \in there /\ state.steamid = 0 ->
            [state EXCEPT !.flags = @ \cup {"connected"},
                          !.steamid = CHOOSE id \in SteamIds : TRUE]
      [] OTHER -> state

\* think_tvThread, of the valid players
Loaded(state, p) ==
    IF p \notin there THEN state
    ELSE [state EXCEPT
            !.punch = input[p].punch,
            !.flags = IF "connected" \in @ THEN input[p].stance \cup {"connected"} ELSE @]

Released(state) == [state EXCEPT !.button = {}]

Bug_InFrame(states, copies) ==
    IF copies THEN [p \in Players |-> Released(states[p])] ELSE states
InFrame(states, copies) == states

Changed(now, old) == {p \in Players : DOMAIN PlayerDelta(now[p], old[p]) # {}}

\* What is stored in a frame: the first of a file is a keyframe, which the
\* world entity keeps from being empty; other frames that hold nothing are
\* not stored, though the writer goes on as if they were.  "others" says that
\* the frame has entities, messages, commands or events.
WriteFrame(now, key, others, checked, taken) ==
    LET old == IF key THEN Nulls ELSE base
        f   == [key     |-> key,
                deltas  |-> [p \in Changed(now, old) |-> PlayerDelta(now[p], old[p])],
                state   |-> now,                                    \* history
                checked |-> checked,
                there   |-> there,
                pressed |-> taken]
        before == IF open THEN file ELSE <<>>
        stored == key \/ others \/ Changed(now, old) # {}
    IN  /\ file' = IF stored THEN Append(before, f) ELSE before
        /\ base' = now
        /\ open' = TRUE
        /\ at' = IF open THEN at ELSE 0

\* One server frame.  The clock is read twice: "early" to decide whether to
\* copy, "late" whether to write.  The buttons are released in frames that
\* copied, after the write.
StartFrameHook(pings, early, late, key, others) ==
    LET hooked   == [p \in Players |->
                        IF ~enabled THEN live[p]
                        ELSE IF pings THEN Checked(Gathered(live[p], p), p)
                        ELSE Gathered(live[p], p)]
        now      == InFrame([p \in Players |-> Loaded(hooked[p], p)], asked /\ early)
        taken    == [p \in Players |->
                        pressed[p] \cup IF enabled /\ p \in there THEN input[p].held ELSE {}]
        copies   == asked /\ early
        writes   == enabled /\ late
    IN  /\ early => late
        /\ pings \/ (late /\ ~early) => enabled
        /\ key \/ others => writes
        /\ key \/ ~writes \/ open
        /\ Len(file) < MaxFrames \/ ~writes \/ ~open
        /\ IF writes THEN WriteFrame(now, key, others, pings, taken)
           ELSE /\ open' = (open /\ enabled)
                /\ UNCHANGED <<base, file, at>>
        /\ live' = IF copies THEN [p \in Players |-> Released(now[p])] ELSE now
        /\ pressed' = [p \in Players |-> IF copies THEN {} ELSE taken[p]]
        /\ asked' = (writes \/ (asked /\ ~copies))
        /\ UNCHANGED <<there, input, changes, enabled, pl>>

-----------------------------------------------------------------------------
(* The player *)

\* readDemoFrame and readPlayerDeltas
ReadFrame ==
    /\ at < Len(file)
    /\ LET f   == file[at + 1]
           old == IF f.key THEN Nulls ELSE pl
       IN  pl' = [p \in Players |->
                    IF p \in DOMAIN f.deltas THEN ApplyDelta(old[p], f.deltas[p])
                    ELSE old[p]]
    /\ at' = at + 1
    /\ UNCHANGED recVars /\ UNCHANGED fileVars

\* seek, to an earlier position
SeekBack ==
    /\ at > 0
    /\ at' = 0
    /\ pl' = Nulls
    /\ UNCHANGED recVars /\ UNCHANGED fileVars

\* openDemo leaves the states as they are.
OpenDemo ==
    /\ at > 0
    /\ at' = 0
    /\ UNCHANGED pl
    /\ UNCHANGED recVars /\ UNCHANGED fileVars

Next ==
    \/ \E p \in Players :
        \/ \E now \in Inputs : Act(p, now)
        \/ \E id \in SteamIds : Join(p, id)
        \/ Leave(p)
    \/ Changelevel \/ ToggleDemo
    \/ \E pings, early, late, key, others \in BOOLEAN :
          StartFrameHook(pings, early, late, key, others)
    \/ ReadFrame \/ SeekBack \/ OpenDemo

Spec == Init /\ [][Next]_vars

-----------------------------------------------------------------------------
(* Properties *)

Flags == {i.stance \cup {"connected"} : i \in Inputs}
Buttons == UNION {i.held : i \in Inputs}
State ==
    [flags   : {{}} \cup Flags,
     button  : SUBSET Buttons,
     punch   : {i.punch : i \in Inputs},
     steamid : SteamIds \cup {0}]

\* Every variable keeps its type.
TypeOK ==
    /\ live \in [Players -> State] /\ base \in [Players -> State]
    /\ pl \in [Players -> State]
    /\ pressed \in [Players -> SUBSET Buttons]
    /\ {enabled, asked, open} \subseteq BOOLEAN
    /\ there \subseteq Players /\ input \in [Players -> Inputs]
    /\ changes \in 0..MaxChanges
    /\ Len(file) <= MaxFrames /\ at \in 0..Len(file)

\* What the reader of a demo can tell of the players without loss.
Seen(states) ==
    [p \in Players |->
        IF states[p].flags = {} THEN <<>>
        ELSE <<states[p].flags, states[p].button, states[p].steamid>>]

Log == INSTANCE Recording WITH
    Unread <- <<>>,
    log    <- [i \in 1..Len(file) |-> Seen(file[i].state)],
    cursor <- at,
    view   <- IF at = 0 THEN <<>> ELSE Seen(pl)

\* The player reads back who was there, and their fields, as they were
\* recorded, across keyframes, frames that were not stored, files, seeks and
\* players who come and go in one slot (writeDeltas and readDeltas each start
\* a new player afresh).
PlaysRecording == Log!Spec

\* Only growing punch angles are stored (DemoPlayerEnt.cpp:91), and the player
\* lets them decay: what it last read is never smaller than what was recorded,
\* and is nothing exactly when the recorded one is.
PunchBound ==
    at > 0 => \A p \in Players :
        LET rec == file[at].state[p]
        IN  rec.flags # {} =>
              /\ Abs(pl[p].punch) >= Abs(rec.punch)
              /\ (pl[p].punch = 0) = (rec.punch = 0)

\* A button pressed between two frames is seen in the next one, even when it
\* was released meanwhile (main.cpp:331, SvenTV.cpp:127).
ButtonsShown ==
    at > 0 => \A p \in Players :
        pl[p].flags # {} => file[at].pressed[p] \subseteq pl[p].button

\* In frames that come with the check of once a second, the players that are
\* shown are those that are on the server, also when the plugin was loaded
\* after they had joined, and when the map changed without their leaving.
ShownAreThere ==
    at > 0 /\ file[at].checked =>
        {p \in Players : pl[p].flags # {}} = file[at].there
=============================================================================
