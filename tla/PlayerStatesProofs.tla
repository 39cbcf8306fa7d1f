-------------------------- MODULE PlayerStatesProofs --------------------------
(***************************************************************************)
(* The players a replay shows are those of the recording, for every number *)
(* of players, everything they may do, and any interleaving of joining,    *)
(* leaving, level changes, recording, seeking and reopening.               *)
(***************************************************************************)
EXTENDS PlayerStates, TLAPS

(***************************************************************************)
(* What a reader must hold to stand for a recorded player: all of it but   *)
(* the punch angle, which may be larger, since the decay is not stored.    *)
(* Of a player who is not there only that counts.                          *)
(***************************************************************************)
Covers(r, s) ==
    /\ r.flags = s.flags
    /\ s.flags # {} =>
         /\ r.button = s.button /\ r.steamid = s.steamid
         /\ Abs(r.punch) >= Abs(s.punch)
         /\ (r.punch = 0) = (s.punch = 0)

AllCover(rs, states) == \A p \in Players : Covers(rs[p], states[p])

States == [Players -> State]

\* What readDemoFrame makes of its states.
Rebuild(old, deltas) ==
    [p \in Players |-> IF p \in DOMAIN deltas THEN ApplyDelta(old[p], deltas[p]) ELSE old[p]]

\* Deltas lead from states to others, for every reader that stands for the first.
Leads(from, deltas, to) ==
    \A rs \in States :
        AllCover(rs, from) => /\ Rebuild(rs, deltas) \in States
                              /\ AllCover(Rebuild(rs, deltas), to)

\* A stored frame f that was coded from the states old.
FrameRight(f, old) ==
    /\ f.state \in States
    /\ Leads(old, f.deltas, f.state)
    /\ f.there \subseteq Players
    /\ f.checked => \A p \in Players : (f.state[p].flags # {}) <=> p \in f.there
    /\ \A p \in Players : f.pressed[p] \subseteq f.state[p].button

\* A frame starts from nothing or from the frame before it.
StateBefore(k) == IF file[k].key THEN Nulls ELSE file[k - 1].state

\* The writer's base may be ahead of the last stored frame, but only by what is
\* not stored: what stands for the frame stands for the base.
FileRight ==
    /\ Len(file) \in 0..MaxFrames
    /\ DOMAIN file = 1..Len(file)
    /\ \A k \in 1..Len(file) :
        /\ k = 1 => file[k].key
        /\ FrameRight(file[k], StateBefore(k))
    /\ base \in States
    /\ open => Len(file) > 0 /\ AllCover(file[Len(file)].state, base)

PlayRight ==
    /\ at \in 0..Len(file)
    /\ pl \in States
    /\ at > 0 => AllCover(pl, file[at].state)

\* Presses wait in the button field until a frame takes them, and a valid player
\* whose identity is known is connected.
LiveRight ==
    /\ live \in States
    /\ \A p \in Players : pressed[p] \subseteq live[p].button
    /\ \A p \in there : live[p].steamid # 0 => "connected" \in live[p].flags

GameRight ==
    /\ there \subseteq Players
    /\ input \in [Players -> Inputs]
    /\ changes \in 0..MaxChanges
    /\ pressed \in [Players -> SUBSET Buttons]
    /\ {enabled, asked, open} \subseteq BOOLEAN

Inv == GameRight /\ LiveRight /\ FileRight /\ PlayRight

-----------------------------------------------------------------------------
(* The codec *)

\* What the constants say of states.
LEMMA StateTypes ==
    /\ Null \in State /\ Nulls \in States
    /\ {"connected"} \in Flags
    /\ \A s \in State : s.punch \in Int
    /\ \A i \in Inputs : i.stance \cup {"connected"} \in Flags /\ i.punch \in Int
                         /\ i.held \subseteq Buttons
<1>1. NoInput \in Inputs /\ NoInput.stance = {} /\ NoInput.punch = 0
  BY PlayersAssumption DEF PlayersAssumption, NoInput
<1>2. {"connected"} \in Flags /\ 0 \in {i.punch : i \in Inputs}
  BY <1>1 DEF Flags
<1>3. Null \in State
  BY <1>2 DEF Null, State
<1>4. \A s \in State : s.punch \in Int
  BY PlayersAssumption DEF PlayersAssumption, State
<1>5. \A i \in Inputs : i.stance \cup {"connected"} \in Flags /\ i.punch \in Int
                        /\ i.held \subseteq Buttons
  BY PlayersAssumption DEF PlayersAssumption, Flags, Buttons
<1>6. QED
  BY <1>2, <1>3, <1>4, <1>5 DEF Nulls, States

\* Standing for a state is a preorder.
LEMMA CoversOrder ==
    ASSUME NEW r \in State, NEW s \in State, NEW t \in State
    PROVE  /\ Covers(s, s)
           /\ Covers(r, s) /\ Covers(s, t) => Covers(r, t)
<1>1. \A x \in {r, s, t} : x.punch \in Int /\ Abs(x.punch) \in Int
  BY StateTypes DEF Abs
<1>2. Covers(s, s)
  BY <1>1 DEF Covers
<1>3. ASSUME Covers(r, s), Covers(s, t) PROVE Covers(r, t)
  BY <1>1, <1>3 DEF Covers
<1>4. QED
  BY <1>2, <1>3

\* The delta of a player leads every reader that stands for the old state to the
\* new one: a new player starts from nothing on both sides, and an angle that is
\* not sent has decayed.
LEMMA DeltaLeads ==
    ASSUME NEW now \in State, NEW old \in State, NEW r \in State, Covers(r, old)
    PROVE  /\ ApplyDelta(r, PlayerDelta(now, old)) \in State
           /\ Covers(ApplyDelta(r, PlayerDelta(now, old)), now)
           /\ DOMAIN PlayerDelta(now, old) = {} => ApplyDelta(r, PlayerDelta(now, old)) = r
<1> DEFINE d  == PlayerDelta(now, old)
           r2 == ApplyDelta(r, d)
           joined == r.flags = {} /\ "flags" \in DOMAIN d /\ d.flags # {}
           from == IF joined THEN Null ELSE r
           fields == {"flags", "button", "punch", "steamid"}
<1>1. /\ now.punch \in Int /\ old.punch \in Int /\ r.punch \in Int
      /\ Null \in State /\ Null.punch = 0 /\ Null.flags = {}
  BY StateTypes DEF Null
<1>2. /\ DOMAIN d \subseteq fields
      /\ \A f \in DOMAIN d : d[f] = now[f]
      /\ "flags" \in DOMAIN d <=> now.flags # old.flags
      /\ now.flags = {} => DOMAIN d \subseteq {"flags"}
      /\ now.flags # {} =>
           /\ \A f \in {"button", "steamid"} : f \in DOMAIN d <=> now[f] # Fresh(old)[f]
           /\ "punch" \in DOMAIN d <=> PunchSent(now.punch, Fresh(old).punch)
  BY DEF PlayerDelta
<1>3. r.flags = old.flags
  BY DEF Covers
<1>4. /\ from \in State
      /\ r2 = [f \in fields |-> IF f \in DOMAIN d THEN d[f] ELSE from[f]]
  BY <1>1 DEF ApplyDelta, Null
<1>5. \A f \in fields : r2[f] = IF f \in DOMAIN d THEN now[f] ELSE from[f]
  BY <1>2, <1>4
<1>6. r2 \in State
  BY <1>2, <1>4 DEF State
<1>7. r2.flags = now.flags
  BY <1>2, <1>3, <1>5
<1>8. ASSUME now.flags # {} PROVE Covers(r2, now)
  <2>1. from.flags = Fresh(old).flags /\ Covers(from, Fresh(old))
    <3>1. CASE old.flags = {}
      <4>1. joined /\ Fresh(old) = Null
        BY <1>2, <1>3, <1>8, <3>1 DEF Fresh
      <4>2. QED
        BY <4>1, <1>1, CoversOrder
    <3>2. CASE old.flags # {}
      BY <1>3, <3>2 DEF Fresh
    <3>3. QED
      BY <3>1, <3>2
  <2>2. \A f \in {"button", "steamid"} : r2[f] = now[f]
    <3>1. CASE old.flags = {}
      BY <1>2, <1>3, <1>5, <1>8, <3>1 DEF Fresh
    <3>2. CASE old.flags # {}
      BY <1>2, <1>3, <1>5, <1>8, <2>1, <3>2 DEF Fresh, Covers
    <3>3. QED
      BY <3>1, <3>2
  <2>3. Abs(r2.punch) >= Abs(now.punch) /\ (r2.punch = 0) = (now.punch = 0)
    <3>1. CASE "punch" \in DOMAIN d
      BY <1>1, <1>2, <1>5, <3>1 DEF Abs
    <3>2. CASE "punch" \notin DOMAIN d
      <4>1. r2.punch = from.punch /\ ~PunchSent(now.punch, Fresh(old).punch)
        BY <1>2, <1>5, <1>8, <3>2
      <4>2. from.punch \in Int /\ Fresh(old).punch \in Int
        BY <1>1, <1>4, StateTypes DEF Fresh
      <4>3. Abs(from.punch) >= Abs(Fresh(old).punch) /\ (from.punch = 0) = (Fresh(old).punch = 0)
        <5>1. CASE old.flags = {}
          BY <1>1, <1>2, <1>3, <1>8, <5>1 DEF Fresh, Abs
        <5>2. CASE old.flags # {}
          BY <2>1, <5>2 DEF Fresh, Covers
        <5>3. QED
          BY <5>1, <5>2
      <4>4. QED
        BY <1>1, <4>1, <4>2, <4>3 DEF PunchSent, Abs
    <3>3. QED
      BY <3>1, <3>2
  <2>4. QED
    BY <1>7, <2>2, <2>3 DEF Covers
<1>9. ASSUME now.flags = {} PROVE Covers(r2, now)
  BY <1>7, <1>9 DEF Covers
<1>10. ASSUME DOMAIN d = {} PROVE r2 = r
  <2>1. from = r
    BY <1>10
  <2>2. r = [f \in fields |-> r[f]]
    BY DEF State
  <2>3. QED
    BY <1>4, <1>10, <2>1, <2>2
<1>11. QED
  BY <1>6, <1>8, <1>9, <1>10

\* The deltas of a frame lead from its base to the states it was made from, and
\* without deltas the base stands for those states.
LEMMA FrameLeads ==
    ASSUME NEW now \in States, NEW old \in States
    PROVE  /\ Leads(old, [p \in Changed(now, old) |-> PlayerDelta(now[p], old[p])], now)
           /\ Changed(now, old) = {} => AllCover(old, now)
<1> DEFINE deltas == [p \in Changed(now, old) |-> PlayerDelta(now[p], old[p])]
<1>1. ASSUME NEW rs \in States, AllCover(rs, old), NEW p \in Players
      PROVE  Rebuild(rs, deltas)[p] \in State /\ Covers(Rebuild(rs, deltas)[p], now[p])
  <2>1. /\ now[p] \in State /\ old[p] \in State /\ rs[p] \in State
        /\ Covers(rs[p], old[p])
    BY <1>1 DEF States, AllCover
  <2>2. Rebuild(rs, deltas)[p] = ApplyDelta(rs[p], PlayerDelta(now[p], old[p]))
    <3>1. CASE p \in Changed(now, old)
      BY <3>1 DEF Rebuild
    <3>2. CASE p \notin Changed(now, old)
      <4>1. DOMAIN PlayerDelta(now[p], old[p]) = {}
        BY <3>2 DEF Changed
      <4>2. Rebuild(rs, deltas)[p] = rs[p]
        BY <3>2 DEF Rebuild
      <4>3. QED
        BY <2>1, <4>1, <4>2, DeltaLeads
    <3>3. QED
      BY <3>1, <3>2
  <2>3. /\ ApplyDelta(rs[p], PlayerDelta(now[p], old[p])) \in State
        /\ Covers(ApplyDelta(rs[p], PlayerDelta(now[p], old[p])), now[p])
    BY <2>1, DeltaLeads
  <2>4. QED
    BY <2>2, <2>3
<1>2. Leads(old, deltas, now)
  BY <1>1 DEF Leads, AllCover, States, Rebuild
<1>3. ASSUME Changed(now, old) = {}, NEW p \in Players PROVE Covers(old[p], now[p])
  <2>1. now[p] \in State /\ old[p] \in State /\ Covers(old[p], old[p])
    BY CoversOrder DEF States
  <2>2. DOMAIN PlayerDelta(now[p], old[p]) = {}
    BY <1>3 DEF Changed
  <2>3. QED
    BY <2>1, <2>2, DeltaLeads
<1>4. QED
  BY <1>2, <1>3 DEF AllCover

\* Standing for states is a preorder as well.
LEMMA AllCoverOrder ==
    ASSUME NEW rs \in States, NEW ss \in States, NEW ts \in States
    PROVE  /\ AllCover(ss, ss)
           /\ AllCover(rs, ss) /\ AllCover(ss, ts) => AllCover(rs, ts)
BY CoversOrder DEF AllCover, States

-----------------------------------------------------------------------------
(* What StartFrameHook makes of a player *)

\* The hook and the recorder keep a state a state, add what is held to the
\* buttons, and leave a valid player who is known connected; the check of once a
\* second makes the flags tell who is there.
LEMMA HookRight ==
    ASSUME GameRight, LiveRight, NEW p \in Players, NEW pings \in BOOLEAN,
           pings => enabled
    PROVE  LET hooked == IF ~enabled THEN live[p]
                         ELSE IF pings THEN Checked(Gathered(live[p], p), p)
                         ELSE Gathered(live[p], p)
               now    == Loaded(hooked, p)
           IN  /\ now \in State
               /\ (pressed[p] \cup IF enabled /\ p \in there THEN input[p].held ELSE {})
                     \subseteq now.button
               /\ p \in there /\ now.steamid # 0 => "connected" \in now.flags
               /\ pings => ((now.flags # {}) <=> p \in there)
<1> DEFINE gathered == IF enabled THEN Gathered(live[p], p) ELSE live[p]
           hooked == IF ~enabled THEN live[p]
                     ELSE IF pings THEN Checked(Gathered(live[p], p), p)
                     ELSE Gathered(live[p], p)
           now    == Loaded(hooked, p)
<1>1. /\ live[p] \in State /\ input[p] \in Inputs
      /\ pressed[p] \subseteq live[p].button
      /\ p \in there /\ live[p].steamid # 0 => "connected" \in live[p].flags
  BY DEF GameRight, LiveRight, States
<1>2. /\ gathered \in State /\ gathered.flags = live[p].flags
      /\ gathered.steamid = live[p].steamid
      /\ (pressed[p] \cup IF enabled /\ p \in there THEN input[p].held ELSE {})
            \subseteq gathered.button
  BY <1>1, StateTypes DEF Gathered, State
<1>3. /\ hooked \in State /\ hooked.button = gathered.button
      /\ p \in there /\ hooked.steamid # 0 => "connected" \in hooked.flags
      /\ pings => /\ p \notin there => hooked.flags = {}
                  /\ p \in there => "connected" \in hooked.flags
  <2>1. CASE ~pings
    BY <1>1, <1>2, <2>1
  <2>2. CASE pings
    <3>1. hooked = Checked(gathered, p)
      BY <2>2
    <3>2. CASE p \notin there
      BY <1>2, <3>1, <3>2 DEF Checked, State
    <3>3. CASE p \in there /\ gathered.steamid = 0
      <4>1. /\ hooked.flags = gathered.flags \cup {"connected"}
            /\ hooked.button = gathered.button /\ hooked.punch = gathered.punch
            /\ hooked.steamid = CHOOSE id \in SteamIds : TRUE
            /\ hooked = [gathered EXCEPT !.flags = @ \cup {"connected"},
                                         !.steamid = CHOOSE id \in SteamIds : TRUE]
        BY <1>2, <3>1, <3>3 DEF Checked, State
      <4>2. gathered.flags \cup {"connected"} \in Flags
        BY <1>2, StateTypes DEF State, Flags
      <4>3. (CHOOSE id \in SteamIds : TRUE) \in SteamIds
        BY PlayersAssumption DEF PlayersAssumption
      <4>4. hooked \in State
        BY <1>2, <4>1, <4>2, <4>3 DEF State
      <4>5. QED
        BY <3>3, <4>1, <4>4
    <3>4. CASE p \in there /\ gathered.steamid # 0
      BY <1>1, <1>2, <3>1, <3>4 DEF Checked
    <3>5. QED
      BY <3>2, <3>3, <3>4
  <2>3. QED
    BY <2>1, <2>2
<1>4. /\ now \in State /\ now.button = hooked.button /\ now.steamid = hooked.steamid
      /\ "connected" \in hooked.flags => "connected" \in now.flags
      /\ p \notin there => now = hooked
  <2>1. CASE p \notin there
    BY <1>3, <2>1 DEF Loaded
  <2>2. CASE p \in there
    <3>1. now = [hooked EXCEPT !.punch = input[p].punch,
                    !.flags = IF "connected" \in @ THEN input[p].stance \cup {"connected"} ELSE @]
      BY <2>2 DEF Loaded
    <3>2. input[p].stance \cup {"connected"} \in Flags
      BY <1>1, StateTypes
    <3>3. QED
      BY <1>1, <1>3, <2>2, <3>1, <3>2 DEF State
  <2>3. QED
    BY <2>1, <2>2
<1>5. QED
  BY <1>2, <1>3, <1>4

-----------------------------------------------------------------------------
(* The steps *)

\* At first there is nothing.
LEMMA PlayersInit == Init => Inv
<1> SUFFICES ASSUME Init PROVE Inv
  OBVIOUS
<1>1. MaxFrames \in Nat /\ MaxChanges \in Nat /\ NoInput \in Inputs
  BY PlayersAssumption DEF PlayersAssumption
<1>2. GameRight
  <2>1. pressed \in [Players -> SUBSET Buttons] /\ input \in [Players -> Inputs]
    BY <1>1 DEF Init
  <2>2. there \subseteq Players /\ changes \in 0..MaxChanges
    BY <1>1 DEF Init
  <2>3. {enabled, asked, open} \subseteq BOOLEAN
    BY DEF Init
  <2>4. QED
    BY <2>1, <2>2, <2>3 DEF GameRight
<1>3. LiveRight
  BY StateTypes DEF Init, LiveRight, Nulls, Null
<1>4. file = <<>> /\ Len(file) = 0 /\ DOMAIN file = 1..Len(file) /\ 1..Len(file) = {}
  BY DEF Init
<1>5. FileRight
  BY <1>1, <1>4, StateTypes DEF Init, FileRight
<1>6. PlayRight
  BY <1>4, StateTypes DEF Init, PlayRight
<1>7. QED
  BY <1>2, <1>3, <1>5, <1>6 DEF Inv

\* Deltas lead readers of whatever stands for their base.
LEMMA LeadsFrom ==
    ASSUME NEW from \in States, NEW old \in States, NEW deltas, NEW to,
           Leads(old, deltas, to), AllCover(from, old)
    PROVE  Leads(from, deltas, to)
BY AllCoverOrder DEF Leads

\* A frame that is stored is right, and one that is not changes nothing that is
\* stored.
LEMMA WriteRight ==
    ASSUME Inv, NEW now \in States, NEW key \in BOOLEAN, NEW others \in BOOLEAN,
           NEW checked, NEW taken, WriteFrame(now, key, others, checked, taken),
           key \/ open, Len(file) < MaxFrames \/ ~open, UNCHANGED pl,
           \A p \in Players : taken[p] \subseteq now[p].button,
           checked => \A p \in Players : (now[p].flags # {}) <=> p \in there
    PROVE  FileRight' /\ PlayRight'
<1> DEFINE old == IF key THEN Nulls ELSE base
           f   == [key     |-> key,
                   deltas  |-> [p \in Changed(now, old) |-> PlayerDelta(now[p], old[p])],
                   state   |-> now,
                   checked |-> checked,
                   there   |-> there,
                   pressed |-> taken]
           before == IF open THEN file ELSE <<>>
           stored == key \/ others \/ Changed(now, old) # {}
           n == Len(file)
<1>1. /\ file' = IF stored THEN Append(before, f) ELSE before
      /\ base' = now /\ open' = TRUE /\ at' = IF open THEN at ELSE 0
  BY DEF WriteFrame
<1>2. /\ base \in States /\ n \in 0..MaxFrames /\ DOMAIN file = 1..n
      /\ at \in 0..n /\ pl \in States /\ pl' = pl /\ MaxFrames \in Nat \ {0}
      /\ there \subseteq Players
      /\ open => n > 0 /\ AllCover(file[n].state, base)
      /\ \A k \in 1..n : FrameRight(file[k], StateBefore(k)) /\ file[k].state \in States
  BY PlayersAssumption DEF PlayersAssumption, Inv, GameRight, FileRight, PlayRight, FrameRight
<1>3. old \in States
  BY <1>2, StateTypes
<1>4. /\ Leads(old, f.deltas, now)
      /\ Changed(now, old) = {} => AllCover(old, now)
  BY <1>3, FrameLeads
<1>5. FrameRight(f, old) /\ f.key = key /\ f.state = now
  BY <1>2, <1>4 DEF FrameRight
<1>6. AllCover(now, now)
  BY AllCoverOrder
<1>7. CASE open /\ ~stored
  <2>1. file' = file /\ ~key /\ AllCover(base, now)
    BY <1>1, <1>4, <1>7
  <2>2. AllCover(file[n].state, now)
    BY <1>2, <1>7, <2>1, AllCoverOrder
  <2>3. FileRight'
    BY <1>1, <1>2, <1>7, <2>1, <2>2 DEF Inv, FileRight, StateBefore
  <2>4. PlayRight'
    BY <1>1, <1>2, <1>7, <2>1 DEF Inv, PlayRight
  <2>5. QED
    BY <2>3, <2>4
<1>8. CASE open /\ stored
  <2>1. /\ file' = Append(file, f) /\ Len(file') = n + 1 /\ DOMAIN file' = 1..(n + 1)
        /\ file'[n + 1] = f /\ \A k \in 1..n : file'[k] = file[k]
    BY <1>1, <1>2, <1>8
  <2>2. ASSUME NEW k \in 1..(n + 1)
        PROVE  (k = 1 => file'[k].key) /\ FrameRight(file'[k], StateBefore(k)')
    <3>1. CASE k \in 1..n
      <4>1. /\ StateBefore(k)' = StateBefore(k) /\ file'[k] = file[k]
            /\ k = 1 => file[k].key
        BY <1>2, <2>1, <3>1 DEF Inv, FileRight, StateBefore
      <4>2. QED
        BY <1>2, <3>1, <4>1
    <3>2. CASE k = n + 1
      <4>1. StateBefore(k)' = (IF key THEN Nulls ELSE file[n].state) /\ k # 1
        <5>1. n \in 1..n /\ k # 1 /\ k - 1 = n
          BY <1>2, <1>8, <3>2
        <5>2. file'[k] = f /\ file'[k - 1] = file[n]
          BY <2>1, <3>2, <5>1
        <5>3. QED
          BY <1>5, <5>1, <5>2 DEF StateBefore
      <4>2. Leads(StateBefore(k)', f.deltas, now)
        BY <1>2, <1>3, <1>4, <1>8, <4>1, LeadsFrom
      <4>3. FrameRight(f, StateBefore(k)')
        BY <1>5, <4>2 DEF FrameRight
      <4>4. QED
        BY <2>1, <3>2, <4>1, <4>3
    <3>3. QED
      BY <1>2, <3>1, <3>2
  <2>3. AllCover(file'[Len(file')].state, base')
    BY <1>1, <1>5, <1>6, <2>1
  <2>4. Len(file') \in 0..MaxFrames /\ Len(file') > 0
    BY <1>2, <1>8, <2>1
  <2>5. FileRight'
    BY <1>1, <2>1, <2>2, <2>3, <2>4 DEF FileRight
  <2>6. PlayRight'
    BY <1>1, <1>2, <1>8, <2>1 DEF Inv, PlayRight
  <2>7. QED
    BY <2>5, <2>6
<1>9. CASE ~open
  <2>1. /\ key /\ file' = Append(<<>>, f) /\ at' = 0
    BY <1>1, <1>9
  <2>2. Len(file') = 1 /\ DOMAIN file' = 1..1 /\ file'[1] = f
    BY <2>1
  <2>3. StateBefore(1)' = old
    BY <1>5, <2>1, <2>2 DEF StateBefore
  <2>4. AllCover(file'[Len(file')].state, base')
    BY <1>1, <1>5, <1>6, <2>2
  <2>5. 1 \in 0..MaxFrames
    BY <1>2
  <2>6. FileRight'
    <3>1. ASSUME NEW k \in 1..Len(file')
          PROVE  (k = 1 => file'[k].key) /\ FrameRight(file'[k], StateBefore(k)')
      <4>1. k = 1
        BY <2>2
      <4>2. QED
        BY <1>5, <2>1, <2>2, <2>3, <4>1
    <3>2. /\ Len(file') \in 0..MaxFrames /\ DOMAIN file' = 1..Len(file')
          /\ Len(file') > 0 /\ base' \in States
      BY <1>1, <2>2, <2>5
    <3>3. QED
      BY <2>4, <3>1, <3>2 DEF FileRight
  <2>7. PlayRight'
    BY <1>2, <2>1, <2>2 DEF PlayRight
  <2>8. QED
    BY <2>6, <2>7
<1>10. QED
  BY <1>7, <1>8, <1>9

\* One server frame keeps the invariant.
LEMMA HookKeeps ==
    ASSUME Inv,
           NEW pings \in BOOLEAN, NEW early \in BOOLEAN, NEW late \in BOOLEAN,
           NEW key \in BOOLEAN, NEW others \in BOOLEAN,
           StartFrameHook(pings, early, late, key, others)
    PROVE  Inv'
<1> DEFINE hooked == [p \in Players |->
                        IF ~enabled THEN live[p]
                        ELSE IF pings THEN Checked(Gathered(live[p], p), p)
                        ELSE Gathered(live[p], p)]
           now    == [p \in Players |-> Loaded(hooked[p], p)]
           taken  == [p \in Players |->
                        pressed[p] \cup IF enabled /\ p \in there THEN input[p].held ELSE {}]
           copies == asked /\ early
           writes == enabled /\ late
<1>1. /\ pings => enabled
      /\ key \/ ~writes \/ open
      /\ Len(file) < MaxFrames \/ ~writes \/ ~open
      /\ IF writes THEN WriteFrame(now, key, others, pings, taken)
         ELSE open' = (open /\ enabled) /\ UNCHANGED <<base, file, at>>
      /\ live' = IF copies THEN [p \in Players |-> Released(now[p])] ELSE now
      /\ pressed' = [p \in Players |-> IF copies THEN {} ELSE taken[p]]
      /\ asked' = (writes \/ (asked /\ ~copies))
      /\ UNCHANGED <<there, input, changes, enabled, pl>>
  BY DEF StartFrameHook, InFrame
<1>2. ASSUME NEW p \in Players
      PROVE  /\ now[p] \in State
             /\ taken[p] \subseteq now[p].button
             /\ p \in there /\ now[p].steamid # 0 => "connected" \in now[p].flags
             /\ pings => ((now[p].flags # {}) <=> p \in there)
  BY <1>1, HookRight DEF Inv
<1>3. now \in States
  BY <1>2 DEF States
<1>4. /\ GameRight /\ \A p \in Players : taken[p] \in SUBSET Buttons
  BY StateTypes DEF Inv, GameRight
<1>5. GameRight'
  <2>1. pressed' \in [Players -> SUBSET Buttons]
    BY <1>1, <1>4
  <2>2. {enabled', asked', open'} \subseteq BOOLEAN
    BY <1>1, <1>4 DEF GameRight, WriteFrame
  <2>3. QED
    BY <1>1, <1>4, <2>1, <2>2 DEF GameRight
<1>6. LiveRight'
  <2>1. ASSUME NEW s \in State
        PROVE  /\ Released(s) \in State /\ Released(s).flags = s.flags
               /\ Released(s).steamid = s.steamid
    BY DEF Released, State
  <2>2. CASE copies
    <3>1. live' = [p \in Players |-> Released(now[p])] /\ pressed' = [p \in Players |-> {}]
      BY <1>1, <2>2
    <3>2. QED
      BY <1>1, <1>2, <2>1, <3>1 DEF LiveRight, States, Inv, GameRight
  <2>3. CASE ~copies
    <3>1. live' = now /\ pressed' = taken
      BY <1>1, <2>3
    <3>2. QED
      BY <1>1, <1>2, <1>3, <3>1 DEF LiveRight, Inv, GameRight
  <2>4. QED
    BY <2>2, <2>3
<1>7. FileRight' /\ PlayRight'
  <2>1. CASE writes
    <3>1. /\ WriteFrame(now, key, others, pings, taken) /\ UNCHANGED pl
          /\ key \/ open
          /\ Len(file) < MaxFrames \/ ~open
      BY <1>1, <2>1
    <3>2. \A p \in Players : taken[p] \subseteq now[p].button
      BY <1>2
    <3>3. pings => \A p \in Players : (now[p].flags # {}) <=> p \in there
      BY <1>2
    <3>4. QED
      BY <1>3, <3>1, <3>2, <3>3, WriteRight
  <2>2. CASE ~writes
    BY <1>1, <2>2 DEF Inv, GameRight, FileRight, PlayRight, StateBefore
  <2>3. QED
    BY <2>1, <2>2
<1>8. QED
  BY <1>5, <1>6, <1>7 DEF Inv

\* The player goes from the states of a frame, or from nothing, to those of the
\* next.
LEMMA ReadKeeps ==
    ASSUME Inv, ReadFrame
    PROVE  Inv'
<1> DEFINE k   == at + 1
           old == IF file[k].key THEN Nulls ELSE pl
<1>1. /\ k \in 1..Len(file) /\ at' = k /\ pl' = Rebuild(old, file[k].deltas)
      /\ UNCHANGED recVars /\ UNCHANGED fileVars
  BY DEF ReadFrame, Rebuild, Inv, FileRight, PlayRight
<1>2. old \in States /\ AllCover(old, StateBefore(k))
  <2>1. CASE file[k].key
    BY <2>1, StateTypes, AllCoverOrder DEF StateBefore
  <2>2. CASE ~file[k].key
    <3>1. k # 1 /\ at > 0 /\ k - 1 = at
      BY <1>1, <2>2 DEF Inv, FileRight, PlayRight
    <3>2. QED
      BY <2>2, <3>1 DEF Inv, PlayRight, StateBefore
  <2>3. QED
    BY <2>1, <2>2
<1>3. Leads(StateBefore(k), file[k].deltas, file[k].state)
  BY <1>1 DEF Inv, FileRight, FrameRight
<1>4. pl' \in States /\ AllCover(pl', file[k].state)
  BY <1>1, <1>2, <1>3 DEF Leads
<1>5. PlayRight'
  BY <1>1, <1>4 DEF PlayRight, fileVars
<1>6. QED
  BY <1>1, <1>5
     DEF Inv, GameRight, LiveRight, FileRight, StateBefore, recVars, fileVars

\* A player who joins is known and connected.
LEMMA JoinKeeps ==
    ASSUME Inv, NEW p \in Players, NEW id \in SteamIds, Join(p, id)
    PROVE  LiveRight' /\ input' \in [Players -> Inputs]
<1>1. /\ live' = [live EXCEPT ![p].steamid = id, ![p].flags = @ \cup {"connected"}]
      /\ there' = there \cup {p} /\ input' = [input EXCEPT ![p] = NoInput]
      /\ UNCHANGED pressed
  BY DEF Join, GameStep
<1>2. live \in [Players -> State] /\ live[p] \in State
  BY DEF Inv, LiveRight, States
<1>3. /\ live[p].flags \cup {"connected"} \in Flags /\ id \in SteamIds \cup {0}
      /\ NoInput \in Inputs
  BY <1>2, StateTypes, PlayersAssumption DEF PlayersAssumption, State, Flags
<1>4. /\ live'[p].button = live[p].button /\ live'[p].punch = live[p].punch
      /\ live'[p].flags = live[p].flags \cup {"connected"} /\ live'[p].steamid = id
      /\ live'[p] \in State
      /\ \A q \in Players : q # p => live'[q] = live[q]
      /\ DOMAIN live' = Players /\ live' = [q \in Players |-> live'[q]]
  BY <1>1, <1>2, <1>3 DEF State
<1>5. live' \in States
  BY <1>2, <1>4 DEF States
<1>6. LiveRight'
  BY <1>1, <1>4, <1>5 DEF Inv, LiveRight, GameRight
<1>7. QED
  BY <1>1, <1>3, <1>6 DEF Inv, GameRight

\* One who leaves is neither valid nor shown.
LEMMA LeaveKeeps ==
    ASSUME Inv, NEW p \in Players, Leave(p)
    PROVE  LiveRight'
<1>1. /\ live' = [live EXCEPT ![p].flags = {}] /\ there' = there \ {p}
      /\ UNCHANGED pressed
  BY DEF Leave, GameStep
<1>2. live \in [Players -> State] /\ live[p] \in State
  BY DEF Inv, LiveRight, States
<1>3. /\ live'[p].button = live[p].button /\ live'[p] \in State
      /\ \A q \in Players : q # p => live'[q] = live[q]
      /\ DOMAIN live' = Players /\ live' = [q \in Players |-> live'[q]]
  BY <1>1, <1>2 DEF State
<1>4. live' \in States
  BY <1>2, <1>3 DEF States
<1>5. QED
  BY <1>1, <1>3, <1>4 DEF Inv, LiveRight, GameRight

\* Every step keeps the invariant.
LEMMA PlayersNext == Inv /\ [Next]_vars => Inv'
<1> SUFFICES ASSUME Inv, [Next]_vars PROVE Inv'
  OBVIOUS
<1> USE DEF fileVars, playVars
<1>1. MaxChanges \in Nat
  BY PlayersAssumption DEF PlayersAssumption
<1>2. ASSUME GameStep
      PROVE  /\ FileRight' /\ PlayRight'
             /\ changes' \in 0..MaxChanges /\ UNCHANGED <<pressed, asked, open>>
  BY <1>1, <1>2 DEF GameStep, Inv, GameRight, FileRight, PlayRight, StateBefore
<1>3. ASSUME NEW p \in Players, NEW now \in Inputs, Act(p, now) PROVE Inv'
  BY <1>2, <1>3 DEF Act, Inv, GameRight, LiveRight
<1>4. ASSUME NEW p \in Players, NEW id \in SteamIds, Join(p, id) PROVE Inv'
  BY <1>2, <1>4, JoinKeeps DEF Join, Inv, GameRight
<1>5. ASSUME NEW p \in Players, Leave(p) PROVE Inv'
  BY <1>2, <1>5, LeaveKeeps DEF Leave, Inv, GameRight
<1>6. CASE Changelevel
  BY <1>2, <1>6 DEF Changelevel, Inv, GameRight, LiveRight
<1>7. CASE ToggleDemo
  BY <1>7 DEF ToggleDemo, Inv, GameRight, LiveRight, FileRight, PlayRight, StateBefore
<1>8. ASSUME NEW pings \in BOOLEAN, NEW early \in BOOLEAN, NEW late \in BOOLEAN,
             NEW key \in BOOLEAN, NEW others \in BOOLEAN,
             StartFrameHook(pings, early, late, key, others)
      PROVE  Inv'
  BY <1>8, HookKeeps
<1>9. CASE ReadFrame
  BY <1>9, ReadKeeps
<1>10. CASE SeekBack \/ OpenDemo
  BY <1>10, StateTypes
     DEF SeekBack, OpenDemo, Inv, GameRight, LiveRight, FileRight, PlayRight,
         StateBefore, recVars
<1>11. CASE UNCHANGED vars
  BY <1>11
     DEF vars, Inv, GameRight, LiveRight, FileRight, PlayRight, StateBefore, recVars
<1>12. QED
  BY <1>3, <1>4, <1>5, <1>6, <1>7, <1>8, <1>9, <1>10, <1>11 DEF Next

-----------------------------------------------------------------------------
(* The theorems *)

\* Every variable keeps its type.
THEOREM PlayersTyped == Spec => []TypeOK
<1>1. Inv => TypeOK
  BY DEF Inv, GameRight, LiveRight, FileRight, PlayRight, States, TypeOK
<1>2. QED
  BY PlayersInit, PlayersNext, <1>1, PTL DEF Spec

\* The punch angle a replay starts from is never smaller than the recorded one
\* and vanishes exactly with it, although its decay is not stored
\* (DemoPlayerEnt.cpp:91).
THEOREM PunchIsBounded == Spec => []PunchBound
<1>1. Inv => PunchBound
  BY DEF Inv, PlayRight, AllCover, Covers, PunchBound
<1>2. QED
  BY PlayersInit, PlayersNext, <1>1, PTL DEF Spec

\* No press between two frames is lost (main.cpp:331, SvenTV.cpp:127).
THEOREM ButtonsAreShown == Spec => []ButtonsShown
<1>1. Inv => ButtonsShown
  <2> SUFFICES ASSUME Inv, at > 0, NEW p \in Players, pl[p].flags # {}
               PROVE  file[at].pressed[p] \subseteq pl[p].button
    BY DEF ButtonsShown
  <2>1. at \in 1..Len(file) /\ Covers(pl[p], file[at].state[p])
    BY DEF Inv, FileRight, PlayRight, AllCover
  <2>2. file[at].pressed[p] \subseteq file[at].state[p].button
    BY <2>1 DEF Inv, FileRight, FrameRight
  <2>3. QED
    BY <2>1, <2>2 DEF Covers
<1>2. QED
  BY PlayersInit, PlayersNext, <1>1, PTL DEF Spec

\* The players shown in a frame with the check of once a second are those on
\* the server.
THEOREM ThoseThereAreShown == Spec => []ShownAreThere
<1>1. Inv => ShownAreThere
  <2> SUFFICES ASSUME Inv, at > 0, file[at].checked
               PROVE  {p \in Players : pl[p].flags # {}} = file[at].there
    BY DEF ShownAreThere
  <2>1. at \in 1..Len(file) /\ \A p \in Players : pl[p].flags = file[at].state[p].flags
    BY DEF Inv, FileRight, PlayRight, AllCover, Covers
  <2>2. /\ file[at].there \subseteq Players
        /\ \A p \in Players : (file[at].state[p].flags # {}) <=> p \in file[at].there
    BY <2>1 DEF Inv, FileRight, FrameRight
  <2>3. QED
    BY <2>1, <2>2
<1>2. QED
  BY PlayersInit, PlayersNext, <1>1, PTL DEF Spec

-----------------------------------------------------------------------------
(* The refinement of Recording *)

\* States that stand for others look the same to the reader of a demo.
LEMMA CoverSeen ==
    ASSUME NEW rs \in States, NEW states \in States, AllCover(rs, states)
    PROVE  Seen(rs) = Seen(states)
BY DEF AllCover, Covers, Seen

\* Each step is a step of the recording or changes nothing it sees.
LEMMA RecordingStep ==
    ASSUME Inv, Inv', [Next]_vars
    PROVE  [Log!Next]_<<[i \in 1..Len(file) |-> Seen(file[i].state)], at,
                        IF at = 0 THEN <<>> ELSE Seen(pl)>>
<1> DEFINE log  == [i \in 1..Len(file) |-> Seen(file[i].state)]
           view == IF at = 0 THEN <<>> ELSE Seen(pl)
<1>1. /\ Len(file) \in Nat /\ Len(log) = Len(file)
      /\ Len(file') \in Nat /\ Len(log') = Len(file')
      /\ at \in 0..Len(file) /\ DOMAIN file = 1..Len(file)
  BY DEF Inv, FileRight, PlayRight
<1> SUFFICES Log!Next \/ UNCHANGED <<log, at, view>>
  OBVIOUS
<1> USE DEF recVars, fileVars, playVars
<1>2. ASSUME GameStep PROVE UNCHANGED <<log, at, view>>
  BY <1>2 DEF GameStep
<1>3. ASSUME NEW pings \in BOOLEAN, NEW early \in BOOLEAN, NEW late \in BOOLEAN,
             NEW key \in BOOLEAN, NEW others \in BOOLEAN,
             StartFrameHook(pings, early, late, key, others)
      PROVE  Log!Next \/ UNCHANGED <<log, at, view>>
  <2>1. PICK now, checked, taken :
          /\ UNCHANGED pl
          /\ key \/ ~(enabled /\ late) \/ open
          /\ IF enabled /\ late THEN WriteFrame(now, key, others, checked, taken)
             ELSE UNCHANGED <<file, at>>
    BY <1>3 DEF StartFrameHook
  <2>2. CASE ~(enabled /\ late)
    BY <2>1, <2>2
  <2>3. CASE enabled /\ late /\ open
    <3>1. UNCHANGED <<at, view>>
      BY <2>1, <2>3 DEF WriteFrame
    <3>2. PICK f : file' = file \/ file' = Append(file, f)
      BY <2>1, <2>3 DEF WriteFrame
    <3>3. CASE file' = file
      BY <3>1, <3>3
    <3>4. CASE file' = Append(file, f)
      <4>1. /\ Len(log') = Len(log) + 1
            /\ \A i \in 1..Len(log) : log'[i] = log[i]
        BY <3>4, <1>1
      <4>2. QED
        BY <3>1, <4>1 DEF Log!Next, Log!Record
    <3>5. QED
      BY <3>2, <3>3, <3>4
  <2>4. CASE enabled /\ late /\ ~open
    <3>1. PICK f : file' = Append(<<>>, f) /\ at' = 0
      BY <2>1, <2>4 DEF WriteFrame
    <3>2. Len(log') = 1
      BY <3>1, <1>1
    <3>3. QED
      BY <3>1, <3>2 DEF Log!Next, Log!Restart
  <2>5. QED
    BY <2>2, <2>3, <2>4
<1>4. CASE ReadFrame
  <2>1. UNCHANGED file /\ at' = at + 1 /\ at < Len(file) /\ at + 1 \in 1..Len(file)
    BY <1>4, <1>1 DEF ReadFrame
  <2>2. Seen(pl') = Seen(file[at + 1].state)
    <3>1. pl' \in States /\ AllCover(pl', file[at + 1].state)
      BY <2>1, <1>1 DEF Inv, PlayRight
    <3>2. file[at + 1].state \in States
      BY <2>1 DEF Inv, FileRight, FrameRight
    <3>3. QED
      BY <3>1, <3>2, CoverSeen
  <2>3. view' = Seen(pl)'
    BY <2>1, <1>1
  <2>4. QED
    BY <2>1, <2>2, <2>3, <1>1 DEF Log!Next, Log!Read, Seen
<1>5. CASE SeekBack \/ OpenDemo
  BY <1>5 DEF SeekBack, OpenDemo, Log!Next, Log!Rewind
<1>6. CASE UNCHANGED vars \/ ToggleDemo
  BY <1>6 DEF vars, ToggleDemo
<1>7. QED
  BY <1>2, <1>3, <1>4, <1>5, <1>6 DEF Next, Act, Join, Leave, Changelevel

\* Hooks, writer, file and player together implement the recording of who was
\* on the server: frames that are not stored, keyframes, players who come and go
\* in one slot, new files and seeking do not show.
THEOREM PlayersAreRecorded == Spec => PlaysRecording
<1>1. Init => Log!Init
  BY DEF Init, Log!Init
<1>2. QED
  BY PlayersInit, PlayersNext, RecordingStep, <1>1, PTL
     DEF Spec, PlaysRecording, Log!Spec
=============================================================================
