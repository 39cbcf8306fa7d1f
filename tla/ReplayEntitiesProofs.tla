------------------------- MODULE ReplayEntitiesProofs -------------------------
(***************************************************************************)
(* What a replay does to the running game, for recordings of any number of *)
(* slots and players and games of any number of edicts and clients.        *)
(*                                                                         *)
(* No two slots share an entity, and an entity that no slot has is a bot   *)
(* on its way out: that is what lets a slot change its own entity and no   *)
(* other, so that what is right for a slot stays right while the slots     *)
(* after it are simulated.  The slots are simulated one after the other,   *)
(* which the proofs follow by induction up to the number of slots.         *)
(***************************************************************************)
EXTENDS ReplayEntities, FiniteSetTheorems, WellFoundedInduction, TLAPS

Worlds == [ents : [Ids -> Entities \cup {Free}], h_ent : [Slots -> Ids \cup {0}],
           end : [Slots -> Positions], up : BOOLEAN]

\* Each slot has an entity of its own, if any; all others are bots that go.
GoodWorld(w) ==
    /\ w \in Worlds
    /\ \A s \in Slots : Has(w, s) =>
        /\ w.ents[w.h_ent[s]] # Free
        /\ KindOf(w, s) = "bot" => s \in Players
        /\ KindOf(w, s) = "beam" => s \notin Players
    /\ \A s, t \in Slots : Has(w, s) /\ w.h_ent[s] = w.h_ent[t] => s = t
    /\ \A id \in Ids : w.ents[id] # Free =>
        (\E s \in Slots : w.h_ent[s] = id) \/ (w.ents[id].kind = "bot" /\ w.ents[id].going)
    /\ Cardinality(Bots(w.ents)) + humans + ghosts <= Clients
    /\ ~w.up => Room(w.ents) = 0

Guests == humans \in 0..Clients /\ ghosts \in 0..1

\* The bots of w look as is has it, but for those of the players in P.
Dressing(w, is, P) ==
    \A p \in Players \ P :
        KindOf(w, p) = "bot" /\ is[p] # NoInfo => w.ents[w.h_ent[p]].look = is[p]

\* The state of the player in slot s.
InfoOf(is, s) == IF s \in Players THEN is[s] ELSE NoInfo

\* Slot s of w shows r, a player's with state info.
SlotShows(w, s, r, info) ==
    CASE r.kind = "none"   -> ~Has(w, s) \/ w.ents[w.h_ent[s]].hidden
      [] r.kind = "beam"   -> /\ KindOf(w, s) = "beam"
                              /\ w.ents[w.h_ent[s]].hidden = ~r.sprite
      [] r.kind = "player" -> /\ ~w.ents[w.h_ent[s]].hidden
                              /\ \/ KindOf(w, s) = "bot"
                                 \/ KindOf(w, s) = "model" /\ (info = NoInfo \/ Room(w.ents) = 0)
      [] OTHER             -> KindOf(w, s) = "model" /\ ~w.ents[w.h_ent[s]].hidden

\* A beam in slot s is at the entities of the slots it was recorded at.
BeamAttached(w, s, r) ==
    r.kind = "beam" => \A z \in Ends : r.ends[z] # 0 =>
        w.ents[w.h_ent[s]].attach[z] = w.h_ent[r.ends[z]]

\* It stays so while later slots are simulated, except for a slot that gets
\* another entity than it had in v.
BeamStays(v, w, s, r) ==
    r.kind = "beam" => \A z \in Ends :
        r.ends[z] # 0 /\ (r.ends[z] <= s \/ w.h_ent[r.ends[z]] = v.h_ent[r.ends[z]]) =>
            w.ents[w.h_ent[s]].attach[z] = w.h_ent[r.ends[z]]

World == [ents |-> ents, h_ent |-> h_ent, end |-> end, up |-> up]

StateInv ==
    /\ open \in BOOLEAN /\ fresh \in BOOLEAN /\ shown \in BOOLEAN
    /\ recorded \in Files /\ infos \in [Players -> Looks \cup {NoInfo}]
    /\ Guests
    /\ GoodWorld(World)
    /\ shown => open /\ up /\ ~fresh
    /\ up /\ ~open => \A s \in Slots : ~Has(World, s)

\* Slot s of w shows what is recorded, and will after the server frame.
Stands(w, s) ==
    /\ SlotShows(w, s, recorded[s], InfoOf(infos, s))
    /\ recorded[s] # Gone => ~w.ents[w.h_ent[s]].going
    /\ \A t \in Slots \ reused : \A z \in Ends :
        /\ recorded[s].kind = "beam" /\ recorded[s].ends[z] = t /\ recorded[t] # Gone
        /\ t > s => t \notin made
        => w.ents[w.h_ent[s]].attach[z] = w.h_ent[t]

ShownInv == shown => \A s \in Slots \ reused : Stands(World, s)

MonstersInv ==
    up /\ open /\ ~fresh => \A s \in Slots \ missed :
        recorded[s].kind = "monster" => World.end[s] = recorded[s].at

\* A player whose look has been 0 since it was cleared has that look or none.
PlainInv == plain \subseteq Players /\ \A p \in plain : infos[p] \in {0, NoInfo}

EntityInv ==
    /\ StateInv /\ PlainInv /\ ShownInv /\ MonstersInv
    /\ up => Dressing(World, infos, plain)

-----------------------------------------------------------------------------
(* Entities *)

\* Entities are models, bots or beams, and places in the game that are free are
\* none of these.
LEMMA EntityFacts ==
    /\ \A e \in Entities : e # Free /\ e.kind \in {"model", "bot", "beam"}
    /\ Free \notin Entities /\ Free.kind = "free"
    /\ \A e \in Entities : e.kind = "bot" => e.look \in Looks
    /\ New("model", 0) \in Entities /\ New("beam", 0) \in Entities
    /\ \A look \in Looks : New("bot", look) \in Entities
<1>1. Free.kind = "free"
  BY DEF Free
<1>2. \A e \in Entities : e.kind \in {"model", "bot", "beam"}
  BY DEF Entities
<1>3. \A e \in Entities : e.kind = "bot" => e.look \in Looks
  BY DEF Entities
<1>4. New("model", 0) \in Entities
  BY DEF New, Entities
<1>5. New("beam", 0) \in Entities
  <2>1. NoEnds \in [Ends -> Ids \cup {0}]
    BY DEF NoEnds
  <2>2. QED
    BY <2>1 DEF New, Entities
<1>6. \A look \in Looks : New("bot", look) \in Entities
  BY DEF New, Entities
<1>7. \A e \in Entities : e.kind # Free.kind
  BY <1>1, <1>2
<1>8. QED
  BY <1>1, <1>2, <1>3, <1>4, <1>5, <1>6, <1>7

\* What is true of the parts of a world.
LEMMA WorldFacts ==
    ASSUME NEW w, GoodWorld(w)
    PROVE  /\ w.ents \in [Ids -> Entities \cup {Free}]
           /\ w.h_ent \in [Slots -> Ids \cup {0}] /\ w.end \in [Slots -> Positions]
           /\ w.up \in BOOLEAN
           /\ \A s \in Slots : Has(w, s) =>
                w.h_ent[s] \in Ids /\ w.ents[w.h_ent[s]] \in Entities
           /\ IsFiniteSet(Bots(w.ents)) /\ Cardinality(Bots(w.ents)) \in Nat
<1>1. /\ w.ents \in [Ids -> Entities \cup {Free}]
      /\ w.h_ent \in [Slots -> Ids \cup {0}] /\ w.end \in [Slots -> Positions]
      /\ w.up \in BOOLEAN
  BY DEF GoodWorld, Worlds
<1>2. \A s \in Slots : Has(w, s) => w.h_ent[s] \in Ids
  BY <1>1 DEF Has
<1>3. \A s \in Slots : Has(w, s) => w.ents[w.h_ent[s]] # Free
  BY DEF GoodWorld
<1>4. \A s \in Slots : Has(w, s) => w.ents[w.h_ent[s]] \in Entities
  BY <1>1, <1>2, <1>3
<1>5. IsFiniteSet(Ids) /\ Bots(w.ents) \in SUBSET Ids
  BY ReplayAssumption DEF Bots
<1>6. IsFiniteSet(Bots(w.ents)) /\ Cardinality(Bots(w.ents)) \in Nat
  BY <1>5, FS_Subset, FS_CardinalityType
<1>7. QED
  BY <1>1, <1>2, <1>4, <1>6

\* More bots leave less room.
LEMMA RoomShrinks ==
    ASSUME NEW w, NEW q, GoodWorld(w), GoodWorld(q), Guests,
           Bots(w.ents) \subseteq Bots(q.ents)
    PROVE  Room(w.ents) \in Nat /\ Room(q.ents) \in Nat /\ Room(q.ents) <= Room(w.ents)
<1>1. IsFiniteSet(Bots(q.ents)) /\ Bots(w.ents) \in SUBSET Bots(q.ents)
  BY WorldFacts
<1>2. Cardinality(Bots(w.ents)) <= Cardinality(Bots(q.ents))
  BY <1>1, FS_Subset
<1>3. Cardinality(Bots(w.ents)) \in Nat /\ Cardinality(Bots(q.ents)) \in Nat
  BY WorldFacts
<1>4. /\ Cardinality(Bots(w.ents)) + humans + ghosts <= Clients
      /\ Cardinality(Bots(q.ents)) + humans + ghosts <= Clients
  BY DEF GoodWorld
<1>5. Clients \in Nat
  BY ReplayAssumption
<1>6. QED
  BY <1>2, <1>3, <1>4, <1>5 DEF Room, Guests

\* There is always an edict for a new entity.
LEMMA EdictLeft ==
    ASSUME NEW w, GoodWorld(w), Guests
    PROVE  \E id \in Ids : w.ents[id] = Free
<1> DEFINE H == {w.h_ent[s] : s \in Slots}
           B == Bots(w.ents)
<1>1. NumSlots \in Nat /\ Clients \in Nat /\ IsFiniteSet(Ids)
      /\ Cardinality(Ids) > NumSlots + Clients
  BY ReplayAssumption
<1>2. IsFiniteSet(Slots) /\ Cardinality(Slots) = NumSlots
  <2>1. 1 \in Int /\ NumSlots \in Int /\ (IF 1 > NumSlots THEN 0 ELSE NumSlots - 1 + 1) = NumSlots
    BY <1>1
  <2>2. QED
    BY <2>1, FS_Interval DEF Slots
<1>3. IsFiniteSet(H) /\ Cardinality(H) <= NumSlots
  <2> DEFINE f == [s \in Slots |-> w.h_ent[s]]
  <2>1. f \in Surjection(Slots, H)
    BY DEF Surjection
  <2>2. QED
    BY <1>2, <2>1, FS_Surjection
<1>4. IsFiniteSet(B) /\ Cardinality(B) \in Nat
  BY WorldFacts
<1>5. Cardinality(B) <= Clients
  <2>1. Cardinality(B) + humans + ghosts <= Clients
    BY DEF GoodWorld
  <2>2. QED
    BY <1>1, <1>4, <2>1 DEF Guests
<1>6. \A id \in Ids : w.ents[id] # Free => id \in H \cup B
  BY DEF GoodWorld, Bots
<1> HIDE DEF H, B
<1>7. IsFiniteSet(H \cup B) /\ Cardinality(H \cup B) <= NumSlots + Clients
  <2>1. IsFiniteSet(H \cup B) /\ IsFiniteSet(H \cap B)
        /\ Cardinality(H \cup B) = Cardinality(H) + Cardinality(B) - Cardinality(H \cap B)
    BY <1>3, <1>4, FS_Union, FS_Intersection
  <2>2. Cardinality(H) \in Nat /\ Cardinality(H \cap B) \in Nat
    BY <1>3, <2>1, FS_CardinalityType
  <2>3. QED
    BY <1>1, <1>3, <1>4, <1>5, <2>1, <2>2
<1>8. ~(Ids \subseteq H \cup B)
  <2>1. Ids \in SUBSET (H \cup B) => Cardinality(Ids) <= Cardinality(H \cup B)
    BY <1>7, FS_Subset
  <2>2. Cardinality(Ids) \in Nat /\ Cardinality(H \cup B) \in Nat
    BY <1>1, <1>7, FS_CardinalityType
  <2>3. QED
    BY <1>1, <1>7, <2>1, <2>2
<1>9. QED
  BY <1>6, <1>8

-----------------------------------------------------------------------------
(* Steps of one slot *)

\* From w to q the game changes for slot s only, and may go down.
SlotStep(w, q, s) ==
    /\ GoodWorld(q)
    /\ \A t \in Slots \ {s} :
        /\ q.h_ent[t] = w.h_ent[t] /\ q.end[t] = w.end[t]
        /\ Has(w, t) => q.ents[w.h_ent[t]] = w.ents[w.h_ent[t]]
    /\ Bots(w.ents) \subseteq Bots(q.ents)
    /\ q.up => w.up

LEMMA StepTransitive ==
    ASSUME NEW w, NEW q, NEW r, NEW s \in Slots, SlotStep(w, q, s), SlotStep(q, r, s)
    PROVE  SlotStep(w, r, s)
BY DEF SlotStep, Has

\* Slot s changes its entity to e, of the same kind, or its target.
LEMMA EditStep ==
    ASSUME NEW w, GoodWorld(w), Guests, NEW s \in Slots, NEW q \in Worlds,
           q.h_ent = w.h_ent, q.up = w.up,
           \A t \in Slots \ {s} : q.end[t] = w.end[t],
           Has(w, s) => KindOf(q, s) = KindOf(w, s) /\ q.ents[w.h_ent[s]] # Free,
           \A id \in Ids : id # w.h_ent[s] => q.ents[id] = w.ents[id]
    PROVE  SlotStep(w, q, s)
<1>1. /\ w.ents \in [Ids -> Entities \cup {Free}] /\ q.ents \in [Ids -> Entities \cup {Free}]
      /\ w.h_ent \in [Slots -> Ids \cup {0}]
      /\ \A t \in Slots : Has(w, t) => w.h_ent[t] \in Ids
  BY WorldFacts DEF Worlds
<1>2. \A t \in Slots : Has(q, t) = Has(w, t)
  BY DEF Has
<1>3. ASSUME NEW t \in Slots \ {s}, Has(w, t)
      PROVE  q.ents[w.h_ent[t]] = w.ents[w.h_ent[t]] /\ KindOf(q, t) = KindOf(w, t)
  <2>1. w.h_ent[t] # w.h_ent[s]
    BY <1>3 DEF GoodWorld
  <2>2. q.ents[w.h_ent[t]] = w.ents[w.h_ent[t]]
    BY <1>1, <1>3, <2>1
  <2>3. QED
    BY <1>2, <1>3, <2>2 DEF KindOf
<1>4. \A id \in Ids : q.ents[id].kind = w.ents[id].kind
  <2>1. w.h_ent[s] \in Ids => Has(w, s) /\ Has(q, s)
    BY <1>2, ReplayAssumption DEF Has
  <2>2. w.h_ent[s] \in Ids => q.ents[w.h_ent[s]].kind = w.ents[w.h_ent[s]].kind
    BY <2>1 DEF KindOf
  <2>3. QED
    BY <2>2
<1>5. Bots(q.ents) = Bots(w.ents)
  BY <1>4 DEF Bots
<1>6. \A t \in Slots : Has(q, t) =>
        /\ q.ents[q.h_ent[t]] # Free
        /\ KindOf(q, t) = "bot" => t \in Players
        /\ KindOf(q, t) = "beam" => t \notin Players
  BY <1>2, <1>3 DEF GoodWorld
<1>7. \A t, u \in Slots : Has(q, t) /\ q.h_ent[t] = q.h_ent[u] => t = u
  BY <1>2 DEF GoodWorld
<1>8. \A id \in Ids : q.ents[id] # Free =>
        (\E t \in Slots : q.h_ent[t] = id) \/ (q.ents[id].kind = "bot" /\ q.ents[id].going)
  BY DEF GoodWorld
<1>9. Cardinality(Bots(q.ents)) + humans + ghosts <= Clients /\ (~q.up => Room(q.ents) = 0)
  BY <1>5 DEF GoodWorld, Room
<1>10. GoodWorld(q)
  BY <1>6, <1>7, <1>8, <1>9 DEF GoodWorld
<1>11. QED
  BY <1>3, <1>5, <1>10 DEF SlotStep

\* Slot s gets a new entity for the one it had, which is no bot.
Replaced(w, q, s, new) ==
    /\ SlotStep(w, q, s) /\ q.up = w.up /\ q.end = w.end
    /\ Has(q, s) /\ q.ents[q.h_ent[s]] = new

LEMMA ReplaceStep ==
    ASSUME NEW w, GoodWorld(w), Guests, NEW s \in Slots, NEW new \in Entities,
           new.kind = "bot" => s \in Players /\ w.up /\ Room(w.ents) > 0,
           new.kind = "beam" => s \notin Players,
           KindOf(w, s) # "bot"
    PROVE  Replaced(w, Replace(w, s, new), s, new)
<1> DEFINE id == CHOOSE i \in Ids : w.ents[i] = Free
           old == w.h_ent[s]
           q == Replace(w, s, new)
<1>1. id \in Ids /\ w.ents[id] = Free
  BY EdictLeft
<1>2. /\ w \in Worlds /\ w.ents \in [Ids -> Entities \cup {Free}]
      /\ w.h_ent \in [Slots -> Ids \cup {0}]
      /\ \A t \in Slots : Has(w, t) => w.h_ent[t] \in Ids /\ w.ents[w.h_ent[t]] # Free
      /\ 0 \notin Ids
  BY WorldFacts, ReplayAssumption DEF GoodWorld
<1>3. q = [w EXCEPT !.ents = [i \in Ids |-> IF i = id THEN new
                                            ELSE IF i = old THEN Free ELSE w.ents[i]],
                    !.h_ent = [w.h_ent EXCEPT ![s] = id]]
  BY <1>2 DEF Replace, Worlds
<1> HIDE DEF id, q
<1>4. /\ q \in Worlds
      /\ q.h_ent = [w.h_ent EXCEPT ![s] = id]
      /\ q.ents = [i \in Ids |-> IF i = id THEN new ELSE IF i = old THEN Free ELSE w.ents[i]]
      /\ q.end = w.end /\ q.up = w.up
  BY <1>1, <1>2, <1>3 DEF Worlds
<1>5. /\ q.h_ent[s] = id /\ q.ents[id] = new /\ Has(q, s) /\ KindOf(q, s) = new.kind
      /\ \A i \in Ids : i # id => q.ents[i] = IF i = old THEN Free ELSE w.ents[i]
      /\ \A t \in Slots : t # s => q.h_ent[t] = w.h_ent[t]
  BY <1>1, <1>2, <1>4 DEF Has, KindOf
<1>6. ASSUME NEW t \in Slots \ {s}, Has(w, t)
      PROVE  /\ q.h_ent[t] = w.h_ent[t] /\ q.ents[w.h_ent[t]] = w.ents[w.h_ent[t]]
             /\ w.h_ent[t] # id /\ KindOf(q, t) = KindOf(w, t)
  <2>1. w.h_ent[t] # old
    BY <1>6 DEF GoodWorld
  <2>2. w.h_ent[t] # id /\ w.h_ent[t] \in Ids
    BY <1>1, <1>2, <1>6
  <2>3. q.ents[w.h_ent[t]] = w.ents[w.h_ent[t]] /\ q.h_ent[t] = w.h_ent[t]
    BY <1>5, <2>1, <2>2
  <2>4. QED
    BY <1>6, <2>2, <2>3 DEF KindOf, Has
<1>7. \A t \in Slots \ {s} : Has(q, t) <=> Has(w, t)
  BY <1>5 DEF Has
<1>8. \A t \in Slots : Has(q, t) =>
        /\ q.ents[q.h_ent[t]] # Free
        /\ KindOf(q, t) = "bot" => t \in Players
        /\ KindOf(q, t) = "beam" => t \notin Players
  <2> SUFFICES ASSUME NEW t \in Slots, Has(q, t)
               PROVE  /\ q.ents[q.h_ent[t]] # Free
                      /\ KindOf(q, t) = "bot" => t \in Players
                      /\ KindOf(q, t) = "beam" => t \notin Players
    OBVIOUS
  <2>1. CASE t = s
    BY <2>1, <1>5, EntityFacts
  <2>2. CASE t # s
    BY <2>2, <1>2, <1>6, <1>7 DEF GoodWorld
  <2>3. QED
    BY <2>1, <2>2
<1>9. \A t, u \in Slots : Has(q, t) /\ q.h_ent[t] = q.h_ent[u] => t = u
  <2> SUFFICES ASSUME NEW t \in Slots, NEW u \in Slots, Has(q, t), q.h_ent[t] = q.h_ent[u]
               PROVE  t = u
    OBVIOUS
  <2>1. Has(q, u)
    BY DEF Has
  <2>2. CASE t # s /\ u # s
    BY <2>1, <2>2, <1>5, <1>7 DEF GoodWorld
  <2>3. CASE t = s /\ u # s
    BY <2>1, <2>3, <1>5, <1>6, <1>7
  <2>4. CASE t # s /\ u = s
    BY <2>1, <2>4, <1>5, <1>6, <1>7
  <2>5. QED
    BY <2>2, <2>3, <2>4
<1>10. \A i \in Ids : q.ents[i] # Free =>
        (\E t \in Slots : q.h_ent[t] = i) \/ (q.ents[i].kind = "bot" /\ q.ents[i].going)
  <2> SUFFICES ASSUME NEW i \in Ids, q.ents[i] # Free
               PROVE  \/ \E t \in Slots : q.h_ent[t] = i
                      \/ q.ents[i].kind = "bot" /\ q.ents[i].going
    OBVIOUS
  <2>1. CASE i = id
    BY <2>1, <1>5
  <2>2. CASE i # id
    <3>1. i # old /\ q.ents[i] = w.ents[i]
      BY <2>2, <1>5
    <3>2. (\E t \in Slots : w.h_ent[t] = i) \/ (w.ents[i].kind = "bot" /\ w.ents[i].going)
      BY <3>1 DEF GoodWorld
    <3>3. \A t \in Slots : w.h_ent[t] = i => t # s /\ q.h_ent[t] = i
      BY <3>1, <1>5
    <3>4. QED
      BY <3>1, <3>2, <3>3
  <2>3. QED
    BY <2>1, <2>2
<1>11. Bots(w.ents) \subseteq Bots(q.ents) /\ Bots(q.ents) \subseteq Bots(w.ents) \cup {id}
       /\ (new.kind # "bot" => Bots(q.ents) \subseteq Bots(w.ents))
  <2>1. \A i \in Ids : w.ents[i].kind = "bot" => i # id /\ i # old
    <3>1. old \in Ids => w.ents[old].kind # "bot"
      BY <1>2 DEF KindOf, Has
    <3>2. QED
      BY <1>1, <3>1, EntityFacts
  <2>2. \A i \in Ids : i # id /\ q.ents[i].kind = "bot" => w.ents[i].kind = "bot"
    BY <1>5, EntityFacts
  <2>3. QED
    BY <1>5, <2>1, <2>2 DEF Bots
<1>12. Cardinality(Bots(q.ents)) + humans + ghosts <= Clients /\ (~q.up => Room(q.ents) = 0)
  <2>1. IsFiniteSet(Bots(w.ents)) /\ Cardinality(Bots(w.ents)) \in Nat
    BY WorldFacts
  <2>2. /\ Cardinality(Bots(w.ents)) + humans + ghosts <= Clients /\ Clients \in Nat
        /\ ~w.up => Room(w.ents) = 0
    BY ReplayAssumption DEF GoodWorld
  <2>3. CASE new.kind = "bot"
    <3>1. w.up /\ Clients - humans - ghosts - Cardinality(Bots(w.ents)) > 0
      BY <2>3 DEF Room
    <3>2. IsFiniteSet(Bots(w.ents) \cup {id})
          /\ Cardinality(Bots(w.ents) \cup {id}) =
                IF id \in Bots(w.ents) THEN Cardinality(Bots(w.ents))
                ELSE Cardinality(Bots(w.ents)) + 1
      BY <2>1, FS_AddElement
    <3>3. Cardinality(Bots(q.ents)) <= Cardinality(Bots(w.ents) \cup {id})
          /\ IsFiniteSet(Bots(q.ents))
      <4>1. Bots(q.ents) \in SUBSET (Bots(w.ents) \cup {id})
        BY <1>11
      <4>2. QED
        BY <3>2, <4>1, FS_Subset
    <3>4. Cardinality(Bots(q.ents)) \in Nat
      BY <3>3, FS_CardinalityType
    <3>5. QED
      BY <1>4, <2>1, <2>2, <3>1, <3>2, <3>3, <3>4 DEF Guests
  <2>4. CASE new.kind # "bot"
    <3>1. Bots(q.ents) = Bots(w.ents)
      BY <1>11, <2>4
    <3>2. QED
      BY <1>4, <2>2, <3>1 DEF Room
  <2>5. QED
    BY <2>3, <2>4
<1>13. GoodWorld(q)
  BY <1>4, <1>8, <1>9, <1>10, <1>12 DEF GoodWorld
<1>14. SlotStep(w, q, s)
  BY <1>4, <1>5, <1>6, <1>11, <1>13 DEF SlotStep
<1>15. Replaced(w, q, s, new)
  BY <1>4, <1>5, <1>14 DEF Replaced
<1>16. QED
  BY <1>15 DEF q

\* What is changed of an entity: it is shown, or hidden and perhaps removed.
Visible(e)   == [e EXCEPT !.hidden = FALSE]
Hidden(e, g) == [e EXCEPT !.hidden = TRUE, !.going = g]

LEMMA EntityEdits ==
    ASSUME NEW e \in Entities, NEW g \in BOOLEAN
    PROVE  /\ Visible(e) \in Entities /\ Visible(e).kind = e.kind
           /\ ~Visible(e).hidden /\ Visible(e).look = e.look
           /\ Hidden(e, g) \in Entities /\ Hidden(e, g).kind = e.kind
           /\ Hidden(e, g).hidden /\ Hidden(e, g).look = e.look
<1>1. CASE e.kind = "model"
  BY <1>1 DEF Entities, Visible, Hidden
<1>2. CASE e.kind = "bot"
  BY <1>2 DEF Entities, Visible, Hidden
<1>3. CASE e.kind = "beam"
  BY <1>3 DEF Entities, Visible, Hidden
<1>4. QED
  BY <1>1, <1>2, <1>3, EntityFacts

\* The entity of slot s becomes f, of the same kind.
SetEntity(w, s, f) == [w EXCEPT !.ents = [w.ents EXCEPT ![w.h_ent[s]] = f]]

EntitySet(w, q, s, f) ==
    /\ SlotStep(w, q, s)
    /\ q.h_ent = w.h_ent /\ q.end = w.end /\ q.up = w.up
    /\ q.ents = [w.ents EXCEPT ![w.h_ent[s]] = f] /\ q.ents[w.h_ent[s]] = f

LEMMA SetEntityStep ==
    ASSUME NEW w, GoodWorld(w), Guests, NEW s \in Slots, Has(w, s),
           NEW f \in Entities, f.kind = KindOf(w, s)
    PROVE  EntitySet(w, SetEntity(w, s, f), s, f)
<1> DEFINE q == SetEntity(w, s, f)
<1>1. w \in Worlds /\ w.ents \in [Ids -> Entities \cup {Free}] /\ w.h_ent[s] \in Ids
  BY WorldFacts DEF GoodWorld
<1>2. /\ q \in Worlds /\ q.h_ent = w.h_ent /\ q.end = w.end /\ q.up = w.up
      /\ q.ents = [w.ents EXCEPT ![w.h_ent[s]] = f]
  BY <1>1 DEF SetEntity, Worlds
<1> HIDE DEF q
<1>3. q.ents[w.h_ent[s]] = f /\ \A id \in Ids : id # w.h_ent[s] => q.ents[id] = w.ents[id]
  BY <1>1, <1>2
<1>4. KindOf(q, s) = KindOf(w, s)
  BY <1>2, <1>3 DEF KindOf, Has
<1>5. f # Free
  BY EntityFacts
<1>6. SlotStep(w, q, s)
  BY <1>2, <1>3, <1>4, <1>5, EditStep
<1>7. EntitySet(w, q, s, f)
  BY <1>2, <1>3, <1>6 DEF EntitySet
<1>8. QED
  BY <1>7 DEF q

\* The target of slot s becomes x.
SetEnd(w, s, x) == [w EXCEPT !.end[s] = x]

EndSet(w, q, s, x) ==
    /\ SlotStep(w, q, s)
    /\ q.h_ent = w.h_ent /\ q.ents = w.ents /\ q.up = w.up /\ q.end[s] = x

LEMMA SetEndStep ==
    ASSUME NEW w, GoodWorld(w), Guests, NEW s \in Slots, NEW x \in Positions
    PROVE  EndSet(w, SetEnd(w, s, x), s, x)
<1> DEFINE q == SetEnd(w, s, x)
<1>1. w \in Worlds /\ w.end \in [Slots -> Positions]
  BY WorldFacts DEF GoodWorld
<1>2. /\ q \in Worlds /\ q.h_ent = w.h_ent /\ q.ents = w.ents /\ q.up = w.up
      /\ q.end = [w.end EXCEPT ![s] = x]
  BY <1>1 DEF SetEnd, Worlds
<1> HIDE DEF q
<1>3. q.end[s] = x /\ \A t \in Slots \ {s} : q.end[t] = w.end[t]
  BY <1>1, <1>2
<1>4. KindOf(q, s) = KindOf(w, s)
  BY <1>2 DEF KindOf, Has
<1>5. Has(w, s) => w.ents[w.h_ent[s]] # Free
  BY DEF GoodWorld
<1>6. SlotStep(w, q, s)
  BY <1>2, <1>3, <1>4, <1>5, EditStep
<1>7. EndSet(w, q, s, x)
  BY <1>2, <1>3, <1>6 DEF EndSet
<1>8. QED
  BY <1>7 DEF q

-----------------------------------------------------------------------------
(* Simulating a slot *)

\* A slot records nothing, a player, a monster or a beam.
LEMMA RecordedFacts ==
    ASSUME NEW s \in Slots, NEW r \in Recordings(s)
    PROVE  /\ r = Gone \/ r.kind \in {"player", "monster", "beam"}
           /\ r.kind = "none" <=> r = Gone
           /\ r.kind = "player" => s \in Players
           /\ r.kind \in {"monster", "beam"} => s \notin Players
           /\ r.kind = "monster" => r.at \in Positions
           /\ r.kind = "beam" => r.ends \in [Ends -> 0..NumSlots] /\ r.sprite \in BOOLEAN
           /\ Place(r) \in Positions
<1>1. 0 \in Positions
  BY ReplayAssumption
<1>2. CASE s \in Players
  <2>1. r = Gone \/ r = [Gone EXCEPT !.kind = "player"]
    BY <1>2 DEF Recordings
  <2>2. QED
    BY <1>1, <1>2, <2>1 DEF Gone, Place
<1>3. CASE s \notin Players
  <2>1. \/ r = Gone
        \/ r \in [kind : {"monster"}, at : Positions, ends : {NoEnds}, sprite : {FALSE}]
        \/ r \in [kind : {"beam"}, at : {0}, ends : [Ends -> 0..NumSlots], sprite : BOOLEAN]
    BY <1>3 DEF Recordings
  <2>2. CASE r = Gone
    BY <1>1, <1>3, <2>2 DEF Gone, Place
  <2>3. CASE r \in [kind : {"monster"}, at : Positions, ends : {NoEnds}, sprite : {FALSE}]
    BY <1>3, <2>3 DEF Gone, Place
  <2>4. CASE r \in [kind : {"beam"}, at : {0}, ends : [Ends -> 0..NumSlots], sprite : BOOLEAN]
    BY <1>1, <1>3, <2>4 DEF Gone, Place
  <2>5. QED
    BY <2>1, <2>2, <2>3, <2>4
<1>4. QED
  BY <1>2, <1>3

\* Slot s no longer shows anything.
Hides(w, q, s) ==
    /\ SlotStep(w, q, s) /\ q.h_ent = w.h_ent /\ q.end = w.end /\ q.up = w.up
    /\ KindOf(q, s) = KindOf(w, s)
    /\ Has(w, s) => /\ q.ents[w.h_ent[s]].hidden
                    /\ q.ents[w.h_ent[s]].look = w.ents[w.h_ent[s]].look

LEMMA HideStep ==
    ASSUME NEW w, GoodWorld(w), Guests, NEW s \in Slots
    PROVE  Hides(w, Hide(w, s), s)
<1>1. w \in Worlds
  BY DEF GoodWorld
<1>2. CASE ~Has(w, s)
  BY <1>1, <1>2 DEF Hide, SlotStep, Hides
<1>3. CASE Has(w, s)
  <2>1. PICK f \in Entities : /\ f.kind = KindOf(w, s) /\ f.look = w.ents[w.h_ent[s]].look
                              /\ f.hidden /\ Hide(w, s) = SetEntity(w, s, f)
    <3> DEFINE e == w.ents[w.h_ent[s]]
               g == e.going \/ KindOf(w, s) # "bot"
               f == Hidden(e, g)
    <3>1. e \in Entities /\ e.kind = KindOf(w, s) /\ g \in BOOLEAN
      BY <1>3, WorldFacts DEF KindOf
    <3>2. f \in Entities /\ f.kind = KindOf(w, s) /\ f.hidden /\ f.look = e.look
      <4> HIDE DEF e, g
      <4>1. QED
        BY <3>1, EntityEdits
    <3>3. Hide(w, s) = SetEntity(w, s, f)
      BY <1>1, <1>3 DEF Hide, SetEntity, Hidden, Worlds
    <3> HIDE DEF f
    <3>4. QED
      BY <3>2, <3>3
  <2> DEFINE q == SetEntity(w, s, f)
  <2>2. EntitySet(w, q, s, f)
    BY <1>3, <2>1, SetEntityStep
  <2> HIDE DEF q
  <2>3. Hide(w, s) = q
    BY <2>1 DEF q
  <2>4. Hides(w, q, s)
    BY <1>3, <2>1, <2>2 DEF EntitySet, Hides, KindOf, Has
  <2>5. QED
    BY <2>3, <2>4
<1>4. QED
  BY <1>2, <1>3

\* Slot s of w has an entity for r, a player's with state info.
EntityFor(w, s, r, info) ==
    CASE r.kind = "beam"   -> KindOf(w, s) = "beam"
      [] r.kind = "player" -> \/ KindOf(w, s) = "bot"
                              \/ KindOf(w, s) = "model" /\ (info = NoInfo \/ Room(w.ents) = 0)
      [] OTHER             -> KindOf(w, s) = "model"

\* A bot in slot s looks as info has it, unless it was there before.
LooksAs(w, q, s, info) ==
    KindOf(q, s) = "bot" =>
        \/ info # NoInfo /\ q.ents[q.h_ent[s]].look = info
        \/ KindOf(w, s) = "bot" /\ q.ents[q.h_ent[s]].look = w.ents[w.h_ent[s]].look

\* What convertEdictType makes before it shows it.
Made(w, s, r, info) ==
    CASE NeedsBot(w, s, r, info) ->
            IF Room(w.ents) > 0 THEN Replace(w, s, New("bot", info)) ELSE w
      [] ~NeedsBot(w, s, r, info) /\ NeedsBeam(w, s, r) -> Replace(w, s, New("beam", 0))
      [] ~NeedsBot(w, s, r, info) /\ NeedsModel(w, s, r) -> Replace(w, s, New("model", 0))
      [] OTHER -> w

MadeFor(w, q, s, r, info) ==
    /\ SlotStep(w, q, s) /\ q.up /\ q.end = w.end
    /\ IF Has(q, s) THEN EntityFor(q, s, r, info) ELSE Room(w.ents) = 0 /\ q = w
    /\ LooksAs(w, q, s, info)

LEMMA MadeStep ==
    ASSUME NEW w, GoodWorld(w), w.up, Guests, NEW s \in Slots,
           NEW r \in Recordings(s), r # Gone, NEW info \in Looks \cup {NoInfo}
    PROVE  MadeFor(w, Made(w, s, r, info), s, r, info)
<1> DEFINE q == Made(w, s, r, info)
<1> SUFFICES MadeFor(w, q, s, r, info)
  OBVIOUS
<1>1. /\ KindOf(w, s) \in {"none", "model", "bot", "beam"}
      /\ KindOf(w, s) = "none" <=> ~Has(w, s)
      /\ KindOf(w, s) = "bot" => s \in Players
      /\ KindOf(w, s) = "beam" => s \notin Players
  <2>1. Has(w, s) => KindOf(w, s) \in {"model", "bot", "beam"}
    BY WorldFacts, EntityFacts DEF KindOf
  <2>2. ~Has(w, s) => KindOf(w, s) = "none"
    BY DEF KindOf
  <2>3. Has(w, s) =>
            (KindOf(w, s) = "bot" => s \in Players) /\ (KindOf(w, s) = "beam" => s \notin Players)
    BY DEF GoodWorld
  <2>4. QED
    BY <2>1, <2>2, <2>3
<1>2. /\ r.kind \in {"player", "monster", "beam"}
      /\ r.kind = "player" => s \in Players
      /\ r.kind \in {"monster", "beam"} => s \notin Players
  BY RecordedFacts
<1>3. ASSUME NEW new \in Entities, q = Replace(w, s, new),
             new.kind = "bot" => s \in Players /\ w.up /\ Room(w.ents) > 0,
             new.kind = "beam" => s \notin Players, KindOf(w, s) # "bot"
      PROVE  /\ SlotStep(w, q, s) /\ q.up /\ q.end = w.end /\ Has(q, s)
             /\ KindOf(q, s) = new.kind /\ q.ents[q.h_ent[s]] = new
  <2> DEFINE x == Replace(w, s, new)
  <2>1. Replaced(w, x, s, new)
    BY <1>3, ReplaceStep
  <2> HIDE DEF x, q
  <2>2. q = x
    BY <1>3 DEF x
  <2>3. QED
    BY <2>1, <2>2 DEF KindOf, Replaced
<1>4. SlotStep(w, w, s)
  BY DEF SlotStep
<1>5. CASE NeedsBot(w, s, r, info) /\ Room(w.ents) > 0
  <2> DEFINE new == New("bot", info)
  <2>1. q = Replace(w, s, new)
    BY <1>5 DEF Made
  <2>2. r.kind = "player" /\ KindOf(w, s) # "bot" /\ info # NoInfo /\ info \in Looks
    BY <1>5 DEF NeedsBot
  <2>3. new \in Entities /\ new.kind = "bot" /\ new.look = info
    BY <2>2, EntityFacts DEF New
  <2> HIDE DEF new, q
  <2>4. /\ SlotStep(w, q, s) /\ q.up /\ q.end = w.end /\ Has(q, s)
        /\ KindOf(q, s) = "bot" /\ q.ents[q.h_ent[s]].look = info
    BY <1>2, <1>3, <1>5, <2>1, <2>2, <2>3
  <2>5. QED
    BY <2>2, <2>4 DEF EntityFor, LooksAs, MadeFor
<1>6. CASE NeedsBot(w, s, r, info) /\ ~(Room(w.ents) > 0)
  <2>1. q = w
    BY <1>6 DEF Made
  <2>2. r.kind = "player" /\ KindOf(w, s) # "bot"
    BY <1>6 DEF NeedsBot
  <2>3. Room(w.ents) = 0
    <3>1. Room(w.ents) \in Nat
      BY RoomShrinks
    <3>2. QED
      BY <1>6, <3>1
  <2>4. Has(w, s) => KindOf(w, s) = "model"
    BY <1>1, <1>2, <2>2
  <2> HIDE DEF q
  <2>5. QED
    BY <1>4, <2>1, <2>2, <2>3, <2>4 DEF EntityFor, LooksAs, MadeFor
<1>7. CASE ~NeedsBot(w, s, r, info) /\ NeedsBeam(w, s, r)
  <2> DEFINE new == New("beam", 0)
  <2>1. q = Replace(w, s, new)
    BY <1>7 DEF Made, NeedsBeam, NeedsModel
  <2>2. r.kind = "beam" /\ KindOf(w, s) # "bot"
    BY <1>1, <1>2, <1>7 DEF NeedsBeam
  <2>3. new \in Entities /\ new.kind = "beam"
    BY EntityFacts DEF New
  <2> HIDE DEF new, q
  <2>4. SlotStep(w, q, s) /\ q.up /\ q.end = w.end /\ Has(q, s) /\ KindOf(q, s) = "beam"
    BY <1>2, <1>3, <2>1, <2>2, <2>3
  <2>5. QED
    BY <2>2, <2>4 DEF EntityFor, LooksAs, MadeFor
<1>8. CASE ~NeedsBot(w, s, r, info) /\ ~NeedsBeam(w, s, r) /\ NeedsModel(w, s, r)
  <2> DEFINE new == New("model", 0)
  <2>1. q = Replace(w, s, new)
    BY <1>8 DEF Made
  <2>2. r.kind # "beam" /\ KindOf(w, s) # "bot" /\ (r.kind = "player" => info = NoInfo)
    BY <1>8 DEF NeedsModel, NeedsBot
  <2>3. new \in Entities /\ new.kind = "model"
    BY EntityFacts DEF New
  <2> HIDE DEF new, q
  <2>4. SlotStep(w, q, s) /\ q.up /\ q.end = w.end /\ Has(q, s) /\ KindOf(q, s) = "model"
    BY <1>2, <1>3, <2>1, <2>2, <2>3
  <2>5. QED
    BY <2>2, <2>4 DEF EntityFor, LooksAs, MadeFor
<1>9. CASE ~NeedsBot(w, s, r, info) /\ ~NeedsBeam(w, s, r) /\ ~NeedsModel(w, s, r)
  <2>1. q = w
    BY <1>9 DEF Made
  <2>2. /\ r.kind = "beam" => KindOf(w, s) = "beam"
        /\ r.kind # "beam" => KindOf(w, s) \in {"model", "bot"}
        /\ r.kind = "player" => KindOf(w, s) = "bot" \/ info = NoInfo
    BY <1>1, <1>9 DEF NeedsBot, NeedsBeam, NeedsModel
  <2>3. r.kind = "monster" => KindOf(w, s) = "model"
    BY <1>1, <1>2, <2>2
  <2>4. Has(w, s)
    BY <1>1, <1>2, <2>2
  <2> HIDE DEF q
  <2>5. QED
    BY <1>2, <1>4, <2>1, <2>2, <2>3, <2>4 DEF EntityFor, LooksAs, MadeFor
<1>10. QED
  BY <1>5, <1>6, <1>7, <1>8, <1>9

\* What stands for a recording stands for it while its kind does not change and
\* there is no more room.
LEMMA EntityForStays ==
    ASSUME NEW w, NEW q, NEW s \in Slots, NEW r, NEW info, EntityFor(w, s, r, info),
           GoodWorld(w), GoodWorld(q), Guests,
           Bots(w.ents) \subseteq Bots(q.ents), KindOf(q, s) = KindOf(w, s)
    PROVE  EntityFor(q, s, r, info)
<1>1. Room(w.ents) \in Nat /\ Room(q.ents) \in Nat /\ Room(q.ents) <= Room(w.ents)
  BY RoomShrinks
<1>2. Room(w.ents) = 0 => Room(q.ents) = 0
  BY <1>1
<1>3. QED
  BY <1>2 DEF EntityFor

\* Slot s has a visible entity for r, or the server is full and goes down.
ConvertedTo(w, q, s, r, info) ==
    /\ SlotStep(w, q, s) /\ q.end = w.end
    /\ q.up => /\ Has(q, s) /\ EntityFor(q, s, r, info)
               /\ ~q.ents[q.h_ent[s]].hidden
    /\ LooksAs(w, q, s, info)

LEMMA ConvertedStep ==
    ASSUME NEW w, GoodWorld(w), w.up, Guests, NEW s \in Slots,
           NEW r \in Recordings(s), r # Gone, NEW info \in Looks \cup {NoInfo}
    PROVE  ConvertedTo(w, Converted(w, s, r, info), s, r, info)
<1> DEFINE m == Made(w, s, r, info)
           q == Converted(w, s, r, info)
<1>1. q = IF Has(m, s) THEN [m EXCEPT !.ents[m.h_ent[s]].hidden = FALSE]
          ELSE [m EXCEPT !.up = FALSE]
  BY DEF Converted, Made
<1>2. MadeFor(w, m, s, r, info)
  BY MadeStep
<1> SUFFICES ConvertedTo(w, q, s, r, info)
  OBVIOUS
<1> HIDE DEF m, q
<1>3. GoodWorld(m) /\ m \in Worlds
  BY <1>2 DEF MadeFor, SlotStep, GoodWorld
<1>4. CASE Has(m, s)
  <2> DEFINE e == m.ents[m.h_ent[s]]
  <2>1. e \in Entities /\ e.kind = KindOf(m, s)
    BY <1>3, <1>4, WorldFacts DEF KindOf
  <2>2. PICK f \in Entities : f = Visible(e)
    <3> HIDE DEF e
    <3>1. QED
      BY <2>1, EntityEdits
  <2>3. f.kind = KindOf(m, s) /\ ~f.hidden /\ f.look = e.look
    <3> HIDE DEF e
    <3>1. QED
      BY <2>1, <2>2, EntityEdits
  <2>4. q = SetEntity(m, s, f)
    BY <1>1, <1>3, <1>4, <2>2 DEF SetEntity, Visible, Worlds
  <2>5. EntitySet(m, q, s, f)
    <3> DEFINE x == SetEntity(m, s, f)
    <3>1. EntitySet(m, x, s, f)
      BY <1>3, <1>4, <2>3, SetEntityStep
    <3> HIDE DEF x
    <3>2. q = x
      BY <2>4 DEF x
    <3>3. QED
      BY <3>1, <3>2
  <2>6. /\ SlotStep(m, q, s) /\ q.h_ent = m.h_ent /\ q.end = m.end
        /\ q.ents[q.h_ent[s]] = f /\ Has(q, s) /\ KindOf(q, s) = KindOf(m, s)
    BY <1>4, <2>3, <2>5 DEF EntitySet, Has, KindOf
  <2>7. SlotStep(w, m, s) /\ m.end = w.end
    BY <1>2 DEF MadeFor
  <2>8. SlotStep(w, q, s)
    BY <2>6, <2>7, StepTransitive
  <2>9. EntityFor(q, s, r, info)
    <3>1. EntityFor(m, s, r, info)
      BY <1>2, <1>4 DEF MadeFor
    <3>2. GoodWorld(q) /\ Bots(m.ents) \subseteq Bots(q.ents)
      BY <2>6 DEF SlotStep
    <3>3. QED
      BY <1>3, <2>6, <3>1, <3>2, EntityForStays
  <2>10. LooksAs(w, q, s, info)
    BY <1>2, <2>3, <2>6 DEF MadeFor, LooksAs
  <2>11. QED
    BY <2>3, <2>6, <2>7, <2>8, <2>9, <2>10 DEF ConvertedTo
<1>5. CASE ~Has(m, s)
  <2>1. q = [w EXCEPT !.up = FALSE] /\ m = w /\ Room(w.ents) = 0
    BY <1>1, <1>2, <1>5 DEF MadeFor
  <2>2. /\ q \in Worlds /\ q.ents = w.ents /\ q.h_ent = w.h_ent /\ q.end = w.end
        /\ q.up = FALSE
    BY <1>3, <2>1 DEF Worlds
  <2>3. GoodWorld(q)
    BY <2>1, <2>2 DEF GoodWorld, Has, KindOf
  <2>4. SlotStep(w, q, s)
    BY <2>2, <2>3 DEF SlotStep
  <2>5. LooksAs(w, q, s, info)
    BY <1>5, <2>1, <2>2 DEF LooksAs, KindOf, Has
  <2>6. QED
    BY <2>2, <2>4, <2>5 DEF ConvertedTo
<1>6. QED
  BY <1>4, <1>5

\* A beam in slot s is attached, and visible if its model is a sprite.
AttachedTo(w, q, s, r) ==
    /\ SlotStep(w, q, s) /\ q.h_ent = w.h_ent /\ q.end = w.end /\ q.up = w.up
    /\ KindOf(q, s) = KindOf(w, s)
    /\ q.ents[q.h_ent[s]].hidden =
            IF r.kind = "beam" THEN ~r.sprite ELSE w.ents[w.h_ent[s]].hidden
    /\ q.ents[q.h_ent[s]].look = w.ents[w.h_ent[s]].look
    /\ BeamAttached(q, s, r)

\* A beam gets other ends.
Ended(e, x, h) == [e EXCEPT !.attach = x, !.hidden = h]

LEMMA EndedBeam ==
    ASSUME NEW e \in Entities, e.kind = "beam", NEW x \in [Ends -> Ids \cup {0}],
           NEW h \in BOOLEAN
    PROVE  /\ Ended(e, x, h) \in Entities /\ Ended(e, x, h).kind = "beam"
           /\ Ended(e, x, h).attach = x /\ Ended(e, x, h).look = e.look
           /\ Ended(e, x, h).hidden = h
BY DEF Entities, Ended

LEMMA AttachedStep ==
    ASSUME NEW w, GoodWorld(w), Guests, NEW s \in Slots, NEW r \in Recordings(s),
           Has(w, s), r.kind = "beam" => KindOf(w, s) = "beam"
    PROVE  AttachedTo(w, Attached(w, s, r), s, r)
<1>1. CASE r.kind # "beam"
  BY <1>1 DEF Attached, AttachedTo, SlotStep, BeamAttached
<1>2. CASE r.kind = "beam"
  <2> DEFINE x == [z \in Ends |-> IF r.ends[z] = 0 THEN 0 ELSE w.h_ent[r.ends[z]]]
             h == ~r.sprite
             e == w.ents[w.h_ent[s]]
  <2>1. /\ \A z \in Ends : r.ends[z] # 0 => r.ends[z] \in Slots
        /\ h \in BOOLEAN
    <3>1. r.ends \in [Ends -> 0..NumSlots]
      BY <1>2, RecordedFacts
    <3>2. QED
      BY <3>1, ReplayAssumption DEF Slots
  <2>2. w \in Worlds /\ w.h_ent \in [Slots -> Ids \cup {0}]
    BY WorldFacts DEF GoodWorld
  <2>3. x \in [Ends -> Ids \cup {0}]
    BY <2>1, <2>2
  <2>4. e \in Entities /\ e.kind = "beam"
    BY <1>2, WorldFacts DEF KindOf
  <2>5. PICK f \in Entities : f = Ended(e, x, h)
    <3> HIDE DEF e, x, h
    <3>1. QED
      BY <2>1, <2>3, <2>4, EndedBeam
  <2>6. f.kind = KindOf(w, s) /\ f.attach = x /\ f.look = e.look /\ f.hidden = h
    <3>1. f.kind = "beam" /\ f.attach = x /\ f.look = e.look /\ f.hidden = h
      <4> HIDE DEF e, x, h
      <4>1. QED
        BY <2>1, <2>3, <2>4, <2>5, EndedBeam
    <3>2. QED
      BY <1>2, <3>1
  <2> DEFINE q == SetEntity(w, s, f)
  <2>7. Attached(w, s, r) = q
    <3>1. Attached(w, s, r) = [w EXCEPT !.ents[w.h_ent[s]].attach = x,
                                        !.ents[w.h_ent[s]].hidden = h]
      BY <1>2 DEF Attached
    <3> HIDE DEF x, h
    <3>2. w.h_ent[s] \in Ids /\ w.ents \in [Ids -> Entities \cup {Free}]
      BY WorldFacts
    <3>3. [w EXCEPT !.ents[w.h_ent[s]].attach = x, !.ents[w.h_ent[s]].hidden = h]
            = [w EXCEPT !.ents = [w.ents EXCEPT ![w.h_ent[s]] = Ended(e, x, h)]]
      BY <2>2, <3>2 DEF Ended, Worlds
    <3>4. QED
      BY <2>5, <3>1, <3>3 DEF SetEntity
  <2>8. EntitySet(w, q, s, f)
    BY <2>6, SetEntityStep
  <2> HIDE DEF q
  <2>9. AttachedTo(w, q, s, r)
    <3>1. BeamAttached(q, s, r)
      BY <2>6, <2>8 DEF EntitySet, BeamAttached
    <3> HIDE DEF x
    <3>2. q.ents[q.h_ent[s]].hidden = ~r.sprite
      BY <2>6, <2>8 DEF EntitySet
    <3>3. QED
      BY <1>2, <2>6, <2>8, <3>1, <3>2 DEF EntitySet, AttachedTo, KindOf, Has
  <2>10. QED
    BY <2>7, <2>9
<1>3. QED
  BY <1>1, <1>2

\* The entity of slot s moves to where it was recorded, or its state did not
\* change.
MovedTo(w, q, s, r, old) ==
    \/ q.end[s] = Place(r)
    \/ r.kind = "monster" /\ old.kind = r.kind /\ Place(r) = Place(old) /\ q.end[s] = w.end[s]

LEMMA InterpolatedStep ==
    ASSUME NEW w, GoodWorld(w), Guests, NEW s \in Slots, NEW r \in Recordings(s),
           NEW old
    PROVE  LET q == Interpolated(w, s, r, old)
           IN  /\ SlotStep(w, q, s) /\ q.h_ent = w.h_ent /\ q.ents = w.ents /\ q.up = w.up
               /\ MovedTo(w, q, s, r, old)
<1> DEFINE q == Interpolated(w, s, r, old)
<1>1. CASE r.kind = "monster" /\ old.kind = r.kind /\ Place(r) = Place(old)
  BY <1>1 DEF Interpolated, SlotStep, MovedTo
<1>2. CASE ~(r.kind = "monster" /\ old.kind = r.kind /\ Place(r) = Place(old))
  <2> DEFINE x == SetEnd(w, s, Place(r))
  <2>1. q = x
    BY <1>2 DEF Interpolated, SetEnd
  <2>2. Place(r) \in Positions
    BY RecordedFacts
  <2>3. EndSet(w, x, s, Place(r))
    BY <2>2, SetEndStep
  <2> HIDE DEF q, x
  <2>4. QED
    BY <2>1, <2>3 DEF EndSet, MovedTo, q
<1>3. QED
  BY <1>1, <1>2

\* Slot s shows what is recorded, unless the server goes down.
SlotRight(w, q, s, r, old, info) ==
    /\ SlotStep(w, q, s)
    /\ LooksAs(w, q, s, info)
    /\ q.up => /\ SlotShows(q, s, r, info) /\ BeamAttached(q, s, r)
               /\ r # Gone => Has(q, s) /\ MovedTo(w, q, s, r, old)

LEMMA SlotSimulated ==
    ASSUME NEW w, GoodWorld(w), w.up, Guests, NEW s \in Slots,
           NEW r \in Recordings(s), NEW old, NEW info \in Looks \cup {NoInfo}
    PROVE  SlotRight(w, SimulatedSlot(w, s, r, old, info), s, r, old, info)
<1>1. CASE r = Gone
  <2> DEFINE q == Hide(w, s)
  <2>1. SimulatedSlot(w, s, r, old, info) = q
    BY <1>1 DEF SimulatedSlot
  <2>2. Hides(w, q, s)
    BY HideStep
  <2> HIDE DEF q
  <2>3. r.kind = "none"
    BY <1>1 DEF Gone
  <2>4. LooksAs(w, q, s, info)
    BY <2>2 DEF Hides, LooksAs, KindOf, Has
  <2>5. SlotShows(q, s, r, info) /\ BeamAttached(q, s, r)
    BY <2>2, <2>3 DEF Hides, SlotShows, BeamAttached, Has
  <2>6. SlotRight(w, q, s, r, old, info)
    BY <1>1, <2>2, <2>4, <2>5 DEF Hides, SlotRight
  <2>7. QED
    BY <2>1, <2>6
<1>2. CASE r # Gone
  <2> DEFINE c == Converted(w, s, r, info)
             a == Attached(c, s, r)
             q == Interpolated(a, s, r, old)
  <2>1. ConvertedTo(w, c, s, r, info)
    BY <1>2, ConvertedStep
  <2>2. SimulatedSlot(w, s, r, old, info) = IF c.up THEN q ELSE c
    BY <1>2 DEF SimulatedSlot
  <2>3. r.kind \in {"player", "monster", "beam"}
    BY <1>2, RecordedFacts
  <2>4. CASE ~c.up
    <3> HIDE DEF c, q
    <3>1. SlotRight(w, c, s, r, old, info)
      BY <2>1, <2>4 DEF ConvertedTo, SlotRight
    <3>2. QED
      BY <2>2, <2>4, <3>1
  <2>5. CASE c.up
    <3> HIDE DEF c
    <3>1. GoodWorld(c) /\ Has(c, s) /\ EntityFor(c, s, r, info)
      BY <2>1, <2>5 DEF ConvertedTo, SlotStep
    <3>2. r.kind = "beam" => KindOf(c, s) = "beam"
      BY <3>1 DEF EntityFor
    <3>3. AttachedTo(c, a, s, r)
      BY <3>1, <3>2, AttachedStep
    <3> HIDE DEF a
    <3>4. GoodWorld(a)
      BY <3>3 DEF AttachedTo, SlotStep
    <3>5. /\ SlotStep(a, q, s) /\ q.h_ent = a.h_ent /\ q.ents = a.ents /\ q.up = a.up
          /\ MovedTo(a, q, s, r, old)
      BY <3>4, InterpolatedStep
    <3> HIDE DEF q
    <3>6. SlotStep(w, q, s) /\ SlotStep(c, q, s)
      <4>1. SlotStep(w, c, s) /\ SlotStep(c, a, s)
        BY <2>1, <3>3 DEF ConvertedTo, AttachedTo
      <4>2. SlotStep(c, q, s)
        BY <3>5, <4>1, StepTransitive
      <4>3. QED
        BY <4>1, <4>2, StepTransitive
    <3>7. /\ KindOf(q, s) = KindOf(c, s) /\ Has(q, s) /\ q.h_ent = c.h_ent
          /\ q.ents[q.h_ent[s]].look = c.ents[c.h_ent[s]].look
      BY <3>1, <3>3, <3>5 DEF AttachedTo, KindOf, Has
    <3>8. EntityFor(q, s, r, info)
      <4>1. GoodWorld(q) /\ Bots(c.ents) \subseteq Bots(q.ents)
        BY <3>6 DEF SlotStep
      <4>2. QED
        BY <3>1, <3>7, <4>1, EntityForStays
    <3>9. IF r.kind = "beam" THEN q.ents[q.h_ent[s]].hidden = ~r.sprite
          ELSE ~q.ents[q.h_ent[s]].hidden
      BY <2>1, <2>5, <3>3, <3>5 DEF ConvertedTo, AttachedTo
    <3>10. SlotShows(q, s, r, info)
      BY <2>3, <3>8, <3>9 DEF EntityFor, SlotShows
    <3>11. BeamAttached(q, s, r)
      BY <3>3, <3>5 DEF AttachedTo, BeamAttached
    <3>12. MovedTo(w, q, s, r, old)
      BY <2>1, <3>3, <3>5 DEF ConvertedTo, AttachedTo, MovedTo
    <3>13. LooksAs(w, q, s, info)
      BY <2>1, <3>7 DEF ConvertedTo, LooksAs
    <3>14. SlotRight(w, q, s, r, old, info)
      BY <3>6, <3>7, <3>10, <3>11, <3>12, <3>13 DEF SlotRight
    <3>15. QED
      BY <2>2, <2>5, <3>14
  <2>6. QED
    BY <2>4, <2>5
<1>3. QED
  BY <1>1, <1>2

-----------------------------------------------------------------------------
(* Induction up to a number *)

\* Of some numbers one is the least.
LEMMA LeastNumber ==
    ASSUME NEW S \in SUBSET Nat, S # {}
    PROVE  \E n \in S : \A k \in S : n <= k
<1> DEFINE R == OpToRel(<, Nat)
<1>1. IsWellFoundedOn(R, Nat)
  BY NatLessThanWellFounded
<1> HIDE DEF R
<1>2. PICK n \in S : \A k \in S : ~(<<k, n>> \in R)
  BY <1>1, WFMin
<1>3. n \in Nat /\ \A k \in S : k \in Nat /\ (k < n => <<k, n>> \in R)
  BY DEF R, OpToRel
<1>4. n \in Nat /\ \A k \in S : k \in Nat /\ ~(k < n)
  BY <1>2, <1>3
<1>5. QED
  BY <1>4

\* A set with 0 and, below N, with the next of its numbers has all up to N.
LEMMA Induction ==
    ASSUME NEW N \in Nat, NEW S \in SUBSET Nat, 0 \in S,
           \A n \in Nat : n < N /\ n \in S => n + 1 \in S
    PROVE  \A n \in 0..N : n \in S
<1> DEFINE T == {n \in 0..N : n \notin S}
<1> SUFFICES ASSUME T # {} PROVE FALSE
  OBVIOUS
<1>1. PICK n \in T : \A k \in T : n <= k
  <2>1. T \in SUBSET Nat
    OBVIOUS
  <2> HIDE DEF T
  <2>2. QED
    BY <2>1, LeastNumber
<1>2. n # 0 /\ n - 1 \in Nat /\ n - 1 < N
  OBVIOUS
<1>3. n - 1 \in S
  BY <1>1, <1>2
<1>4. (n - 1) + 1 \in S
  BY <1>2, <1>3
<1>5. QED
  BY <1>2, <1>4

-----------------------------------------------------------------------------
(* Simulating all slots, one after the other *)

\* sim has the games before slot 1 and after each of the first n slots.
Simulation(sim, n, w, rs, olds, is) ==
    sim = [s \in 0..n |-> IF s = 0 THEN w
                          ELSE SimulatedSlot(sim[s - 1], s, rs[s], olds[s], InfoOf(is, s))]

LEMMA SimulationExists ==
    ASSUME NEW w, NEW rs, NEW olds, NEW is
    PROVE  \E sim : /\ sim[0] = w /\ sim[NumSlots] = Simulated(w, rs, olds, is)
                    /\ \A s \in Slots : sim[s] =
                            SimulatedSlot(sim[s - 1], s, rs[s], olds[s], InfoOf(is, s))
<1>1. NumSlots \in Nat
  BY ReplayAssumption
<1> DEFINE S == {n \in Nat : \E f : Simulation(f, n, w, rs, olds, is)}
<1>2. 0 \in S
  <2>1. Simulation([s \in 0..0 |-> w], 0, w, rs, olds, is)
    BY DEF Simulation
  <2>2. QED
    BY <2>1
<1>3. ASSUME NEW n \in Nat, n \in S PROVE n + 1 \in S
  <2>1. PICK f : Simulation(f, n, w, rs, olds, is)
    BY <1>3
  <2> DEFINE g == [s \in 0..(n + 1) |-> IF s = 0 THEN w
                    ELSE SimulatedSlot(f[s - 1], s, rs[s], olds[s], InfoOf(is, s))]
  <2>2. \A s \in 0..n : g[s] = f[s]
    BY <2>1 DEF Simulation
  <2>3. \A s \in 0..(n + 1) : s # 0 => s - 1 \in 0..n
    OBVIOUS
  <2>4. Simulation(g, n + 1, w, rs, olds, is)
    BY <2>2, <2>3 DEF Simulation
  <2>5. QED
    BY <2>4
<1> HIDE DEF S
<1>4. NumSlots \in S
  <2>1. S \in SUBSET Nat
    BY DEF S
  <2>2. \A n \in 0..NumSlots : n \in S
    BY <1>1, <1>2, <1>3, <2>1, Induction
  <2>3. QED
    BY <1>1, <2>2
<1>5. PICK f : Simulation(f, NumSlots, w, rs, olds, is)
  BY <1>4 DEF S
<1> DEFINE sim == CHOOSE g : Simulation(g, NumSlots, w, rs, olds, is)
<1>6. Simulation(sim, NumSlots, w, rs, olds, is)
  BY <1>5
<1>7. Simulated(w, rs, olds, is) = sim[NumSlots]
  BY DEF Simulated, Simulation, InfoOf
<1> HIDE DEF sim
<1>8. \A s \in 0..NumSlots :
        sim[s] = IF s = 0 THEN w
                 ELSE SimulatedSlot(sim[s - 1], s, rs[s], olds[s], InfoOf(is, s))
  BY <1>6 DEF Simulation
<1>9. 0 \in 0..NumSlots /\ \A s \in Slots : s \in 0..NumSlots /\ s # 0
  BY <1>1 DEF Slots
<1>10. QED
  BY <1>7, <1>8, <1>9

\* What a slot shows it still shows when another slot changes.
LEMMA ShownStays ==
    ASSUME NEW v, NEW w, NEW q, NEW s \in Slots, SlotStep(w, q, s), GoodWorld(w), Guests,
           NEW t \in Slots \ {s}, NEW r \in Recordings(t), NEW info, r # Gone => Has(w, t)
    PROVE  /\ SlotShows(w, t, r, info) => SlotShows(q, t, r, info)
           /\ t < s /\ w.h_ent[s] = v.h_ent[s] /\ BeamStays(v, w, t, r) => BeamStays(v, q, t, r)
           /\ Has(q, t) <=> Has(w, t)
           /\ KindOf(q, t) = KindOf(w, t)
           /\ Has(w, t) => q.ents[q.h_ent[t]] = w.ents[w.h_ent[t]]
<1>1. /\ q.h_ent[t] = w.h_ent[t] /\ (Has(w, t) => q.ents[w.h_ent[t]] = w.ents[w.h_ent[t]])
      /\ GoodWorld(q) /\ Bots(w.ents) \subseteq Bots(q.ents)
  BY DEF SlotStep
<1>2. (Has(q, t) <=> Has(w, t)) /\ KindOf(q, t) = KindOf(w, t)
      /\ (Has(w, t) => q.ents[q.h_ent[t]] = w.ents[w.h_ent[t]])
  BY <1>1 DEF Has, KindOf
<1>3. Room(w.ents) = 0 => Room(q.ents) = 0
  <2>1. Room(w.ents) \in Nat /\ Room(q.ents) \in Nat /\ Room(q.ents) <= Room(w.ents)
    BY <1>1, RoomShrinks
  <2>2. QED
    BY <2>1
<1>4. r.kind = "none" <=> r = Gone
  BY RecordedFacts
<1>5. SlotShows(w, t, r, info) => SlotShows(q, t, r, info)
  <2>1. CASE r = Gone
    BY <1>2, <1>4, <2>1 DEF SlotShows
  <2>2. CASE r # Gone
    <3>1. q.ents[q.h_ent[t]] = w.ents[w.h_ent[t]]
      BY <1>2, <2>2
    <3>2. QED
      BY <1>2, <1>3, <1>4, <2>2, <3>1 DEF SlotShows
  <2>3. QED
    BY <2>1, <2>2
<1>6. ASSUME t < s, w.h_ent[s] = v.h_ent[s], BeamStays(v, w, t, r) PROVE BeamStays(v, q, t, r)
  <2> SUFFICES ASSUME r.kind = "beam", NEW z \in Ends, NEW u, u = r.ends[z], u # 0,
                      u <= t \/ q.h_ent[u] = v.h_ent[u]
               PROVE  q.ents[q.h_ent[t]].attach[z] = q.h_ent[u]
    BY DEF BeamStays
  <2>1. u \in Slots /\ r # Gone
    <3>1. r.ends \in [Ends -> 0..NumSlots] /\ r # Gone
      BY <1>4, RecordedFacts
    <3>2. QED
      BY <3>1, ReplayAssumption DEF Slots
  <2>2. w.ents[w.h_ent[t]].attach[z] = q.h_ent[u]
    <3>1. CASE u = s
      <4>1. ~(u <= t)
        BY <1>6, <3>1, ReplayAssumption DEF Slots
      <4>2. q.h_ent[u] = w.h_ent[u] /\ w.h_ent[u] = v.h_ent[u]
        BY <1>6, <3>1, <4>1
      <4>3. QED
        BY <1>6, <4>2 DEF BeamStays
    <3>2. CASE u # s
      <4>1. q.h_ent[u] = w.h_ent[u]
        BY <2>1, <3>2 DEF SlotStep
      <4>2. QED
        BY <1>6, <4>1 DEF BeamStays
    <3>3. QED
      BY <3>1, <3>2
  <2>3. QED
    BY <1>2, <2>1, <2>2
<1>7. QED
  BY <1>2, <1>5, <1>6

\* Slot s shows what rs has for it, and has moved since w.
SlotDone(w, q, s, rs, olds, is) ==
    /\ SlotShows(q, s, rs[s], InfoOf(is, s)) /\ BeamStays(w, q, s, rs[s])
    /\ rs[s] # Gone => Has(q, s) /\ MovedTo(w, q, s, rs[s], olds[s])

\* The first n slots have been simulated.
RightUpTo(w, q, n, rs, olds, is, P) ==
    /\ GoodWorld(q) /\ Dressing(q, is, P)
    /\ q.up => \A s \in 1..n : SlotDone(w, q, s, rs, olds, is)
    /\ \A s \in Slots : n < s => q.end[s] = w.end[s] /\ q.h_ent[s] = w.h_ent[s]

LEMMA PlayersAreSlots == Players \subseteq Slots /\ NumSlots \in Nat
BY ReplayAssumption DEF Players, Slots

LEMMA FileFacts ==
    ASSUME NEW rs \in Files, NEW s \in Slots
    PROVE  rs[s] \in Recordings(s)
BY DEF Files

LEMMA InfoFacts ==
    ASSUME NEW is \in [Players -> Looks \cup {NoInfo}], NEW s
    PROVE  InfoOf(is, s) \in Looks \cup {NoInfo}
BY DEF InfoOf

\* Bots keep looking right when a slot is simulated.
LEMMA StaysDressed ==
    ASSUME NEW w, NEW q, NEW s \in Slots, NEW is \in [Players -> Looks \cup {NoInfo}], NEW P,
           Dressing(w, is, P), SlotStep(w, q, s), LooksAs(w, q, s, InfoOf(is, s))
    PROVE  Dressing(q, is, P)
<1> SUFFICES ASSUME NEW p \in Players \ P, KindOf(q, p) = "bot", is[p] # NoInfo
             PROVE  q.ents[q.h_ent[p]].look = is[p]
  BY DEF Dressing
<1>1. CASE p = s
  BY <1>1 DEF LooksAs, InfoOf, Dressing
<1>2. CASE p # s
  <2>1. p \in Slots \ {s}
    BY <1>2, PlayersAreSlots
  <2>2. Has(q, p)
    BY DEF KindOf
  <2>3. q.h_ent[p] = w.h_ent[p] /\ Has(w, p) /\ q.ents[w.h_ent[p]] = w.ents[w.h_ent[p]]
    BY <2>1, <2>2 DEF SlotStep, Has
  <2>4. KindOf(w, p) = "bot"
    BY <2>2, <2>3 DEF KindOf
  <2>5. QED
    BY <2>3, <2>4 DEF Dressing
<1>3. QED
  BY <1>1, <1>2

LEMMA OneMoreSlot ==
    ASSUME NEW v, NEW w, NEW n \in Nat, NEW rs \in Files, NEW olds,
           NEW is \in [Players -> Looks \cup {NoInfo}], Guests,
           NEW P, n + 1 \in Slots, RightUpTo(v, w, n, rs, olds, is, P)
    PROVE  RightUpTo(v, SimulatedSlot(w, n + 1, rs[n + 1], olds[n + 1], InfoOf(is, n + 1)),
                     n + 1, rs, olds, is, P)
<1> DEFINE s == n + 1
           info == InfoOf(is, s)
           q == SimulatedSlot(w, s, rs[s], olds[s], info)
<1>1. GoodWorld(w) /\ Dressing(w, is, P) /\ rs[s] \in Recordings(s) /\ info \in Looks \cup {NoInfo}
  BY FileFacts, InfoFacts DEF RightUpTo
<1>2. CASE ~w.up
  <2>1. q = w
    BY <1>2 DEF SimulatedSlot
  <2>2. \A t \in Slots : s < t => n < t
    BY DEF Slots
  <2> HIDE DEF q
  <2>3. RightUpTo(v, q, s, rs, olds, is, P)
    BY <1>2, <2>1, <2>2 DEF RightUpTo
  <2>4. QED
    BY <2>3 DEF q
<1>3. CASE w.up
  <2>1. SlotRight(w, q, s, rs[s], olds[s], info)
    <3> HIDE DEF info, s
    <3>1. s \in Slots
      BY DEF s
    <3>2. QED
      BY <1>1, <1>3, <3>1, SlotSimulated
  <2> HIDE DEF q
  <2>2. SlotStep(w, q, s) /\ LooksAs(w, q, s, info) /\ GoodWorld(q)
    BY <2>1 DEF SlotRight, SlotStep
  <2>3. Dressing(q, is, P)
    BY <1>1, <2>2, StaysDressed
  <2>4. \A t \in Slots : n < t => w.end[t] = v.end[t] /\ w.h_ent[t] = v.h_ent[t]
    BY DEF RightUpTo
  <2>5. \A t \in Slots \ {s} : q.end[t] = w.end[t] /\ q.h_ent[t] = w.h_ent[t]
    BY <2>2 DEF SlotStep
  <2>6. ASSUME q.up, NEW t \in 1..s PROVE SlotDone(v, q, t, rs, olds, is)
    <3>1. t \in 1..n \/ t = s
      OBVIOUS
    <3>2. CASE t = s
      <4>1. /\ SlotShows(q, s, rs[s], info) /\ BeamAttached(q, s, rs[s])
            /\ rs[s] # Gone => Has(q, s) /\ MovedTo(w, q, s, rs[s], olds[s])
        BY <2>1, <2>6 DEF SlotRight
      <4>2. w.end[s] = v.end[s]
        BY <2>4
      <4> HIDE DEF s, info
      <4>3. MovedTo(w, q, s, rs[s], olds[s]) => MovedTo(v, q, s, rs[s], olds[s])
        BY <4>2 DEF MovedTo
      <4>4. BeamStays(v, q, s, rs[s])
        BY <4>1 DEF BeamAttached, BeamStays
      <4>5. QED
        BY <3>2, <4>1, <4>3, <4>4 DEF SlotDone, info
    <3>3. CASE t \in 1..n
      <4>1. t \in Slots \ {s} /\ t < s
        BY <3>3, PlayersAreSlots DEF Slots
      <4>2. SlotDone(v, w, t, rs, olds, is)
        BY <1>3, <3>3 DEF RightUpTo
      <4>3. rs[t] \in Recordings(t) /\ (rs[t] # Gone => Has(w, t))
        BY <4>1, <4>2, FileFacts DEF SlotDone
      <4>4. /\ SlotShows(w, t, rs[t], InfoOf(is, t)) => SlotShows(q, t, rs[t], InfoOf(is, t))
            /\ BeamStays(v, w, t, rs[t]) => BeamStays(v, q, t, rs[t])
            /\ Has(q, t) <=> Has(w, t)
        <5>1. w.h_ent[s] = v.h_ent[s]
          BY <2>4
        <5> HIDE DEF s, info
        <5>2. s \in Slots
          BY DEF s
        <5>3. QED
          BY <1>1, <2>2, <4>1, <4>3, <5>1, <5>2, ShownStays
      <4>5. q.end[t] = w.end[t]
        BY <2>5, <4>1
      <4>6. MovedTo(v, w, t, rs[t], olds[t]) => MovedTo(v, q, t, rs[t], olds[t])
        BY <4>5 DEF MovedTo
      <4>7. QED
        BY <4>2, <4>4, <4>6 DEF SlotDone
    <3>4. QED
      BY <3>1, <3>2, <3>3
  <2>7. \A t \in Slots : s < t => q.end[t] = v.end[t] /\ q.h_ent[t] = v.h_ent[t]
    <3>1. \A t \in Slots : s < t => n < t /\ t # s
      BY DEF Slots
    <3>2. QED
      BY <2>4, <2>5, <3>1
  <2>8. RightUpTo(v, q, s, rs, olds, is, P)
    BY <2>2, <2>3, <2>6, <2>7 DEF RightUpTo
  <2>9. QED
    BY <2>8 DEF q
<1>4. QED
  BY <1>2, <1>3

\* After all slots the game shows what is recorded, unless it went down.
LEMMA SimulatedRight ==
    ASSUME NEW w, GoodWorld(w), Guests, NEW rs \in Files, NEW olds,
           NEW is \in [Players -> Looks \cup {NoInfo}], NEW P, Dressing(w, is, P)
    PROVE  RightUpTo(w, Simulated(w, rs, olds, is), NumSlots, rs, olds, is, P)
<1>1. PICK sim : /\ sim[0] = w /\ sim[NumSlots] = Simulated(w, rs, olds, is)
                 /\ \A s \in Slots : sim[s] =
                        SimulatedSlot(sim[s - 1], s, rs[s], olds[s], InfoOf(is, s))
  BY SimulationExists
<1> DEFINE S == {n \in 0..NumSlots : RightUpTo(w, sim[n], n, rs, olds, is, P)}
<1>2. NumSlots \in Nat
  BY PlayersAreSlots
<1>3. 0 \in S
  <2>1. \A s \in 1..0 : FALSE
    OBVIOUS
  <2>2. RightUpTo(w, sim[0], 0, rs, olds, is, P)
    BY <1>1, <2>1 DEF RightUpTo
  <2>3. QED
    BY <1>2, <2>2
<1>4. ASSUME NEW n \in Nat, n < NumSlots, n \in S PROVE n + 1 \in S
  <2>1. n + 1 \in Slots /\ n + 1 \in 0..NumSlots /\ (n + 1) - 1 = n
    BY <1>2, <1>4 DEF Slots
  <2>2. RightUpTo(w, sim[n], n, rs, olds, is, P)
    BY <1>4
  <2>3. sim[n + 1] = SimulatedSlot(sim[n], n + 1, rs[n + 1], olds[n + 1], InfoOf(is, n + 1))
    BY <1>1, <2>1
  <2>4. RightUpTo(w, sim[n + 1], n + 1, rs, olds, is, P)
    BY <2>1, <2>2, <2>3, OneMoreSlot
  <2>5. QED
    BY <2>1, <2>4
<1> HIDE DEF S
<1>5. S \in SUBSET Nat
  BY DEF S
<1>6. \A n \in 0..NumSlots : n \in S
  BY <1>2, <1>3, <1>4, <1>5, Induction
<1>7. NumSlots \in S
  BY <1>2, <1>6
<1>8. QED
  BY <1>1, <1>7 DEF S

-----------------------------------------------------------------------------
(* Dressing the bots *)

\* A world stays good while entities change in other ways than their kind.
LEMMA KindsKept ==
    ASSUME NEW w, GoodWorld(w), NEW q \in Worlds, q.h_ent = w.h_ent, q.up = w.up,
           \A id \in Ids : \/ q.ents[id] = w.ents[id]
                           \/ /\ w.ents[id] # Free /\ q.ents[id] # Free
                              /\ q.ents[id].kind = w.ents[id].kind
                              /\ w.ents[id].going => q.ents[id].going
    PROVE  GoodWorld(q) /\ \A s \in Slots : KindOf(q, s) = KindOf(w, s)
<1>1. /\ \A id \in Ids : q.ents[id] # Free <=> w.ents[id] # Free
      /\ \A id \in Ids : q.ents[id].kind = w.ents[id].kind
      /\ \A id \in Ids : q.ents[id] # Free /\ w.ents[id].going => q.ents[id].going
  OBVIOUS
<1>2. \A s \in Slots : Has(q, s) <=> Has(w, s)
  BY DEF Has
<1>3. \A s \in Slots : Has(w, s) => w.h_ent[s] \in Ids
  BY WorldFacts
<1>4. \A s \in Slots : KindOf(q, s) = KindOf(w, s)
  BY <1>1, <1>2, <1>3 DEF KindOf
<1>5. Bots(q.ents) = Bots(w.ents)
  BY <1>1 DEF Bots
<1>6. \A s \in Slots : Has(q, s) =>
        /\ q.ents[q.h_ent[s]] # Free
        /\ KindOf(q, s) = "bot" => s \in Players
        /\ KindOf(q, s) = "beam" => s \notin Players
  BY <1>1, <1>2, <1>3, <1>4 DEF GoodWorld
<1>7. \A s, t \in Slots : Has(q, s) /\ q.h_ent[s] = q.h_ent[t] => s = t
  BY <1>2 DEF GoodWorld
<1>8. \A id \in Ids : q.ents[id] # Free =>
        (\E s \in Slots : q.h_ent[s] = id) \/ (q.ents[id].kind = "bot" /\ q.ents[id].going)
  BY <1>1 DEF GoodWorld
<1>9. Cardinality(Bots(q.ents)) + humans + ghosts <= Clients /\ (~q.up => Room(q.ents) = 0)
  BY <1>5 DEF GoodWorld, Room
<1>10. GoodWorld(q)
  BY <1>6, <1>7, <1>8, <1>9 DEF GoodWorld
<1>11. QED
  BY <1>4, <1>10

\* A bot gets another look.
WithLook(e, look) == [e EXCEPT !.look = look]

LEMMA OtherLook ==
    ASSUME NEW e \in Entities, e.kind = "bot", NEW look \in Looks
    PROVE  /\ WithLook(e, look) \in Entities /\ WithLook(e, look).kind = "bot"
           /\ WithLook(e, look).look = look
           /\ e.going => WithLook(e, look).going
BY DEF Entities, WithLook

LEMMA DressedRight ==
    ASSUME NEW w, GoodWorld(w), NEW is \in [Players -> Looks \cup {NoInfo}],
           NEW olds \in [Players -> Looks \cup {NoInfo}], NEW P, Dressing(w, olds, P),
           \A p \in Players \cap P : olds[p] \in {0, NoInfo},
           NEW R, R = {p \in Players : is[p] = 0 /\ (olds[p] = NoInfo \/ p \in P)}
    PROVE  LET q == Dressed(w, is, olds)
           IN  /\ GoodWorld(q) /\ Dressing(q, is, R)
               /\ q.end = w.end /\ q.up = w.up /\ q.h_ent = w.h_ent
<1> DEFINE New1(id) ==
                \E p \in Players : w.h_ent[p] = id /\ w.ents[id].kind = "bot"
                                   /\ Told(is[p], olds[p])
           Of(id) == CHOOSE p \in Players : w.h_ent[p] = id
           es == [id \in Ids |-> IF New1(id) THEN WithLook(w.ents[id], is[Of(id)])
                                 ELSE w.ents[id]]
           q == Dressed(w, is, olds)
<1>1. w \in Worlds /\ w.ents \in [Ids -> Entities \cup {Free}] /\ 0 \notin Ids
      /\ w.h_ent \in [Slots -> Ids \cup {0}]
  BY WorldFacts, ReplayAssumption DEF GoodWorld
<1>2. q = [w EXCEPT !.ents = es]
  BY <1>1 DEF Dressed, WithLook, Worlds
<1>3. ASSUME NEW id \in Ids, NEW p \in Players, w.h_ent[p] = id PROVE Of(id) = p
  <2>1. \A t \in Players : w.h_ent[t] = id => t = p
    BY <1>1, <1>3, PlayersAreSlots DEF GoodWorld, Has
  <2>2. QED
    BY <1>3, <2>1
<1>4. ASSUME NEW id \in Ids, New1(id)
      PROVE  /\ w.ents[id] \in Entities /\ w.ents[id].kind = "bot"
             /\ is[Of(id)] \in Looks
             /\ es[id] = WithLook(w.ents[id], is[Of(id)])
  <2>1. PICK p \in Players : w.h_ent[p] = id /\ w.ents[id].kind = "bot"
                             /\ Told(is[p], olds[p])
    BY <1>4
  <2>2. Of(id) = p
    BY <1>3, <2>1
  <2>3. w.ents[id] # Free
    BY <2>1, EntityFacts
  <2>4. es[id] = WithLook(w.ents[id], is[Of(id)])
    BY <1>4
  <2> HIDE DEF es, Of
  <2>5. is[Of(id)] \in Looks
    BY <2>1, <2>2 DEF Told
  <2>6. QED
    BY <1>1, <2>1, <2>3, <2>4, <2>5
<1>5. \A id \in Ids : ~New1(id) => es[id] = w.ents[id]
  OBVIOUS
<1> HIDE DEF Of
<1>6. \A id \in Ids : New1(id) =>
        /\ es[id] \in Entities /\ es[id].kind = "bot" /\ es[id].look = is[Of(id)]
        /\ w.ents[id] # Free /\ w.ents[id].kind = "bot"
        /\ w.ents[id].going => es[id].going
  <2> SUFFICES ASSUME NEW id \in Ids, New1(id)
               PROVE  /\ es[id] \in Entities /\ es[id].kind = "bot" /\ es[id].look = is[Of(id)]
                      /\ w.ents[id] # Free /\ w.ents[id].kind = "bot"
                      /\ w.ents[id].going => es[id].going
    OBVIOUS
  <2> HIDE DEF es, New1
  <2>1. QED
    BY <1>4, EntityFacts, OtherLook
<1>7. es \in [Ids -> Entities \cup {Free}]
  <2>1. \A id \in Ids : es[id] \in Entities \cup {Free}
    <3> HIDE DEF es, New1
    <3>1. QED
      BY <1>1, <1>5, <1>6
  <2>2. es = [id \in Ids |-> es[id]]
    OBVIOUS
  <2> HIDE DEF es
  <2>3. QED
    BY <2>1, <2>2
<1> HIDE DEF es, q
<1>8. q \in Worlds /\ q.ents = es /\ q.h_ent = w.h_ent /\ q.end = w.end /\ q.up = w.up
  BY <1>1, <1>2, <1>7 DEF Worlds
<1>9. GoodWorld(q) /\ \A s \in Slots : KindOf(q, s) = KindOf(w, s)
  <2>1. \A id \in Ids : \/ q.ents[id] = w.ents[id]
                        \/ /\ w.ents[id] # Free /\ q.ents[id] # Free
                           /\ q.ents[id].kind = w.ents[id].kind
                           /\ w.ents[id].going => q.ents[id].going
    <3> HIDE DEF New1
    <3>1. QED
      BY <1>5, <1>6, <1>8, EntityFacts
  <2>2. QED
    BY <1>8, <2>1, KindsKept
<1>10. Dressing(q, is, R)
  <2> SUFFICES ASSUME NEW p \in Players \ R, KindOf(q, p) = "bot", is[p] # NoInfo
               PROVE  q.ents[q.h_ent[p]].look = is[p]
    BY DEF Dressing
  <2> DEFINE id == w.h_ent[p]
  <2>1. KindOf(w, p) = "bot" /\ p \in Slots
    BY <1>9, PlayersAreSlots
  <2>2. id \in Ids /\ w.ents[id].kind = "bot"
    BY <1>1, <2>1 DEF KindOf, Has
  <2>3. CASE Told(is[p], olds[p])
    <3>1. New1(id)
      BY <2>2, <2>3
    <3>2. Of(id) = p
      BY <1>3, <2>2
    <3> HIDE DEF New1
    <3>3. QED
      BY <1>6, <1>8, <2>2, <3>1, <3>2
  <2>4. CASE ~Told(is[p], olds[p])
    <3>1. is[p] = IF olds[p] = NoInfo THEN 0 ELSE olds[p]
      BY <2>4 DEF Told
    <3>2. olds[p] # NoInfo /\ p \notin P /\ is[p] = olds[p]
      BY <3>1
    <3>3. w.ents[id].look = is[p]
      BY <2>1, <3>2 DEF Dressing
    <3>4. \A t \in Players : w.h_ent[t] = id => t = p
      BY <1>1, <2>1, <2>2, PlayersAreSlots DEF GoodWorld, Has
    <3>5. ~New1(id)
      BY <2>4, <3>4
    <3> HIDE DEF New1
    <3>6. QED
      BY <1>5, <1>8, <2>2, <3>3, <3>5
  <2>5. QED
    BY <2>3, <2>4
<1>11. QED
  BY <1>8, <1>9, <1>10 DEF q

-----------------------------------------------------------------------------
(* The steps of the player and the game *)

LEMMA WorldIs ==
    ASSUME NEW q \in Worlds, q.ents = ents, q.h_ent = h_ent, q.end = end, q.up = up
    PROVE  World = q
BY DEF World, Worlds

LEMMA WorldParts ==
    World.ents = ents /\ World.h_ent = h_ent /\ World.end = end /\ World.up = up
BY DEF World

\* A world is as good in the next state if the same clients are there.
LEMMA GoodNext ==
    ASSUME NEW q, GoodWorld(q), World' = q, humans' = humans, ghosts' = ghosts
    PROVE  GoodWorld(World)'
BY DEF GoodWorld, Room

LEMMA DressingNext ==
    ASSUME NEW q, NEW is, NEW P, Dressing(q, is, P), World' = q, infos' = is, plain' = P
    PROVE  Dressing(World, infos, plain)'
BY DEF Dressing, KindOf, Has

LEMMA NothingRecorded ==
    /\ NoFile \in Files /\ NoInfos \in [Players -> Looks \cup {NoInfo}]
    /\ \A w, P : Dressing(w, NoInfos, P)
<1>1. \A s \in Slots : Gone \in Recordings(s)
  BY DEF Recordings
<1>2. NoFile \in Files
  BY <1>1 DEF NoFile, Files
<1>3. QED
  BY <1>2 DEF NoInfos, Dressing

LEMMA InitRight == Init => EntityInv
<1> SUFFICES ASSUME Init PROVE EntityInv
  OBVIOUS
<1>1. World \in Worlds /\ World.ents = [id \in Ids |-> Free]
      /\ World.h_ent = [s \in Slots |-> 0] /\ World.up
  BY ReplayAssumption DEF Init, World, Worlds
<1>2. \A s \in Slots : ~Has(World, s)
  BY <1>1 DEF Has
<1>3. Bots(World.ents) = {}
  BY <1>1, EntityFacts DEF Bots
<1>4. Guests /\ humans \in Nat /\ humans <= Clients /\ ghosts = 0
  BY ReplayAssumption DEF Init, Guests
<1>5. Cardinality(Bots(World.ents)) + humans + ghosts <= Clients
  BY <1>3, <1>4, FS_EmptySet
<1>6. GoodWorld(World)
  BY <1>1, <1>2, <1>5 DEF GoodWorld
<1>7. StateInv
  BY <1>2, <1>4, <1>6, NothingRecorded DEF Init, StateInv
<1>8. ShownInv /\ MonstersInv /\ PlainInv
  BY DEF Init, ShownInv, MonstersInv, PlainInv
<1>9. Dressing(World, infos, plain)
  BY NothingRecorded DEF Init
<1>10. QED
  BY <1>7, <1>8, <1>9 DEF EntityInv

\* What a frame leaves of the game before it is simulated, and after.
FrameWorld(key, is) == Dressed(World, is, IF key THEN NoInfos ELSE infos)
FrameAfter(key, rs, is, skips) ==
    IF skips THEN FrameWorld(key, is)
    ELSE Simulated(FrameWorld(key, is), rs, IF key THEN NoFile ELSE recorded, is)

LEMMA FrameRead ==
    ASSUME EntityInv, NEW key \in BOOLEAN, NEW skips \in BOOLEAN, NEW rs \in Files,
           NEW is \in [Players -> Looks \cup {NoInfo}], ReadFrame(key, rs, is, skips)
    PROVE  EntityInv'
<1> DEFINE olds == IF key THEN NoFile ELSE recorded
           oldi == IF key THEN NoInfos ELSE infos
           w == FrameWorld(key, is)
           now == FrameAfter(key, rs, is, skips)
           changed == {s \in Slots \ Players :
                        rs[s].kind # olds[s].kind \/ Place(rs[s]) # Place(olds[s])}
           R == {p \in Players : is[p] = 0 /\ (oldi[p] = NoInfo \/ p \in plain)}
<1>1. /\ up /\ open /\ (fresh => key) /\ fresh' = FALSE /\ recorded' = rs /\ infos' = is
      /\ ents' = now.ents /\ h_ent' = now.h_ent /\ end' = now.end /\ up' = now.up
      /\ shown' = (~skips /\ up')
      /\ missed' = IF skips THEN missed \cup changed ELSE missed \ changed
      /\ reused' = IF skips THEN {}
                   ELSE {s \in Slots : rs[s] # Gone /\ h_ent'[s] # 0
                                       /\ ents'[h_ent'[s]].going}
      /\ made' = IF skips THEN {} ELSE {s \in Slots : h_ent'[s] # h_ent[s]}
      /\ plain' = R
      /\ open' = open /\ humans' = humans /\ ghosts' = ghosts
  BY DEF ReadFrame, FrameAfter, FrameWorld, World, clients
<1>2. /\ GoodWorld(World) /\ Guests /\ open \in BOOLEAN
      /\ infos \in [Players -> Looks \cup {NoInfo}] /\ recorded \in Files
      /\ Dressing(World, infos, plain)
  BY <1>1 DEF EntityInv, StateInv
<1>3. /\ oldi \in [Players -> Looks \cup {NoInfo}] /\ Dressing(World, oldi, plain)
      /\ olds \in Files /\ \A p \in Players \cap plain : oldi[p] \in {0, NoInfo}
  BY <1>2, NothingRecorded DEF EntityInv, PlainInv, NoInfos
<1>4. R \subseteq Players /\ \A p \in R : is[p] = 0
  OBVIOUS
<1> HIDE DEF olds, now, w, changed
<1>5. /\ GoodWorld(w) /\ Dressing(w, is, R)
      /\ w.end = end /\ w.up = up /\ w.h_ent = h_ent
  <2>1. w = Dressed(World, is, oldi)
    BY DEF w, FrameWorld
  <2> DEFINE S == {p \in Players : is[p] = 0 /\ (oldi[p] = NoInfo \/ p \in plain)}
  <2>2. R = S
    OBVIOUS
  <2> HIDE DEF R, oldi
  <2>3. GoodWorld(w) /\ Dressing(w, is, R) /\ w.end = World.end /\ w.up = World.up
        /\ w.h_ent = World.h_ent
    BY <1>2, <1>3, <2>1, <2>2, DressedRight
  <2>4. QED
    BY <2>3, WorldParts
<1> HIDE DEF R, oldi
<1>6. ~skips => RightUpTo(w, now, NumSlots, rs, olds, is, R)
  <2> SUFFICES ASSUME ~skips PROVE RightUpTo(w, now, NumSlots, rs, olds, is, R)
    OBVIOUS
  <2>1. now = Simulated(w, rs, olds, is)
    BY DEF now, w, olds, FrameAfter
  <2>2. QED
    BY <1>2, <1>5, <2>1, SimulatedRight
<1>7. skips => now = w
  BY DEF now, w, FrameAfter
<1>8. GoodWorld(now) /\ Dressing(now, is, R)
  BY <1>5, <1>6, <1>7 DEF RightUpTo
<1>9. World' = now
  BY <1>1, <1>8 DEF World, GoodWorld, Worlds
<1>10. GoodWorld(World)' /\ Dressing(World, infos, plain)'
  BY <1>1, <1>8, <1>9, GoodNext, DressingNext
<1>11. StateInv' /\ PlainInv'
  BY <1>1, <1>2, <1>4, <1>10, PlayersAreSlots DEF StateInv, PlainInv, Guests
<1>12. ShownInv'
  <2> SUFFICES ASSUME ~skips, now.up, NEW s \in Slots \ reused' PROVE Stands(World, s)'
    BY <1>1 DEF ShownInv
  <2>1. s \in 1..NumSlots
    BY DEF Slots
  <2>2. SlotDone(w, now, s, rs, olds, is)
    BY <1>6, <2>1 DEF RightUpTo
  <2>3. rs[s] # Gone => Has(now, s) /\ ~now.ents[now.h_ent[s]].going
    BY <1>1, <2>2 DEF SlotDone, Has
  <2>4. ASSUME NEW t \in Slots, NEW z \in Ends, rs[s].kind = "beam", rs[s].ends[z] = t,
               t > s => t \notin made'
        PROVE  now.ents[now.h_ent[s]].attach[z] = now.h_ent[t]
    <3>1. t # 0 /\ (t <= s \/ t > s)
      BY ReplayAssumption DEF Slots
    <3>2. t <= s \/ now.h_ent[t] = w.h_ent[t]
      BY <1>1, <1>5, <2>4, <3>1
    <3>3. BeamStays(w, now, s, rs[s])
      BY <2>2 DEF SlotDone
    <3>4. QED
      BY <2>4, <3>1, <3>2, <3>3 DEF BeamStays
  <2>5. SlotShows(now, s, rs[s], InfoOf(is, s))
    BY <2>2 DEF SlotDone
  <2>6. SlotShows(World, s, recorded[s], InfoOf(infos, s))'
    BY <1>1, <1>9, <2>5 DEF SlotShows, KindOf, Has, InfoOf, Room
  <2>7. QED
    BY <1>1, <1>9, <2>3, <2>4, <2>6 DEF Stands
<1>13. MonstersInv'
  <2> SUFFICES ASSUME now.up, NEW s \in Slots \ missed', rs[s].kind = "monster"
               PROVE  now.end[s] = rs[s].at
    BY <1>1, <1>9 DEF MonstersInv
  <2>1. s \notin Players /\ rs[s] # Gone /\ Place(rs[s]) = rs[s].at
    BY FileFacts, RecordedFacts DEF Place
  <2>2. ASSUME olds[s].kind = "monster", Place(olds[s]) = rs[s].at, s \notin missed
        PROVE  end[s] = rs[s].at
    <3>1. ~key
      BY <2>2 DEF olds, NoFile, Gone
    <3>2. olds = recorded /\ ~fresh
      BY <1>1, <3>1 DEF olds
    <3>3. World.end[s] = recorded[s].at
      BY <1>1, <2>2, <3>2 DEF EntityInv, MonstersInv
    <3>4. QED
      BY <2>2, <3>2, <3>3, WorldParts DEF Place
  <2>3. CASE skips
    <3>1. s \notin missed /\ s \notin changed
      BY <1>1, <2>3
    <3>2. olds[s].kind = "monster" /\ Place(olds[s]) = rs[s].at
      BY <2>1, <3>1 DEF changed
    <3>3. QED
      BY <1>5, <1>7, <2>2, <2>3, <3>1, <3>2
  <2>4. CASE ~skips
    <3>1. s \in 1..NumSlots
      BY DEF Slots
    <3>2. MovedTo(w, now, s, rs[s], olds[s])
      BY <1>6, <2>1, <2>4, <3>1 DEF RightUpTo, SlotDone
    <3>3. CASE now.end[s] = Place(rs[s])
      BY <2>1, <3>3
    <3>4. CASE olds[s].kind = "monster" /\ Place(rs[s]) = Place(olds[s]) /\ now.end[s] = w.end[s]
      <4>1. s \notin changed
        BY <3>4 DEF changed
      <4>2. s \notin missed
        BY <1>1, <2>4, <4>1
      <4>3. QED
        BY <1>5, <2>1, <2>2, <3>4, <4>2
    <3>5. QED
      BY <3>2, <3>3, <3>4 DEF MovedTo
  <2>5. QED
    BY <2>3, <2>4
<1>14. QED
  BY <1>10, <1>11, <1>12, <1>13 DEF EntityInv

\* Some entities of w are freed, which makes the handles to them null.
Freed(w, q, G) ==
    /\ q \in Worlds
    /\ q.ents = [id \in Ids |-> IF id \in G THEN Free ELSE w.ents[id]]
    /\ q.h_ent = [s \in Slots |-> IF w.h_ent[s] \in G THEN 0 ELSE w.h_ent[s]]
    /\ q.end = w.end /\ q.up = w.up

LEMMA FreedRight ==
    ASSUME NEW w, GoodWorld(w), w.up, Guests, NEW G \in SUBSET Ids,
           NEW q, Freed(w, q, G)
    PROVE  /\ GoodWorld(q)
           /\ \A s \in Slots : Has(q, s) =>
                /\ Has(w, s) /\ q.h_ent[s] = w.h_ent[s] /\ KindOf(q, s) = KindOf(w, s)
                /\ q.ents[q.h_ent[s]] = w.ents[w.h_ent[s]]
           /\ \A s \in Slots : Has(w, s) /\ w.h_ent[s] \notin G => Has(q, s)
<1>1. /\ w.ents \in [Ids -> Entities \cup {Free}] /\ w.h_ent \in [Slots -> Ids \cup {0}]
      /\ q \in Worlds /\ 0 \notin Ids /\ q.up = w.up
      /\ \A id \in Ids : q.ents[id] = IF id \in G THEN Free ELSE w.ents[id]
      /\ \A s \in Slots : q.h_ent[s] = IF w.h_ent[s] \in G THEN 0 ELSE w.h_ent[s]
  BY WorldFacts, ReplayAssumption DEF Freed
<1>2. ASSUME NEW s \in Slots, Has(q, s)
      PROVE  /\ Has(w, s) /\ q.h_ent[s] = w.h_ent[s] /\ w.h_ent[s] \notin G
             /\ KindOf(q, s) = KindOf(w, s) /\ q.ents[q.h_ent[s]] = w.ents[w.h_ent[s]]
  <2>1. q.h_ent[s] = w.h_ent[s] /\ w.h_ent[s] \notin G /\ Has(w, s)
    BY <1>1, <1>2 DEF Has
  <2>2. w.h_ent[s] \in Ids
    BY <2>1, WorldFacts
  <2>3. q.ents[q.h_ent[s]] = w.ents[w.h_ent[s]]
    BY <1>1, <2>1, <2>2
  <2>4. QED
    BY <1>2, <2>1, <2>3 DEF KindOf
<1>3. \A s \in Slots : Has(w, s) /\ w.h_ent[s] \notin G => Has(q, s)
  BY <1>1 DEF Has
<1>4. \A s \in Slots : Has(q, s) =>
        /\ q.ents[q.h_ent[s]] # Free
        /\ KindOf(q, s) = "bot" => s \in Players
        /\ KindOf(q, s) = "beam" => s \notin Players
  BY <1>2 DEF GoodWorld
<1>5. \A s, t \in Slots : Has(q, s) /\ q.h_ent[s] = q.h_ent[t] => s = t
  <2> SUFFICES ASSUME NEW s \in Slots, NEW t \in Slots, Has(q, s), q.h_ent[s] = q.h_ent[t]
               PROVE  s = t
    OBVIOUS
  <2>1. Has(q, t)
    BY DEF Has
  <2>2. Has(w, s) /\ w.h_ent[s] = w.h_ent[t]
    BY <1>2, <2>1
  <2>3. QED
    BY <2>2 DEF GoodWorld
<1>6. \A id \in Ids : q.ents[id] # Free =>
        (\E s \in Slots : q.h_ent[s] = id) \/ (q.ents[id].kind = "bot" /\ q.ents[id].going)
  <2> SUFFICES ASSUME NEW id \in Ids, q.ents[id] # Free
               PROVE  \/ \E s \in Slots : q.h_ent[s] = id
                      \/ q.ents[id].kind = "bot" /\ q.ents[id].going
    OBVIOUS
  <2>1. id \notin G /\ q.ents[id] = w.ents[id]
    BY <1>1
  <2>2. \A s \in Slots : w.h_ent[s] = id => q.h_ent[s] = id
    BY <1>1, <2>1
  <2>3. (\E s \in Slots : w.h_ent[s] = id) \/ (w.ents[id].kind = "bot" /\ w.ents[id].going)
    BY <2>1 DEF GoodWorld
  <2>4. QED
    BY <2>1, <2>2, <2>3
<1>7. Cardinality(Bots(q.ents)) + humans + ghosts <= Clients
  <2>1. Bots(q.ents) \in SUBSET Bots(w.ents)
    BY <1>1, EntityFacts DEF Bots
  <2>2. IsFiniteSet(Bots(w.ents)) /\ Cardinality(Bots(w.ents)) \in Nat
    BY WorldFacts
  <2>3. IsFiniteSet(Bots(q.ents)) /\ Cardinality(Bots(q.ents)) <= Cardinality(Bots(w.ents))
    BY <2>1, <2>2, FS_Subset
  <2>4. Cardinality(Bots(q.ents)) \in Nat
    BY <2>3, FS_CardinalityType
  <2>5. Cardinality(Bots(w.ents)) + humans + ghosts <= Clients /\ Clients \in Nat
    BY ReplayAssumption DEF GoodWorld
  <2>6. QED
    BY <2>2, <2>3, <2>4, <2>5 DEF Guests
<1>8. GoodWorld(q)
  BY <1>1, <1>4, <1>5, <1>6, <1>7 DEF GoodWorld
<1>9. QED
  BY <1>2, <1>3, <1>8

\* What is freed leaves the rest as it is.
LEMMA FreedNext ==
    ASSUME EntityInv, up, NEW G \in SUBSET Ids, UNCHANGED <<end, up>>,
           ents' = [id \in Ids |-> IF id \in G THEN Free ELSE ents[id]],
           h_ent' = [s \in Slots |-> IF h_ent[s] \in G THEN 0 ELSE h_ent[s]]
    PROVE  \A q : q = World' =>
                Freed(World, q, G) /\ GoodWorld(q) /\ Dressing(q, infos, plain)
<1>1. GoodWorld(World) /\ Dressing(World, infos, plain) /\ Guests /\ World.up
  BY WorldParts DEF EntityInv, StateInv
<1> DEFINE q == [ents |-> [id \in Ids |-> IF id \in G THEN Free ELSE ents[id]],
                 h_ent |-> [s \in Slots |-> IF h_ent[s] \in G THEN 0 ELSE h_ent[s]],
                 end |-> end, up |-> up]
<1>2. World' = q
  BY DEF World
<1>3. q \in Worlds
  BY <1>1, WorldFacts, WorldParts DEF Worlds
<1>4. Freed(World, q, G)
  BY <1>3, WorldParts DEF Freed
<1> HIDE DEF q
<1>5. /\ GoodWorld(q)
      /\ \A s \in Slots : Has(q, s) =>
            /\ KindOf(q, s) = KindOf(World, s)
            /\ q.ents[q.h_ent[s]] = World.ents[World.h_ent[s]]
  BY <1>1, <1>4, FreedRight
<1>6. Dressing(q, infos, plain)
  <2>1. \A p \in Players : KindOf(q, p) = "bot" => Has(q, p) /\ p \in Slots
    BY PlayersAreSlots DEF KindOf
  <2>2. QED
    BY <1>1, <1>5, <2>1 DEF Dressing
<1>7. QED
  BY <1>2, <1>4, <1>5, <1>6

LEMMA OthersPrepared == EntityInv /\ PrepareAnother => EntityInv'
<1> SUFFICES ASSUME EntityInv, PrepareAnother PROVE EntityInv'
  OBVIOUS
<1> DEFINE things == {id \in Ids : ents[id].kind \in {"model", "beam"}}
<1>1. PICK last \in {{}} \cup {{b} : b \in Bots(ents)} :
        /\ last # {} => ghosts = 0
        /\ ghosts' = IF last = {} THEN ghosts ELSE 1
        /\ ents' = [id \in Ids |-> IF id \in things \cup last THEN Free ELSE ents[id]]
        /\ h_ent' = [s \in Slots |-> IF h_ent[s] \in things \cup last THEN 0 ELSE h_ent[s]]
  BY DEF PrepareAnother
<1>2. /\ up /\ open /\ shown' = FALSE
      /\ UNCHANGED <<end, up, humans, open, fresh, recorded, infos, missed, plain>>
  BY DEF PrepareAnother, fileVars
<1>3. PICK G \in SUBSET Ids : G = things \cup last
  BY DEF Bots
<1> HIDE DEF things
<1>4. PICK q : q = World'
  OBVIOUS
<1>5. Freed(World, q, G) /\ GoodWorld(q) /\ Dressing(q, infos, plain)
  BY <1>1, <1>2, <1>3, <1>4, FreedNext
<1>6. Guests /\ GoodWorld(World) /\ q.up
  BY <1>2, <1>5, WorldParts DEF EntityInv, StateInv, Freed
<1>7. Cardinality(Bots(q.ents)) + humans + ghosts' <= Clients /\ ghosts' \in 0..1
  <2>1. Cardinality(Bots(q.ents)) + humans + ghosts <= Clients
    BY <1>5 DEF GoodWorld
  <2>2. CASE last = {}
    BY <1>1, <1>6, <2>1, <2>2 DEF Guests
  <2>3. CASE last # {}
    <3>1. PICK b \in Bots(ents) : last = {b}
      BY <2>3
    <3>2. /\ IsFiniteSet(Bots(World.ents)) /\ Cardinality(Bots(World.ents)) \in Nat
          /\ Cardinality(Bots(World.ents)) + humans + ghosts <= Clients
          /\ b \in Bots(World.ents)
      BY <1>6, <3>1, WorldFacts, WorldParts DEF GoodWorld
    <3>3. Bots(q.ents) \in SUBSET (Bots(World.ents) \ {b})
      <4>1. \A id \in Ids : q.ents[id] = IF id \in G THEN Free ELSE World.ents[id]
        BY <1>5 DEF Freed
      <4>2. b \in G
        BY <1>3, <3>1
      <4>3. QED
        BY <4>1, <4>2, EntityFacts DEF Bots
    <3>4. /\ IsFiniteSet(Bots(World.ents) \ {b})
          /\ Cardinality(Bots(World.ents) \ {b}) = Cardinality(Bots(World.ents)) - 1
      BY <3>2, FS_RemoveElement
    <3>5. /\ Cardinality(Bots(q.ents)) <= Cardinality(Bots(World.ents)) - 1
          /\ Cardinality(Bots(q.ents)) \in Nat
      BY <3>3, <3>4, FS_Subset, FS_CardinalityType
    <3>6. ghosts = 0 /\ ghosts' = 1 /\ humans \in Nat /\ Clients \in Nat
      BY <1>1, <1>6, <2>3, ReplayAssumption DEF Guests
    <3>7. QED
      BY <3>2, <3>5, <3>6
  <2>4. QED
    BY <2>2, <2>3
<1>8. GoodWorld(World)'
  BY <1>2, <1>4, <1>5, <1>6, <1>7 DEF GoodWorld
<1>9. Dressing(World, infos, plain)'
  BY <1>2, <1>4, <1>5, DressingNext
<1>10. StateInv' /\ PlainInv'
  BY <1>2, <1>6, <1>7, <1>8 DEF EntityInv, StateInv, PlainInv, Guests
<1>11. ShownInv'
  BY <1>2 DEF ShownInv
<1>12. MonstersInv'
  BY <1>2 DEF EntityInv, MonstersInv, World
<1>13. QED
  BY <1>8, <1>9, <1>10, <1>11, <1>12 DEF EntityInv

LEMMA FrameEnds == EntityInv /\ ServerFrameEnds => EntityInv'
<1> SUFFICES ASSUME EntityInv, ServerFrameEnds PROVE EntityInv'
  OBVIOUS
<1> DEFINE going == {id \in Ids : ents[id] # Free /\ ents[id].going}
<1>1. /\ up
      /\ UNCHANGED <<end, up, humans, ghosts, open, fresh, recorded, infos, missed, reused,
                     made, plain>>
      /\ ents' = [id \in Ids |-> IF id \in going THEN Free ELSE ents[id]]
      /\ h_ent' = [s \in Slots |-> IF h_ent[s] \in going THEN 0 ELSE h_ent[s]]
      /\ shown' = (shown /\ going \cap Bots(ents) = {})
  BY DEF ServerFrameEnds, fileVars, clients
<1>2. going \in SUBSET Ids /\ \A id \in going : ents[id] # Free /\ ents[id].going
  OBVIOUS
<1> HIDE DEF going
<1>3. PICK q : q = World'
  OBVIOUS
<1>4. /\ Freed(World, q, going)
      /\ GoodWorld(World)' /\ Dressing(World, infos, plain)'
  <2>1. Freed(World, q, going) /\ GoodWorld(q) /\ Dressing(q, infos, plain)
    BY <1>1, <1>2, <1>3, FreedNext
  <2>2. QED
    BY <1>1, <1>3, <2>1, GoodNext, DressingNext
<1>5. GoodWorld(World) /\ World.up /\ Guests /\ recorded \in Files
  BY <1>1, WorldParts DEF EntityInv, StateInv
<1>6. /\ \A s \in Slots : Has(q, s) =>
            /\ Has(World, s) /\ q.h_ent[s] = World.h_ent[s] /\ KindOf(q, s) = KindOf(World, s)
            /\ q.ents[q.h_ent[s]] = World.ents[World.h_ent[s]]
      /\ \A s \in Slots : Has(World, s) /\ World.h_ent[s] \notin going => Has(q, s)
  BY <1>2, <1>4, <1>3, <1>5, FreedRight
<1>7. StateInv'
  <2>1. up /\ ~open => \A s \in Slots : ~Has(q, s)
    BY <1>6 DEF EntityInv, StateInv
  <2>2. up' /\ ~open' => \A s \in Slots : ~Has(World', s)
    BY <1>1, <1>3, <2>1
  <2>3. shown' \in BOOLEAN /\ (shown' => open' /\ up' /\ ~fresh')
    BY <1>1 DEF EntityInv, StateInv
  <2>4. QED
    BY <1>1, <1>4, <2>2, <2>3 DEF EntityInv, StateInv, Has, Guests
<1>8. ASSUME shown', NEW s \in Slots \ reused PROVE Stands(World, s)'
  <2>1. /\ shown /\ going \cap Bots(ents) = {}
        /\ \A t \in Slots \ reused : Stands(World, t)
    BY <1>1, <1>8 DEF EntityInv, ShownInv
  <2>2. ASSUME NEW t \in Slots \ reused, recorded[t] # Gone
        PROVE  /\ Has(World, t) /\ Has(q, t) /\ q.h_ent[t] = World.h_ent[t]
               /\ KindOf(q, t) = KindOf(World, t)
               /\ q.ents[q.h_ent[t]] = World.ents[World.h_ent[t]]
    <3>1. /\ SlotShows(World, t, recorded[t], InfoOf(infos, t))
          /\ ~World.ents[World.h_ent[t]].going
      BY <2>1, <2>2 DEF Stands
    <3>2. recorded[t].kind # "none"
      BY <1>5, <2>2, FileFacts, RecordedFacts
    <3>3. Has(World, t)
      BY <3>1, <3>2 DEF SlotShows, KindOf
    <3>4. World.h_ent[t] \notin going
      BY <1>2, <3>1, WorldParts
    <3>5. QED
      BY <1>6, <3>3, <3>4
  <2>3. Bots(q.ents) = Bots(World.ents)
    <3>1. q.ents = [id \in Ids |-> IF id \in going THEN Free ELSE World.ents[id]]
      BY <1>4, <1>3 DEF Freed
    <3>2. \A id \in going : World.ents[id].kind # "bot"
      BY <1>2, <2>1, WorldParts DEF Bots
    <3>3. QED
      BY <3>1, <3>2, EntityFacts DEF Bots
  <2>4. Stands(World, s)
    BY <2>1
  <2>5. SlotShows(q, s, recorded[s], InfoOf(infos, s))
    <3>1. SlotShows(World, s, recorded[s], InfoOf(infos, s))
      BY <2>4 DEF Stands
    <3>2. CASE recorded[s] = Gone
      <4>1. ~Has(World, s) \/ World.ents[World.h_ent[s]].hidden
        BY <3>1, <3>2 DEF SlotShows, Gone
      <4>2. ~Has(q, s) \/ q.ents[q.h_ent[s]].hidden
        BY <1>6, <4>1
      <4>3. QED
        BY <3>2, <4>2 DEF SlotShows, Gone
    <3>3. CASE recorded[s] # Gone
      <4>1. recorded[s].kind # "none"
        BY <1>5, <3>3, FileFacts, RecordedFacts
      <4>2. KindOf(q, s) = KindOf(World, s) /\ q.ents[q.h_ent[s]] = World.ents[World.h_ent[s]]
        BY <2>2, <3>3
      <4>3. Room(q.ents) = Room(World.ents)
        BY <2>3 DEF Room
      <4>4. QED
        BY <3>1, <4>1, <4>2, <4>3 DEF SlotShows
    <3>4. QED
      BY <3>2, <3>3
  <2>6. recorded[s] # Gone => ~q.ents[q.h_ent[s]].going
    BY <2>2, <2>4 DEF Stands
  <2>7. ASSUME NEW t \in Slots \ reused, NEW z \in Ends, recorded[s].kind = "beam",
               recorded[s].ends[z] = t, recorded[t] # Gone, t > s => t \notin made
        PROVE  q.ents[q.h_ent[s]].attach[z] = q.h_ent[t]
    <3>1. recorded[s] # Gone
      BY <2>7 DEF Gone
    <3>2. World.ents[World.h_ent[s]].attach[z] = World.h_ent[t]
      BY <2>4, <2>7 DEF Stands
    <3>3. QED
      BY <2>2, <2>7, <3>1, <3>2
  <2>8. SlotShows(World, s, recorded[s], InfoOf(infos, s))'
    BY <1>1, <1>3, <2>5 DEF SlotShows, KindOf, Has, InfoOf, Room
  <2>9. QED
    BY <1>1, <1>3, <2>6, <2>7, <2>8 DEF Stands
<1>9. ShownInv'
  BY <1>1, <1>8 DEF ShownInv
<1>10. MonstersInv'
  BY <1>1 DEF EntityInv, MonstersInv, World
<1>11. QED
  BY <1>1, <1>4, <1>7, <1>9, <1>10 DEF EntityInv, PlainInv

LEMMA ReplayOpened == EntityInv /\ OpenReplay => EntityInv'
<1> SUFFICES ASSUME EntityInv, OpenReplay PROVE EntityInv'
  OBVIOUS
<1>1. /\ up /\ ~open /\ open' = TRUE /\ fresh' = TRUE
      /\ UNCHANGED <<recorded, infos, humans, ghosts, ents, h_ent, end, up, shown, missed,
                     reused, made, plain>>
  BY DEF OpenReplay, gameVars, history, clients
<1>2. World' = World
  BY <1>1 DEF World
<1>3. /\ GoodWorld(World) /\ Dressing(World, infos, plain) /\ ~shown
  BY <1>1 DEF EntityInv, StateInv
<1>4. GoodWorld(World)' /\ Dressing(World, infos, plain)'
  BY <1>1, <1>2, <1>3, GoodNext, DressingNext
<1>5. StateInv' /\ PlainInv'
  BY <1>1, <1>4 DEF EntityInv, StateInv, PlainInv, Guests
<1>6. ShownInv' /\ MonstersInv'
  BY <1>1, <1>3 DEF ShownInv, MonstersInv
<1>7. QED
  BY <1>4, <1>5, <1>6 DEF EntityInv

LEMMA SoughtBack == EntityInv /\ SeekBack => EntityInv'
<1> SUFFICES ASSUME EntityInv, SeekBack PROVE EntityInv'
  OBVIOUS
<1>1. /\ up /\ open /\ fresh' = TRUE /\ recorded' = NoFile /\ infos' = NoInfos
      /\ shown' = FALSE
      /\ UNCHANGED <<open, humans, ghosts, ents, h_ent, end, up, plain>>
  BY DEF SeekBack, gameVars, clients
<1>2. World' = World
  BY <1>1 DEF World
<1>3. GoodWorld(World) /\ Dressing(World, NoInfos, plain)
  BY <1>1, NothingRecorded DEF EntityInv, StateInv
<1>4. GoodWorld(World)' /\ Dressing(World, infos, plain)'
  BY <1>1, <1>2, <1>3, GoodNext, DressingNext
<1>5. StateInv' /\ PlainInv'
  BY <1>1, <1>4, NothingRecorded DEF EntityInv, StateInv, PlainInv, NoInfos, Guests
<1>6. ShownInv' /\ MonstersInv'
  BY <1>1 DEF ShownInv, MonstersInv
<1>7. QED
  BY <1>4, <1>5, <1>6 DEF EntityInv

LEMMA ClientsChanged == EntityInv /\ ClientsChange => EntityInv'
<1> SUFFICES ASSUME EntityInv, ClientsChange PROVE EntityInv'
  OBVIOUS
<1>1. /\ up /\ shown' = FALSE
      /\ humans' \in 0..Clients /\ humans' + ghosts + Cardinality(Bots(ents)) <= Clients
      /\ UNCHANGED <<open, fresh, recorded, infos, ents, h_ent, end, up, ghosts, missed, plain>>
  BY DEF ClientsChange, fileVars, gameVars
<1>2. World' = World /\ World.ents = ents /\ World.up
  BY <1>1, WorldParts DEF World
<1>3. GoodWorld(World) /\ Dressing(World, infos, plain)
  BY <1>1 DEF EntityInv, StateInv
<1>4. Dressing(World, infos, plain)'
  BY <1>1, <1>2, <1>3, DressingNext
<1>5. Cardinality(Bots(World.ents)) + humans' + ghosts' <= Clients
  <2>1. Cardinality(Bots(World.ents)) \in Nat /\ ghosts \in 0..1
    BY <1>3, WorldFacts DEF EntityInv, StateInv, Guests
  <2>2. QED
    BY <1>1, <1>2, <2>1, ReplayAssumption
<1>6. GoodWorld(World)'
  BY <1>2, <1>3, <1>5 DEF GoodWorld
<1>7. StateInv' /\ PlainInv'
  BY <1>1, <1>2, <1>6 DEF EntityInv, StateInv, PlainInv, Guests
<1>8. ShownInv'
  BY <1>1 DEF ShownInv
<1>9. MonstersInv'
  BY <1>1, <1>2 DEF EntityInv, MonstersInv
<1>10. QED
  BY <1>4, <1>7, <1>8, <1>9 DEF EntityInv

LEMMA ReplayClosed == EntityInv /\ CloseReplay => EntityInv'
<1> SUFFICES ASSUME EntityInv, CloseReplay PROVE EntityInv'
  OBVIOUS
<1> DEFINE Had(id) == \E s \in Slots : h_ent[s] = id
           Kicked(e) == [e EXCEPT !.going = TRUE]
           es == [id \in Ids |-> IF ~Had(id) THEN ents[id]
                                 ELSE IF ents[id].kind = "bot" THEN Kicked(ents[id]) ELSE Free]
<1>1. /\ up /\ open /\ open' = FALSE /\ shown' = FALSE
      /\ ents' = es /\ h_ent' = [s \in Slots |-> 0] /\ end' = [s \in Slots |-> 0]
      /\ UNCHANGED <<fresh, recorded, infos, up, humans, ghosts, plain>>
  BY DEF CloseReplay, clients
<1>2. /\ GoodWorld(World) /\ World.ents = ents /\ World.h_ent = h_ent
      /\ ents \in [Ids -> Entities \cup {Free}]
  BY WorldFacts, WorldParts DEF EntityInv, StateInv
<1> HIDE DEF Kicked
<1>3. \A e \in Entities : e.kind = "bot" =>
            Kicked(e) \in Entities /\ Kicked(e).kind = "bot" /\ Kicked(e).going
  BY DEF Entities, Kicked
<1>4. \A id \in Ids : ents[id].kind = "bot" => ents[id] \in Entities
  BY <1>2, EntityFacts
<1>5. ASSUME NEW id \in Ids
      PROVE  /\ es[id] \in Entities \cup {Free}
             /\ es[id].kind = "bot" <=> ents[id].kind = "bot"
             /\ es[id] # Free => es[id].kind = "bot" /\ es[id].going
  <2>1. CASE ~Had(id)
    <3>1. es[id] = ents[id]
      BY <2>1
    <3>2. ents[id] # Free => ents[id].kind = "bot" /\ ents[id].going
      BY <1>2, <2>1 DEF GoodWorld
    <3> HIDE DEF es
    <3>3. QED
      BY <1>2, <3>1, <3>2
  <2>2. CASE Had(id) /\ ents[id].kind = "bot"
    <3>1. es[id] = Kicked(ents[id])
      BY <2>2
    <3> HIDE DEF es
    <3>2. QED
      BY <1>3, <1>4, <2>2, <3>1
  <2>3. CASE Had(id) /\ ents[id].kind # "bot"
    <3>1. es[id] = Free
      BY <2>3
    <3> HIDE DEF es
    <3>2. QED
      BY <2>3, <3>1, EntityFacts
  <2>4. QED
    BY <2>1, <2>2, <2>3
<1>6. es \in [Ids -> Entities \cup {Free}]
  <2>1. es = [id \in Ids |-> es[id]]
    OBVIOUS
  <2> HIDE DEF es
  <2>2. QED
    BY <1>5, <2>1
<1> DEFINE q == [ents |-> es, h_ent |-> [s \in Slots |-> 0], end |-> [s \in Slots |-> 0],
                 up |-> up]
<1> HIDE DEF es
<1>7. World' = q
  BY <1>1 DEF World
<1>8. /\ q \in Worlds /\ q.ents = es /\ q.up
      /\ \A s \in Slots : ~Has(q, s)
  BY <1>1, <1>6, ReplayAssumption DEF Worlds, Has
<1>9. Bots(q.ents) = Bots(ents)
  BY <1>5, <1>8 DEF Bots
<1> HIDE DEF q
<1>10. GoodWorld(q)
  <2>1. Cardinality(Bots(q.ents)) + humans + ghosts <= Clients
    BY <1>2, <1>9 DEF GoodWorld
  <2>2. \A id \in Ids : q.ents[id] # Free => q.ents[id].kind = "bot" /\ q.ents[id].going
    BY <1>5, <1>8
  <2>3. QED
    BY <1>8, <2>1, <2>2 DEF GoodWorld
<1>11. GoodWorld(World)'
  BY <1>1, <1>7, <1>10, GoodNext
<1>12. Dressing(q, infos, plain)
  BY <1>8, PlayersAreSlots DEF Dressing, KindOf
<1>13. Dressing(World, infos, plain)'
  BY <1>1, <1>7, <1>12, DressingNext
<1>14. StateInv' /\ PlainInv'
  BY <1>1, <1>7, <1>8, <1>11 DEF EntityInv, StateInv, PlainInv, Guests
<1>15. ShownInv' /\ MonstersInv'
  BY <1>1 DEF ShownInv, MonstersInv
<1>16. QED
  BY <1>11, <1>13, <1>14, <1>15 DEF EntityInv

LEMMA Stutters == EntityInv /\ UNCHANGED vars => EntityInv'
<1> SUFFICES ASSUME EntityInv, UNCHANGED vars PROVE EntityInv'
  OBVIOUS
<1>1. /\ World' = World
      /\ UNCHANGED <<open, fresh, recorded, infos, up, humans, ghosts, shown, missed, reused,
                     made, plain>>
  BY DEF vars, fileVars, gameVars, clients, history, World
<1>2. GoodWorld(World) /\ (up => Dressing(World, infos, plain))
  BY DEF EntityInv, StateInv
<1>3. GoodWorld(World)' /\ (up' => Dressing(World, infos, plain)')
  BY <1>1, <1>2, GoodNext, DressingNext
<1>4. StateInv' /\ PlainInv'
  BY <1>1, <1>3 DEF EntityInv, StateInv, PlainInv, Guests
<1>5. ShownInv'
  BY <1>1 DEF EntityInv, ShownInv, Stands, SlotShows, KindOf, Has, InfoOf, Room
<1>6. MonstersInv'
  BY <1>1 DEF EntityInv, MonstersInv
<1>7. QED
  BY <1>3, <1>4, <1>5, <1>6 DEF EntityInv

LEMMA StepRight == EntityInv /\ [Next]_vars => EntityInv'
<1> SUFFICES ASSUME EntityInv, [Next]_vars PROVE EntityInv'
  OBVIOUS
<1>1. CASE OpenReplay
  BY <1>1, ReplayOpened
<1>2. CASE SeekBack
  BY <1>2, SoughtBack
<1>3. CASE CloseReplay
  BY <1>3, ReplayClosed
<1>4. CASE PrepareAnother
  BY <1>4, OthersPrepared
<1>5. ASSUME NEW key \in BOOLEAN, NEW skips \in BOOLEAN, NEW rs \in Scenes,
             NEW is \in [Players -> Looks \cup {NoInfo}], ReadFrame(key, rs, is, skips)
      PROVE  EntityInv'
  BY <1>5, FrameRead, ReplayAssumption
<1>6. CASE ServerFrameEnds
  BY <1>6, FrameEnds
<1>7. CASE ClientsChange
  BY <1>7, ClientsChanged
<1>8. CASE UNCHANGED vars
  BY <1>8, Stutters
<1>9. QED
  BY <1>1, <1>2, <1>3, <1>4, <1>5, <1>6, <1>7, <1>8 DEF Next

LEMMA AlwaysRight == Spec => []EntityInv
<1>1. Init => EntityInv
  BY InitRight
<1>2. EntityInv /\ [Next]_vars => EntityInv'
  BY StepRight
<1>3. QED
  BY <1>1, <1>2, PTL DEF Spec

-----------------------------------------------------------------------------
(* What is always so *)

\* Every entity that a replay made, and that is not being removed, is that of
\* one slot of a replay that is open (closeReplayFile, convertEdictType).
THEOREM NothingLeftBehind == Spec => []NoStrays
<1>1. EntityInv => NoStrays
  <2> SUFFICES ASSUME EntityInv, up, NEW id \in Ids, ents[id] # Free, ~ents[id].going
               PROVE  open /\ Cardinality({s \in Slots : h_ent[s] = id}) = 1
    BY DEF NoStrays
  <2>1. GoodWorld(World) /\ (~open => \A s \in Slots : ~Has(World, s))
    BY DEF EntityInv, StateInv
  <2>2. PICK s \in Slots : h_ent[s] = id
    BY <2>1, WorldParts DEF GoodWorld
  <2>3. Has(World, s)
    BY <2>2, WorldParts, ReplayAssumption DEF Has
  <2>4. \A t \in Slots : h_ent[t] = id => t = s
    BY <2>1, <2>2, <2>3, WorldParts DEF GoodWorld
  <2>5. {t \in Slots : h_ent[t] = id} = {s}
    BY <2>2, <2>4
  <2>6. Cardinality({s}) = 1
    BY FS_Singleton
  <2>7. QED
    BY <2>1, <2>3, <2>5, <2>6
<1>2. QED
  BY <1>1, AlwaysRight, PTL

\* After a frame that was simulated, each slot is shown by an entity of the
\* kind that is recorded, or hidden if nothing is, or a beam without a sprite
\* (simulate).
THEOREM RecordedIsShown == Spec => []ShownRight
<1>1. EntityInv => ShownRight
  <2> SUFFICES ASSUME EntityInv, shown, NEW s \in Slots \ reused
               PROVE  CASE recorded[s].kind = "none"   -> h_ent[s] = 0 \/ ents[h_ent[s]].hidden
                        [] recorded[s].kind = "beam"   ->
                              /\ h_ent[s] # 0
                              /\ ents[h_ent[s]].kind = "beam"
                              /\ ents[h_ent[s]].hidden = ~recorded[s].sprite
                        [] recorded[s].kind = "player" ->
                              \/ Shows(s, "bot")
                              \/ Shows(s, "model") /\ (infos[s] = NoInfo \/ Room(ents) = 0)
                        [] OTHER                       -> Shows(s, "model")
    BY DEF ShownRight
  <2>1. SlotShows(World, s, recorded[s], InfoOf(infos, s))
    BY DEF EntityInv, ShownInv, Stands
  <2>2. recorded[s] \in Recordings(s)
    BY FileFacts DEF EntityInv, StateInv
  <2>3. Has(World, s) <=> h_ent[s] # 0
    BY WorldParts DEF Has
  <2>4. KindOf(World, s) = IF h_ent[s] # 0 THEN ents[h_ent[s]].kind ELSE "none"
    BY WorldParts DEF KindOf, Has
  <2>5. CASE recorded[s].kind = "none"
    BY <2>1, <2>3, <2>5, WorldParts DEF SlotShows
  <2>6. CASE recorded[s].kind = "beam"
    BY <2>1, <2>3, <2>4, <2>6, WorldParts DEF SlotShows
  <2>7. CASE recorded[s].kind = "player"
    <3>1. InfoOf(infos, s) = infos[s]
      BY <2>2, <2>7, RecordedFacts DEF InfoOf
    <3>2. /\ ~ents[h_ent[s]].hidden
          /\ \/ KindOf(World, s) = "bot"
             \/ KindOf(World, s) = "model" /\ (infos[s] = NoInfo \/ Room(ents) = 0)
      BY <2>1, <2>7, <3>1, WorldParts DEF SlotShows
    <3>3. \/ Shows(s, "bot")
          \/ Shows(s, "model") /\ (infos[s] = NoInfo \/ Room(ents) = 0)
      BY <2>4, <3>2 DEF Shows
    <3>4. QED
      BY <2>7, <3>3
  <2>8. CASE recorded[s].kind \notin {"none", "beam", "player"}
    <3>1. KindOf(World, s) = "model" /\ ~ents[h_ent[s]].hidden
      BY <2>1, <2>8, WorldParts DEF SlotShows
    <3>2. Shows(s, "model")
      BY <2>4, <3>1 DEF Shows
    <3>3. QED
      BY <2>8, <3>2
  <2>9. QED
    BY <2>5, <2>6, <2>7, <2>8
<1>2. QED
  BY <1>1, AlwaysRight, PTL

\* A bot looks as its player does (readPlayerDeltas), whoever had the slot
\* before, through keyframes and seeks, unless that is no change to a state of
\* zeros.
THEOREM BotsLookAsRecorded == Spec => []BotsLookRight
<1>1. EntityInv => BotsLookRight
  BY WorldParts DEF EntityInv, BotsLookRight, Dressing, KindOf, Has
<1>2. QED
  BY <1>1, AlwaysRight, PTL

\* Both ends of a beam are at the entities that stand for the recorded ones,
\* unless that of a later slot was made anew in the same frame, after the beam was
\* attached (netedict::apply).
THEOREM BeamsEndRight == Spec => []BeamsAttached
<1>1. EntityInv => BeamsAttached
  <2> SUFFICES ASSUME EntityInv, shown, NEW s \in Slots \ reused, NEW z \in Ends,
                      NEW t \in Slots \ reused, t = recorded[s].ends[z],
                      recorded[s].kind = "beam", recorded[t] # Gone, t > s => t \notin made
               PROVE  ents[h_ent[s]].attach[z] = h_ent[t]
    BY DEF BeamsAttached
  <2>1. Stands(World, s)
    BY DEF EntityInv, ShownInv
  <2>2. QED
    BY <2>1, WorldParts DEF Stands
<1>2. QED
  BY <1>1, AlwaysRight, PTL

\* Monsters move to where they were recorded, but for those that moved last in
\* a frame that was not simulated (setupInterpolation).
THEOREM MonstersMoveRight == Spec => []MonstersPlaced
<1>1. EntityInv => MonstersPlaced
  BY WorldParts DEF EntityInv, StateInv, MonstersInv, MonstersPlaced
<1>2. QED
  BY <1>1, AlwaysRight, PTL

\* No recording brings down a server that has room for the bots: only a player
\* for whom none can be made, and for whom nothing stands (convertEdictType).
THEOREM RoomKeepsServersUp == Spec => []OnlyFullServersCrash
<1>1. EntityInv => OnlyFullServersCrash
  BY WorldParts DEF EntityInv, StateInv, GoodWorld, OnlyFullServersCrash
<1>2. QED
  BY <1>1, AlwaysRight, PTL
=============================================================================
