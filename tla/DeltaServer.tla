----------------------------- MODULE DeltaServer -----------------------------
(***************************************************************************)
(* The UDP server of SvenTV (SvenTV.cpp, NetClient.cpp): it sends a client *)
(* the differences between its last acknowledged state, the baseline, and  *)
(* the frame.                                                              *)
(*                                                                         *)
(* Clients do not interact, so there is one.  Its own code is not in the   *)
(* repository; it is modelled as the comments and the server's code        *)
(* describe it: it decodes a packet from its state of the baseline the     *)
(* packet names, and acknowledges which packets of an update it got.       *)
(***************************************************************************)
EXTENDS EntityCodec, Sequences, FiniteSets

CONSTANTS
    NumEdicts,      \* MAX_EDICTS
    Positions,      \* coordinates of an entity
    PerPacket,      \* entity deltas that fit into a packet (508 bytes)
    IdMod,          \* 2^16: updateId is a uint16_t
    FirstId,        \* updateId when the behaviour begins
    MaxSkips,       \* bound: thinks between two updates of the client
    MaxSent,        \* 100: the longest history of a client
    AckUnit,        \* 8: bits are sent in bytes
    MaxUpdates,     \* bound: updates of a behaviour, 0 for no bound
    MaxChanges,     \* bound: changes of the frame
    MaxStarts,      \* bound: connections and resets
    Timeouts,       \* whether the client can be silent for timeoutSeconds
    Window,         \* bound: the later updates that the packets of an update, and
                    \* the answers to it, can arrive after
    MaxCopies,      \* bound: acknowledgements that arrive again
    ShortAcks,      \* whether lost packets at the end of an update can be unknown
                    \* to the client
    Discards        \* whether the client can discard all of its states but the
                    \* one it decoded from and the one it got

ASSUME ServerAssumption ==
    /\ NumEdicts \in Nat \ {0} /\ PerPacket \in Nat \ {0}
    /\ Positions \subseteq Int
    /\ IdMod \in Nat \ {0} /\ FirstId \in 0..(IdMod - 1)
    /\ MaxSkips \in Nat /\ MaxSent \in Nat \ {0} /\ AckUnit \in Nat \ {0}
    /\ MaxUpdates \in Nat /\ MaxChanges \in Nat /\ MaxStarts \in Nat
    /\ MaxCopies \in Nat
    /\ Window \in Nat /\ Window < IdMod - 1
    /\ {Timeouts, ShortAcks, Discards} \subseteq BOOLEAN

Edicts == 1..NumEdicts
States == {Null} \cup {[Null EXCEPT !.flags = {"valid"}, !.pos = p] : p \in Positions}
Nulls  == [e \in Edicts |-> Null]

VARIABLES
    frame,          \* frame.netedicts
    updateId,
    updates, changes, skips, starts, copies,        \* bounds
    isFree, baselineId, baselines, sentDeltas,      \* the client's NetClient
    astray,         \* history: the baseline got deltas that were not made from
                    \* it, or not all that were acknowledged, or an update went
                    \* out under an id that names another state
    toClient,       \* packets underway to the client
    toServer,       \* packets underway to the server
    known           \* the client's states, by the id of the update

clientVars == <<isFree, baselineId, baselines, sentDeltas, astray>>
frameVars  == <<frame, updateId, updates, changes, skips>>
vars       == <<frameVars, clientVars, starts, copies, toClient, toServer, known>>

NoStates == [id \in {0} |-> Nulls]      \* 0 = no previous state exists

Init ==
    /\ frame = Nulls
    /\ updateId = FirstId
    /\ updates = 0 /\ changes = 0 /\ skips = 0 /\ starts = 0 /\ copies = 0
    /\ isFree = TRUE
    /\ baselineId = 0
    /\ baselines = Nulls
    /\ sentDeltas = <<>>
    /\ astray = FALSE
    /\ toClient = {}
    /\ toServer = {}
    /\ known = NoStates

-----------------------------------------------------------------------------
(* Packets: what a client gets and keeps *)

\* The deltas of an update, packed in the order of the entities.  An update
\* without deltas is one empty packet.
Fragments ==
    LET delta   == [e \in Edicts |-> EdictDelta(frame'[e], baselines[e], FALSE)]
        changed == {e \in Edicts : ~Empty(delta[e])}
        packet(e) == (Cardinality({x \in changed : x <= e}) - 1) \div PerPacket + 1
        count   == IF changed = {} THEN 1
                   ELSE (Cardinality(changed) - 1) \div PerPacket + 1
    IN  [j \in 1..count |->
            [e \in {x \in changed : packet(x) = j} |-> delta[e]]]

\* The states after some of the packets.
Applied(states, packets, got) ==
    [e \in Edicts |->
        IF \E j \in got : e \in DOMAIN packets[j]
        THEN ApplyDelta(states[e],
                packets[CHOOSE j \in got : e \in DOMAIN packets[j]][e])
        ELSE states[e]]

-----------------------------------------------------------------------------
(* The client *)

\* It starts, or drops its states, and asks the server to begin with null.
ClientStart(type) ==
    /\ starts < MaxStarts /\ starts' = starts + 1
    /\ toServer' = toServer \cup {[type |-> type]}
    /\ known' = NoStates
    /\ UNCHANGED <<frameVars, clientVars, copies, toClient>>

\* It has got some packets of an update it can decode, acknowledges them, and
\* may discard other states.
ClientAck(update, got) ==
    /\ update.base \in DOMAIN known
    /\ got \subseteq DOMAIN update.packets /\ got # {}
    /\ \E last \in got \cup {Len(update.packets)} :
            /\ \A j \in got : j <= last
            /\ ~ShortAcks => last = Len(update.packets)
            /\ toServer' = toServer \cup
                    {[type |-> "ack", id |-> update.id,
                      bits |-> [j \in 1..last |-> j \in got]]}
    /\ \E kept \in {DOMAIN known, {0, update.base}} :
            /\ ~Discards => kept = DOMAIN known
            /\ known' = [id \in kept \cup {update.id} |->
                            IF id = update.id /\ id # 0
                            THEN Applied(known[update.base], update.packets, got)
                            ELSE known[id]]
    /\ toClient' = toClient \ {update}
    /\ UNCHANGED <<frameVars, clientVars, starts, copies>>

-----------------------------------------------------------------------------
(* handleClientPackets *)

Receive(message) ==
    /\ message \in toServer
    /\ \/ toServer' = toServer \ {message} /\ UNCHANGED copies
       \/ /\ message.type = "ack"
          /\ copies < MaxCopies /\ copies' = copies + 1
          /\ UNCHANGED toServer
    /\ UNCHANGED <<frameVars, starts, toClient, known>>

\* NetClient::init, unless the address is connected or all slots are taken.
HandleConnect ==
    /\ Receive([type |-> "connect"])
    /\ \/ /\ isFree
          /\ isFree' = FALSE
          /\ baselineId' = 0
          /\ baselines' = Nulls
          /\ sentDeltas' = <<>>
          /\ astray' = FALSE
       \/ UNCHANGED clientVars

HandleReset ==
    /\ Receive([type |-> "reset"])
    /\ IF isFree
       THEN UNCHANGED clientVars
       ELSE /\ baselineId' = 0
            /\ baselines' = Nulls
            /\ sentDeltas' = <<>>
            /\ astray' = FALSE
            /\ UNCHANGED isFree

\* readBit for each packet until the bits run out; the last byte is padded.
BitsRead(bits, packets) ==
    LET sent == ((Len(bits) + AckUnit - 1) \div AckUnit) * AckUnit
    IN  {j \in DOMAIN packets : j <= sent}

Bug_Acked(bits, packets) == DOMAIN packets
Acked(bits, packets) ==
    {j \in BitsRead(bits, packets) : j <= Len(bits) /\ bits[j]}

\* handleDeltaAck
HandleAck(ack) ==
    /\ ack.type = "ack"
    /\ Receive(ack)
    /\ UNCHANGED isFree
    /\ LET found == {i \in DOMAIN sentDeltas : sentDeltas[i].id = ack.id}
       IN  IF isFree \/ found = {}
           THEN UNCHANGED clientVars
           ELSE LET i == CHOOSE k \in found : \A l \in found : k <= l
                    packets == sentDeltas[i].packets
                IN  /\ baselines' = Applied(baselines, packets, Acked(ack.bits, packets))
                    /\ astray' = \/ astray
                                  \/ sentDeltas[i].base # baselineId
                                  \/ BitsRead(ack.bits, packets) # DOMAIN packets
                    /\ IF BitsRead(ack.bits, packets) = DOMAIN packets
                       THEN /\ baselineId' = ack.id
                            /\ sentDeltas' = SubSeq(sentDeltas, i, Len(sentDeltas))
                       ELSE UNCHANGED <<baselineId, sentDeltas>>

-----------------------------------------------------------------------------
(* broadcastEntityStates, after the frame was loaded *)

LoadFrame ==
    \/ UNCHANGED <<frame, changes>>
    \/ /\ changes < MaxChanges /\ changes' = changes + 1
       /\ frame' \in [Edicts -> States]

\* How many updates ago, at the id now, the last one of that id was.
Age(now, id) == IF id < now THEN now - id ELSE now + IdMod - id

\* What is still underway; the requests to start name no update.
StillUnderway(messages) ==
    {m \in messages : "id" \in DOMAIN m => Age(updateId, m.id) <= Window}

NextUpdate ==
    /\ MaxUpdates = 0 \/ updates < MaxUpdates
    /\ updates' = IF MaxUpdates = 0 THEN 0 ELSE updates + 1
    /\ updateId' = (updateId + 1) % IdMod

\* The update of a client that is not due, or of none.
SkipUpdate ==
    /\ NextUpdate
    /\ LoadFrame
    /\ \/ isFree /\ UNCHANGED skips
       \/ skips < MaxSkips /\ skips' = skips + 1
    /\ toClient' = StillUnderway(toClient)
    /\ toServer' = StillUnderway(toServer)
    /\ UNCHANGED <<clientVars, starts, copies, known>>

Bug_History(history) == history
\* An update that is not acknowledged for long is forgotten.
History(history) ==
    IF Len(history) > MaxSent THEN Tail(history) ELSE history

SendUpdate ==
    /\ ~isFree
    /\ NextUpdate
    /\ LoadFrame
    /\ skips' = 0
    /\ LET update == [id |-> updateId, base |-> baselineId, packets |-> Fragments]
       IN  /\ toClient' = StillUnderway(toClient) \cup {update}
           /\ toServer' = StillUnderway(toServer)
           /\ astray' = (astray \/ updateId \in {0, baselineId})
           /\ \/ /\ sentDeltas' = History(Append(sentDeltas, update))
                 /\ UNCHANGED isFree
              \/ /\ Timeouts
                 /\ isFree' = TRUE
                 /\ sentDeltas' = <<>>
    /\ UNCHANGED <<starts, copies, baselineId, baselines, known>>

Next ==
    \/ \E type \in {"connect", "reset"} : ClientStart(type)
    \/ \E update \in toClient : \E got \in SUBSET DOMAIN update.packets :
            ClientAck(update, got)
    \/ HandleConnect \/ HandleReset
    \/ \E ack \in toServer : HandleAck(ack)
    \/ SkipUpdate \/ SendUpdate

Spec == Init /\ [][Next]_vars

\* The server thinks; of the packets of one number, and of the answers, some
\* arrive again and again.
LiveSpec ==
    /\ Spec
    /\ WF_vars(SendUpdate)
    /\ SF_vars(\E ack \in toServer : HandleAck(ack))
    /\ \A j \in Edicts :
        SF_vars(\E update \in toClient : \E got \in SUBSET DOMAIN update.packets :
                    j \in got /\ ClientAck(update, got))

-----------------------------------------------------------------------------
(* Properties *)

\* The states that deltas can lead to.
AllStates == [flags : SUBSET {"valid"}, pos : Int, seq : {0}, rate : {0}, frame : {0}]

\* Every variable keeps its type; the history of a client stays bounded
\* (SvenTV.cpp:443).
TypeOK ==
    /\ frame \in [Edicts -> States]
    /\ baselines \in [Edicts -> AllStates]
    /\ baselineId \in 0..(IdMod - 1)
    /\ Len(sentDeltas) <= MaxSent

\* NetClient.h:47, what baselineId is for: the state the server makes deltas
\* from is the state that the client has of the update of that id, so the client
\* can decode what it gets next.  Messages can be late, lost, out of order or
\* twice; the only ways to lose the agreement until the next reset are those of
\* astray: an acknowledgement of deltas that were made from another baseline
\* (SvenTV.cpp:170), one of which not all bits are there (SvenTV.cpp:165), and an
\* update under the id 0 or that of the baseline when ids wrap (SvenTV.cpp:589).
BaselineAgrees ==
    ~isFree /\ ~astray /\ baselineId \in DOMAIN known => known[baselineId] = baselines

\* An acknowledgement names one update of the history, also after the ids have
\* wrapped around (handleDeltaAck takes the first it finds).
UniqueIds ==
    \A i, j \in DOMAIN sentDeltas :
        sentDeltas[i].id = sentDeltas[j].id => i = j

\* NetClient.h:27, "if an entity doesn't change, then no data needs to be sent
\* for that entity.  Baselines are updated whenever a client acknowledges": when
\* the frame does not change any more, there come updates without deltas only.
UnchangedNotSent ==
    <>[](isFree \/ \A update \in toClient :
                        \A j \in DOMAIN update.packets : DOMAIN update.packets[j] = {})
=============================================================================
