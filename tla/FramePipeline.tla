---------------------------- MODULE FramePipeline ----------------------------
(***************************************************************************)
(* The recording pipeline: engine hooks (main.cpp) capture network         *)
(* messages, client commands and playback events into fixed arrays;        *)
(* StartFrameHook hands the arrays to the recorder (SvenTV.cpp) through    *)
(* edictCopyState; the recorder writes them to the demo file               *)
(* (DemoWriter.cpp).  SingleThread selects between the build's mode        *)
(* (main.cpp:48), where the recorder runs inside StartFrameHook and reads  *)
(* the capture arrays in place, and the mode with a recorder thread, which *)
(* works on copies.  There the calls that build a message, on the server   *)
(* thread and in the recorder's ambient sounds, are steps of their own.    *)
(*                                                                         *)
(* A captured item is a number; what it says is not modelled.              *)
(***************************************************************************)
EXTENDS Integers, FiniteSets

CONSTANTS
    Kinds,          \* the capture arrays; "msg" is g_netmessages
    Cap,            \* length of each: MAX_NETMSG_FRAME, MAX_CMD_FRAME, MAX_EVENT_FRAME
    SingleThread,   \* singleThreadMode
    AutoDemo,       \* hltv.auto_demo > 0
    Ambients,       \* messages initAmbientSounds sends on this map
    AmbientFrame,   \* g_stats.frameCount at which it runs (5 in the code)
    MaxItems,       \* bound: items captured in a behaviour
    MaxMaps         \* bound: maps played in a behaviour

ASSUME ConstantsAssumption ==
    /\ "msg" \in Kinds
    /\ Cap \in [Kinds -> Nat \ {0}]
    /\ SingleThread \in BOOLEAN
    /\ AutoDemo \in BOOLEAN
    /\ Ambients \in Nat
    /\ AmbientFrame \in Nat
    /\ MaxItems \in Nat
    /\ MaxMaps \in Nat \ {0}

VARIABLES
    (* Globals of main.cpp *)
    buf,            \* g_netmessages, g_cmds, g_events: contents, kept after a clear
    count,          \* g_netmessage_count, g_command_count, g_event_count
    enabled,        \* SvenTV::enableDemoFile
    canAuto,        \* g_can_autostart_demo
    map, phase,     \* current map; "spawned" while gpGlobals->time is still 1.0
    pcMain,         \* where the server thread is
    logging,        \* g_should_write_next_message  (with a recorder thread)
    own,            \* g_netmessage_count as each thread has read it in MessageEnd
    sent,           \* messages initAmbientSounds has sent in this frame
    (* SvenTV *)
    copyState,      \* edictCopyState
    frame,          \* the arrays of FrameData (used in multi-thread mode only)
    frameCount,     \* the counts of FrameData
    frameMap,       \* map the entity states of the frame were loaded from
    pcTv,           \* where think_tvThread is
    (* DemoWriter *)
    fileOpen,       \* demoFile # NULL
    due,            \* now >= nextDemoUpdate
    statFrames,     \* g_stats.frameCount, saturated above AmbientFrame
    (* History *)
    next,           \* number of the next captured item
    recStart,       \* items below it were captured before recording was switched on
    mapStart,       \* items below it were captured on an earlier map
    copies,         \* frames copied on this map (single thread mode), saturated at 2
    dropped,        \* items the full-array rule dropped
    file, again,    \* items in the open (or last) file; those in it more than once
    older,          \* items a frame with the counts of an older copy wrote to it
    overlapped,     \* messages captured in part while ambient sounds were sent
    raced,          \* the server thread touched g_netmessages meanwhile
    fileMap,        \* map the file was opened on
    stopMap         \* last map on which recording was stopped or failed

captureVars == <<buf, count, next, dropped>>
controlVars == <<enabled, canAuto, recStart, stopMap>>
mapVars     == <<map, phase, mapStart, copies>>
handVars    == <<copyState, frame, frameCount, frameMap>>
fileVars    == <<fileOpen, statFrames, file, again, older, fileMap>>
msgVars     == <<logging, own, sent, overlapped, raced>>
vars == <<captureVars, controlVars, mapVars, handVars, fileVars, msgVars, due, pcMain, pcTv>>

Item    == 1..MaxItems
Ambient == MaxItems + 1                 \* every ambient message
Slots   == UNION {0..(Cap[k] - 1) : k \in Kinds}
Content == (-Ambient)..Ambient          \* 0: nothing, or a mixture; -x: x begun
Capturing == {"msgBody", "msgEnd", "msgStore"}      \* inside a message (pcMain)
Sending   == {"ambient", "ambBody", "ambEnd", "ambStore"}   \* (pcTv)
TvBusy    == {"load", "file", "write"} \cup Sending

(***************************************************************************)
(* The first n elements of array b, and what the recorder sees: in single  *)
(* thread mode frame.netmessages, cmds and events point at the capture     *)
(* arrays (SvenTV.cpp:90-96).                                              *)
(***************************************************************************)
Prefix(b, n) == {b[i] : i \in 0..(n - 1)}
Live         == UNION {Prefix(buf[k], count[k]) : k \in Kinds}
FrameArrays  == IF SingleThread THEN buf ELSE frame
FrameItems(arrays) == UNION {Prefix(arrays[k], frameCount[k]) : k \in Kinds}
InFlight     == IF copyState = "FINISHED" THEN FrameItems(FrameArrays) ELSE {}

(***************************************************************************)
(* n items x stored from slot c on: the count is taken back when it        *)
(* reaches the array's length, so the last slot is reused and never        *)
(* counted.                                                                *)
(***************************************************************************)
Bug_StoredCount(k, c, n) == IF c + n <= Cap[k] THEN c + n ELSE Cap[k] - 1
Bug_StoredShort(k, c, n) == IF c + n < Cap[k] - 1 THEN c + n ELSE Cap[k] - 2
StoredCount(k, c, n) == IF c + n < Cap[k] THEN c + n ELSE Cap[k] - 1
Stored(k, b, c, n, x) ==
    [i \in Slots |->
        IF i \in c..(StoredCount(k, c, n) - 1) \/ (i = Cap[k] - 1 /\ c + n > i)
        THEN x ELSE b[i]]

Init ==
    /\ buf = [k \in Kinds |-> [i \in Slots |-> 0]]
    /\ count = [k \in Kinds |-> 0]
    /\ enabled = FALSE
    /\ canAuto = TRUE
    /\ map = 1
    /\ phase \in {"loading", "running"}     \* plugin loaded before or during a map
    /\ pcMain = "idle"
    /\ copyState = "REQUESTED"
    /\ frame = [k \in Kinds |-> [i \in Slots |-> 0]]
    /\ frameCount = [k \in Kinds |-> 0]
    /\ frameMap = 0
    /\ pcTv = IF SingleThread THEN "idle" ELSE "wait"
    /\ fileOpen = FALSE
    /\ due = TRUE
    /\ statFrames = 0
    /\ next = 1
    /\ recStart = 1
    /\ mapStart = 1
    /\ copies = 0
    /\ dropped = {}
    /\ file = {}
    /\ again = {}
    /\ older = {}
    /\ fileMap = 0
    /\ stopMap = 0
    /\ logging = FALSE
    /\ own = [t \in {"server", "recorder"} |-> 0]
    /\ sent = 0
    /\ overlapped = {}
    /\ raced = FALSE

-----------------------------------------------------------------------------
(* Hooks on the server thread, between two runs of StartFrameHook *)

\* The capturing part of ClientCommand and PlaybackEvent, whose arrays only the
\* server thread writes; MessageBegin..MessageEnd when there is no other thread.
Capture(k) ==
    /\ pcMain = "idle"
    /\ SingleThread \/ k # "msg"
    /\ enabled
    /\ next <= MaxItems
    /\ buf' = [buf EXCEPT ![k] = Stored(k, buf[k], count[k], 1, next)]
    /\ count' = [count EXCEPT ![k] = StoredCount(k, count[k], 1)]
    /\ dropped' = IF count[k] = Cap[k] - 1 THEN dropped \cup {next} ELSE dropped
    /\ next' = next + 1
    /\ UNCHANGED <<msgVars, controlVars, mapVars, handVars, fileVars, due, pcMain, pcTv>>

\* With a recorder thread, the calls of a message are steps.  Each call looks up
\* g_netmessages[g_netmessage_count] again: the header goes into that element, and
\* the element is whole when the rest went into it too.
Begun(x) == [buf EXCEPT !["msg"][count["msg"]] = -x]
Written(x) ==
    IF logging
    THEN [buf EXCEPT !["msg"][count["msg"]] = IF @ \in {-x, x} THEN x ELSE 0]
    ELSE buf

MessageBegin ==
    /\ ~SingleThread /\ pcMain = "idle"
    /\ enabled
    /\ next <= MaxItems
    /\ logging' = TRUE
    /\ buf' = Begun(next)
    /\ pcMain' = "msgBody"
    /\ overlapped' = IF pcTv \in Sending THEN overlapped \cup {next} ELSE overlapped
    /\ raced' = (raced \/ pcTv \in Sending)
    /\ UNCHANGED <<count, next, dropped, own, sent>>
    /\ UNCHANGED <<controlVars, mapVars, handVars, fileVars, due, pcTv>>

\* A message that is not captured: recording is off, or the statistics are shown
\* (g_pause_message_logging).
MessageIgnored ==
    /\ ~SingleThread /\ pcMain = "idle"
    /\ logging' = FALSE
    /\ UNCHANGED <<own, sent, overlapped, raced, captureVars, controlVars, mapVars>>
    /\ UNCHANGED <<handVars, fileVars, due, pcMain, pcTv>>

\* The Write calls of the message
MessageBody ==
    /\ pcMain = "msgBody"
    /\ buf' = Written(next)
    /\ pcMain' = "msgEnd"
    /\ UNCHANGED <<count, next, dropped, msgVars>>
    /\ UNCHANGED <<controlVars, mapVars, handVars, fileVars, due, pcTv>>

\* MessageEnd reads the counter, which the compiler keeps in a register while it
\* counts up and compares,
MessageEnd ==
    /\ pcMain = "msgEnd"
    /\ own' = IF logging THEN [own EXCEPT !["server"] = count["msg"]] ELSE own
    /\ next' = IF logging THEN next ELSE next + 1
    /\ pcMain' = IF logging THEN "msgStore" ELSE "idle"
    /\ UNCHANGED <<buf, count, dropped, logging, sent, overlapped, raced>>
    /\ UNCHANGED <<controlVars, mapVars, handVars, fileVars, due, pcTv>>

\* and stores it.
MessageStore ==
    /\ pcMain = "msgStore"
    /\ count' = [count EXCEPT !["msg"] = StoredCount("msg", own["server"], 1)]
    /\ dropped' = IF own["server"] = Cap["msg"] - 1 THEN dropped \cup {next} ELSE dropped
    /\ next' = next + 1
    /\ own' = [own EXCEPT !["server"] = 0]
    /\ pcMain' = "idle"
    /\ UNCHANGED <<buf, logging, sent, overlapped, raced>>
    /\ UNCHANGED <<controlVars, mapVars, handVars, fileVars, due, pcTv>>

\* .demo chat command and demo console command
ToggleDemo ==
    /\ pcMain = "idle"
    /\ phase = "running"
    /\ enabled' = ~enabled
    /\ canAuto' = (canAuto /\ enabled')
    /\ recStart' = IF enabled' THEN next ELSE recStart
    /\ stopMap' = IF enabled' THEN stopMap ELSE map
    /\ UNCHANGED <<msgVars, captureVars, mapVars, handVars, fileVars, due, pcMain, pcTv>>

\* replay_demo switches recording off but leaves g_can_autostart_demo alone.
ReplayDemo ==
    /\ pcMain = "idle"
    /\ phase = "running"
    /\ enabled' = FALSE
    /\ UNCHANGED <<canAuto, recStart, stopMap>>
    /\ UNCHANGED <<msgVars, captureVars, mapVars, handVars, fileVars, due, pcMain, pcTv>>

\* ServerDeactivate hook: only the message count is cleared.
Changelevel ==
    /\ pcMain = "idle"
    /\ phase = "running"
    /\ map < MaxMaps
    /\ enabled' = FALSE
    /\ count' = [count EXCEPT !["msg"] = 0]
    /\ map' = map + 1
    /\ phase' = "loading"
    /\ mapStart' = next
    /\ copies' = 0
    /\ raced' = (raced \/ pcTv \in Sending)
    /\ UNCHANGED <<canAuto, recStart, stopMap, buf, next, dropped>>
    /\ UNCHANGED <<logging, own, sent, overlapped, handVars, fileVars, due, pcMain, pcTv>>

MapInitHook ==
    /\ pcMain = "idle"
    /\ phase = "loading"
    /\ canAuto' = TRUE
    /\ phase' = "spawned"
    /\ UNCHANGED <<enabled, recStart, stopMap, map, mapStart, copies>>
    /\ UNCHANGED <<msgVars, captureVars, handVars, fileVars, due, pcMain, pcTv>>

-----------------------------------------------------------------------------
(* StartFrameHook and think_mainThread *)

Bug_AutostartsEarly == ~enabled /\ AutoDemo /\ canAuto
Bug_AutostartsAgain == ~enabled /\ AutoDemo /\ phase = "running"
Autostarts == ~enabled /\ AutoDemo /\ phase = "running" /\ canAuto

\* With nothing to record, only single thread mode runs the recorder.
Bug_Thinks(recording) == recording
Thinks(recording) == recording \/ SingleThread

\* The engine's first frame of a map runs at time 1.0, where nothing autostarts.
StartFrameHook ==
    /\ pcMain = "idle"
    /\ phase # "loading"
    /\ enabled' = (enabled \/ Autostarts)
    /\ recStart' = IF Autostarts THEN next ELSE recStart
    /\ phase' = "running"
    /\ pcMain' = IF Thinks(enabled') THEN "think" ELSE "idle"
    /\ UNCHANGED <<canAuto, stopMap, map, mapStart, copies>>
    /\ UNCHANGED <<msgVars, captureVars, handVars, fileVars, due, pcTv>>

Bug_CopiesUnasked == due \/ ~SingleThread
Bug_CopiesEarly == copyState = "REQUESTED"
Copies == copyState = "REQUESTED" /\ (due \/ ~SingleThread)

think_mainThread ==
    /\ pcMain = "think"
    /\ \/ /\ Copies
          /\ pcMain' = "copy"
          /\ UNCHANGED pcTv
       \/ /\ ~Copies
          /\ pcMain' = IF SingleThread THEN "callOld" ELSE "idle"
          /\ pcTv' = IF SingleThread THEN "load" ELSE pcTv
    /\ UNCHANGED <<msgVars, captureVars, controlVars, mapVars, handVars, fileVars, due>>

Bug_ClearedCounts == [count EXCEPT !["msg"] = 0]
ClearedCounts == [k \in Kinds |-> 0]

CopyFrame ==
    /\ pcMain = "copy"
    /\ frame' = IF SingleThread THEN frame
                ELSE [k \in Kinds |-> [i \in Slots |->
                        IF i < count[k] THEN buf[k][i] ELSE frame[k][i]]]
    /\ frameCount' = count
    /\ frameMap' = map
    /\ count' = ClearedCounts
    /\ copyState' = "FINISHED"
    /\ pcMain' = IF SingleThread THEN "callNew" ELSE "idle"
    /\ pcTv' = IF SingleThread THEN "load" ELSE pcTv
    /\ copies' = IF SingleThread /\ copies < 2 THEN copies + 1 ELSE copies
    /\ UNCHANGED <<msgVars, buf, next, dropped, map, phase, mapStart>>
    /\ UNCHANGED <<controlVars, fileVars, due>>

-----------------------------------------------------------------------------
(* think_tvThread and writeDemoFile *)

TvReturn ==
    /\ pcTv' = IF SingleThread THEN "idle" ELSE "wait"
    /\ pcMain' = IF SingleThread THEN "idle" ELSE pcMain

\* The wait loop of the recorder thread also closes a file that was switched off.
TvWait ==
    /\ ~SingleThread
    /\ pcTv = "wait"
    /\ \/ /\ copyState = "FINISHED"
          /\ pcTv' = "load"
          /\ UNCHANGED fileOpen
       \/ /\ copyState # "FINISHED" /\ fileOpen /\ ~enabled
          /\ fileOpen' = FALSE
          /\ UNCHANGED pcTv
    /\ UNCHANGED <<statFrames, file, again, older, fileMap, pcMain>>
    /\ UNCHANGED <<msgVars, captureVars, controlVars, mapVars, handVars, due>>

\* Entity states: the live edicts in single thread mode, the copied ones otherwise.
TvLoad ==
    /\ pcTv = "load"
    /\ frameMap' = IF SingleThread THEN map ELSE frameMap
    /\ pcTv' = "file"
    /\ UNCHANGED <<copyState, frame, frameCount, pcMain>>
    /\ UNCHANGED <<msgVars, captureVars, controlVars, mapVars, fileVars, due>>

\* Recording is off: close the file; edictCopyState stays FINISHED.
TvNotRecording ==
    /\ pcTv = "file"
    /\ ~enabled
    /\ fileOpen' = FALSE
    /\ TvReturn
    /\ UNCHANGED <<statFrames, file, again, older, fileMap>>
    /\ UNCHANGED <<msgVars, captureVars, controlVars, mapVars, handVars, due>>

\* initDemoFile: no folder, no space or no file.
TvOpenFails ==
    /\ pcTv = "file"
    /\ enabled /\ ~fileOpen
    /\ enabled' = FALSE
    /\ canAuto' = FALSE
    /\ stopMap' = map
    /\ TvReturn
    /\ UNCHANGED recStart
    /\ UNCHANGED <<msgVars, captureVars, mapVars, handVars, fileVars, due>>

\* initDemoFile succeeds, or the file is open already.
TvOpen ==
    /\ pcTv = "file"
    /\ enabled
    /\ \/ fileOpen /\ UNCHANGED fileVars
       \/ /\ ~fileOpen
          /\ fileOpen' = TRUE
          /\ statFrames' = 0
          /\ file' = {}
          /\ again' = {}
          /\ older' = {}
          /\ fileMap' = map
    /\ pcTv' = "write"
    /\ UNCHANGED <<msgVars, captureVars, controlVars, mapVars, handVars, due, pcMain>>

\* The file is larger than hltv.max_demo_mb.
TvTooBig ==
    /\ pcTv = "write"
    /\ enabled' = FALSE
    /\ canAuto' = FALSE
    /\ stopMap' = map
    /\ fileOpen' = FALSE
    /\ TvReturn
    /\ UNCHANGED <<recStart, statFrames, file, again, older, fileMap>>
    /\ UNCHANGED <<msgVars, captureVars, mapVars, handVars, due>>

TvNotDue ==
    /\ pcTv = "write"
    /\ ~due
    /\ TvReturn
    /\ UNCHANGED <<msgVars, captureVars, controlVars, mapVars, handVars, fileVars, due>>

\* initAmbientSounds sends its messages through the capture hooks; in single
\* thread mode nothing else runs meanwhile.
AmbientsSent == SingleThread /\ statFrames = AmbientFrame /\ enabled
BufAfterAmbients ==
    IF AmbientsSent
    THEN [buf EXCEPT !["msg"] = Stored("msg", @, count["msg"], Ambients, Ambient)]
    ELSE buf
CountAfterAmbients ==
    IF AmbientsSent
    THEN [count EXCEPT !["msg"] = StoredCount("msg", @, Ambients)]
    ELSE count

\* The recorder thread begins to send them, while the server thread goes on.
TvAmbients ==
    /\ ~SingleThread /\ pcTv = "write"
    /\ due
    /\ statFrames = AmbientFrame
    /\ due' = FALSE
    /\ pcTv' = "ambient"
    /\ overlapped' = IF pcMain \in Capturing THEN overlapped \cup {next} ELSE overlapped
    /\ raced' = (raced \/ pcMain \in Capturing)
    /\ UNCHANGED <<logging, own, sent, captureVars, controlVars, mapVars, handVars>>
    /\ UNCHANGED <<fileVars, pcMain>>

\* The statistics are shown between two other steps of the server thread.
AmbientBegin ==
    /\ pcTv = "ambient" /\ sent < Ambients
    /\ \E paused \in {FALSE, pcMain = "idle"} :
          /\ logging' = (enabled /\ ~paused)
          /\ buf' = IF logging' THEN Begun(Ambient) ELSE buf
    /\ sent' = sent + 1
    /\ pcTv' = "ambBody"
    /\ UNCHANGED <<count, next, dropped, own, overlapped, raced>>
    /\ UNCHANGED <<controlVars, mapVars, handVars, fileVars, due, pcMain>>

AmbientBody ==
    /\ pcTv = "ambBody"
    /\ buf' = Written(Ambient)
    /\ pcTv' = "ambEnd"
    /\ UNCHANGED <<count, next, dropped, msgVars>>
    /\ UNCHANGED <<controlVars, mapVars, handVars, fileVars, due, pcMain>>

AmbientEnd ==
    /\ pcTv = "ambEnd"
    /\ own' = IF logging THEN [own EXCEPT !["recorder"] = count["msg"]] ELSE own
    /\ pcTv' = IF logging THEN "ambStore" ELSE "ambient"
    /\ UNCHANGED <<captureVars, logging, sent, overlapped, raced>>
    /\ UNCHANGED <<controlVars, mapVars, handVars, fileVars, due, pcMain>>

AmbientStore ==
    /\ pcTv = "ambStore"
    /\ count' = [count EXCEPT !["msg"] = StoredCount("msg", own["recorder"], 1)]
    /\ own' = [own EXCEPT !["recorder"] = 0]
    /\ pcTv' = "ambient"
    /\ UNCHANGED <<buf, next, dropped, logging, sent, overlapped, raced>>
    /\ UNCHANGED <<controlVars, mapVars, handVars, fileVars, due, pcMain>>

Bug_WantMoreData(written) == written
WantMoreData(written) == TRUE

\* A frame with neither entity deltas nor items leaves the file as it is.
TvWrite ==
    /\ \/ pcTv = "write" /\ due /\ (SingleThread \/ statFrames # AmbientFrame)
       \/ pcTv = "ambient" /\ sent = Ambients
    /\ due' = (pcTv = "ambient" /\ due)
    /\ buf' = BufAfterAmbients
    /\ count' = CountAfterAmbients
    /\ LET items == FrameItems(IF SingleThread THEN BufAfterAmbients ELSE frame)
       IN  /\ file' = file \cup items
           /\ again' = again \cup (file \cap items \cap Item)
           /\ older' = IF pcMain = "callOld" THEN older \cup items ELSE older
           /\ \E entDeltas \in BOOLEAN :
                LET written == entDeltas \/ items # {}
                IN  /\ statFrames' = IF written /\ statFrames <= AmbientFrame
                                     THEN statFrames + 1 ELSE statFrames
                    /\ copyState' = IF WantMoreData(written)
                                    THEN "REQUESTED" ELSE copyState
    /\ sent' = 0
    /\ TvReturn
    /\ UNCHANGED <<next, dropped, frame, frameCount, frameMap, fileOpen, fileMap>>
    /\ UNCHANGED <<logging, own, overlapped, raced, controlVars, mapVars>>

\* 1/60 s has passed since the last written frame.
Tick ==
    /\ ~due
    /\ due' = TRUE
    /\ UNCHANGED <<msgVars, captureVars, controlVars, mapVars, handVars, fileVars, pcMain, pcTv>>

Hooks  == \/ \E k \in Kinds : Capture(k)
          \/ MessageBegin \/ MessageIgnored
          \/ ToggleDemo \/ ReplayDemo \/ Changelevel \/ MapInitHook
MainThread == \/ StartFrameHook \/ think_mainThread \/ CopyFrame
              \/ MessageBody \/ MessageEnd \/ MessageStore
TvThread == \/ TvWait \/ TvLoad \/ TvNotRecording \/ TvOpenFails \/ TvOpen
            \/ TvTooBig \/ TvNotDue \/ TvWrite
            \/ TvAmbients \/ AmbientBegin \/ AmbientBody \/ AmbientEnd \/ AmbientStore

Next == Hooks \/ MainThread \/ TvThread \/ Tick

Spec == Init /\ [][Next]_vars

(***************************************************************************)
(* The engine calls StartFrameHook once per frame and finishes loading a   *)
(* map, and the recorder thread is scheduled.  The update delay elapses    *)
(* again and again between two server frames, not always inside the think  *)
(* itself, which lasts a fraction of a frame.  Hooks that stand for what   *)
(* players and the game do carry no fairness.                              *)
(***************************************************************************)
Fairness ==
    /\ WF_vars(MainThread) /\ WF_vars(TvThread) /\ WF_vars(MapInitHook)
    /\ SF_vars(Tick /\ pcMain = "idle")

FairSpec == Spec /\ Fairness

-----------------------------------------------------------------------------
(* Properties *)

\* Every variable keeps its type; in particular the counts stay below the array
\* lengths, so the event and command counts fit the uint8 the file stores
\* (DemoWriter.cpp:764,768).
TypeOK ==
    /\ buf \in [Kinds -> [Slots -> Content]]
    /\ frame \in [Kinds -> [Slots -> Content]]
    /\ count \in [Kinds -> Nat] /\ \A k \in Kinds : count[k] < Cap[k]
    /\ frameCount \in [Kinds -> Nat] /\ \A k \in Kinds : frameCount[k] < Cap[k]
    /\ own \in [{"server", "recorder"} -> Nat]
    /\ own["server"] < Cap["msg"] /\ own["recorder"] < Cap["msg"]
    /\ enabled \in BOOLEAN /\ canAuto \in BOOLEAN
    /\ map \in Nat /\ frameMap \in Nat /\ fileMap \in Nat /\ stopMap \in Nat
    /\ phase \in {"loading", "spawned", "running"}
    /\ pcMain \in {"idle", "think", "copy", "callNew", "callOld"} \cup Capturing
    /\ copyState \in {"REQUESTED", "FINISHED"}
    /\ pcTv \in {"idle", "wait"} \cup TvBusy
    /\ fileOpen \in BOOLEAN /\ due \in BOOLEAN
    /\ logging \in BOOLEAN /\ raced \in BOOLEAN /\ sent \in 0..Ambients
    /\ statFrames \in 0..(AmbientFrame + 1)
    /\ next \in 1..(MaxItems + 1) /\ recStart \in 1..(MaxItems + 1)
    /\ (pcMain \in Capturing => next <= MaxItems)
    /\ mapStart \in 1..(MaxItems + 1) /\ copies \in 0..2
    /\ dropped \subseteq Item /\ file \subseteq Content /\ again \subseteq Item
    /\ older \subseteq Content /\ overlapped \subseteq Item

\* The server thread replaces the shared frame (memcpy in think_mainThread)
\* only while the recorder is not working on it, though the two synchronise
\* through nothing but edictCopyState.
HandoffExclusive == pcMain = "copy" => pcTv \notin TvBusy

\* While recording is on, every item captured since it was switched on is in
\* the file, waiting in its array or in the frame in flight, unless its array
\* was full, or ambient sounds were sent from the recorder thread while it was
\* captured: nothing guards g_netmessages and its counter (DemoWriter.cpp:642).
Recorded == (recStart..(next - 1)) \ (dropped \cup overlapped)
NoItemLost == enabled => Recorded \subseteq file \cup Live \cup InFlight

\* The inductive form: a closed file does not count, and in single thread mode
\* the frame counts only between the copy and the end of the same think, where
\* the write that follows is known to be due.  With a recorder thread only those
\* messages count that no counter read by either thread leaves out.
Pending == IF SingleThread THEN pcMain = "callNew" ELSE copyState = "FINISHED"
Sure(k) ==
    {i \in 0..(count[k] - 1) :
        /\ k = "msg" /\ pcMain = "msgStore" => i < own["server"]
        /\ k = "msg" /\ pcTv = "ambStore" => i < own["recorder"]}
SureLive == UNION {{buf[k][i] : i \in Sure(k)} : k \in Kinds}
Kept ==
    (IF fileOpen THEN file ELSE {}) \cup SureLive
        \cup (IF Pending THEN FrameItems(FrameArrays) ELSE {})
KeptInv ==
    /\ enabled => Recorded \subseteq Kept
    /\ pcTv \in {"write"} \cup Sending => fileOpen
    /\ SingleThread /\ pcMain \in {"copy", "callNew"} => due
    /\ SingleThread /\ pcMain = "callNew" => copyState = "FINISHED"

\* No captured item is written to a file twice, as long as the server thread
\* did not touch the messages while the recorder sent ambient sounds: a counter
\* that both have counted up can cover an element of an earlier frame.
AtMostOnce == ~raced => again = {}

\* In single thread mode an item is in a file twice only if one of the times it
\* was written with the counts of an older copy: by a pass that found nothing due
\* at SvenTV.cpp:87 and a write due at DemoWriter.cpp:632, or after a copy that
\* was never written (edictCopyState left FINISHED, SvenTV.cpp:131).
RepeatsFromOlder == again \subseteq older

\* Every frame written to a file shows the map the file was opened on: a file
\* left open by Changelevel is closed before recording can restart.
OneMapPerFile == pcTv = "write" => fileMap = map /\ frameMap = map

\* Recording that failed, hit the size limit or was stopped with .demo is never
\* restarted by autostart on the same map.  (replay_demo, main.cpp:573, switches
\* recording off and leaves autostart allowed: that is no stop in this sense.)
NoAutoRestart == [][MainThread /\ enabled' /\ ~enabled => stopMap # map]_vars

\* A recording that is switched off and stays off ends in a closed file.
ClosedAfterStop == (fileOpen /\ ~enabled) ~> (~fileOpen \/ enabled)

\* While recording stays on, a captured item reaches the file.
EventuallyWritten ==
    \A i \in Item : (enabled /\ i \in Live) ~> (i \in file \/ ~enabled)

\* Changelevel leaves commands and events of the old map in their arrays
\* (main.cpp:153).  In single thread mode the first copy made on the new map takes
\* them along, and a write with the counts of an older copy may repeat them; from
\* the second copy on no frame contains an item of an earlier map.
OldMapItems ==
    [][TvWrite /\ (\E i \in FrameItems(FrameArrays)' \cap Item : i < mapStart)
         => copies < 2]_vars
=============================================================================
