------------------------ MODULE FramePipelineProofs ------------------------
(***************************************************************************)
(* For every set of capture arrays, every capacity and both thread modes:  *)
(* the types and counts are right, the frame hand-off excludes concurrent  *)
(* access, and recording loses no item but those a full array drops and    *)
(* those that ambient sounds of the recorder thread get in the way of.     *)
(***************************************************************************)
EXTENDS FramePipeline, TLAPS

(***************************************************************************)
(* What the hand-off rests on.  In single thread mode the recorder runs    *)
(* exactly while the server thread is inside its call.  With a recorder    *)
(* thread, edictCopyState says whose turn it is: the recorder is busy only *)
(* after FINISHED, the server thread copies only after REQUESTED.          *)
(***************************************************************************)
Calls == {"callNew", "callOld"}
TurnInv ==
    /\ SingleThread =>
         /\ pcTv # "wait" /\ (pcTv \in TvBusy <=> pcMain \in Calls)
         /\ pcTv \notin Sending /\ pcMain \notin Capturing
    /\ ~SingleThread =>
         /\ pcTv # "idle" /\ pcMain \notin Calls
         /\ pcTv \in TvBusy => copyState = "FINISHED"
         /\ pcMain = "copy" => copyState = "REQUESTED"

HandoffInv == TypeOK /\ TurnInv

\* The steps in which the two threads build messages
ServerMessage == MessageBegin \/ MessageIgnored \/ MessageBody \/ MessageEnd \/ MessageStore
AmbientMessage == TvAmbients \/ AmbientBegin \/ AmbientBody \/ AmbientEnd \/ AmbientStore
Messages == ServerMessage \/ AmbientMessage

\* They are steps of the mode with a recorder thread.
LEMMA OneThread == HandoffInv /\ SingleThread => ~Messages
BY DEF HandoffInv, TurnInv, Messages, ServerMessage, AmbientMessage, MessageBegin, MessageIgnored, MessageBody, MessageEnd, MessageStore, TvAmbients, AmbientBegin, AmbientBody, AmbientEnd, AmbientStore, Capturing, Sending

\* A count that is counted up by storing n items stays below the array length.
LEMMA StoredCountType ==
    ASSUME NEW k \in Kinds, NEW c \in Nat, c < Cap[k], NEW n \in Nat
    PROVE  /\ StoredCount(k, c, n) \in Nat
           /\ c <= StoredCount(k, c, n)
           /\ StoredCount(k, c, n) < Cap[k]
BY ConstantsAssumption DEF ConstantsAssumption, StoredCount

\* Storing items in an array leaves an array.
LEMMA StoredType ==
    ASSUME NEW k \in Kinds, NEW b \in [Slots -> Content], NEW c, NEW n,
           NEW x \in Content
    PROVE  Stored(k, b, c, n, x) \in [Slots -> Content]
BY DEF Stored

\* A call of a message leaves the arrays well typed.
LEMMA CallsType ==
    ASSUME HandoffInv, NEW x \in 1..Ambient
    PROVE  /\ Begun(x) \in [Kinds -> [Slots -> Content]]
           /\ Written(x) \in [Kinds -> [Slots -> Content]]
<1>1. "msg" \in Kinds /\ MaxItems \in Nat
  BY ConstantsAssumption DEF ConstantsAssumption
<1>2. Ambient \in Nat /\ x \in Content /\ -x \in Content /\ 0 \in Content
  BY <1>1 DEF Ambient, Content
<1>3. buf \in [Kinds -> [Slots -> Content]]
  BY DEF HandoffInv, TypeOK
<1>4. [buf["msg"] EXCEPT ![count["msg"]] = -x] \in [Slots -> Content]
  BY <1>1, <1>2, <1>3
<1>5. [buf["msg"] EXCEPT ![count["msg"]] =
          IF buf["msg"][count["msg"]] \in {-x, x} THEN x ELSE 0] \in [Slots -> Content]
  BY <1>1, <1>2, <1>3
<1>6. QED
  BY <1>1, <1>3, <1>4, <1>5 DEF Begun, Written

\* The handoff begins with the recorder idle and a frame asked for.
LEMMA InitHandoff == Init => HandoffInv
<1> SUFFICES ASSUME Init PROVE HandoffInv
  OBVIOUS
<1>1. 0 \in Content /\ 1 \in 1..(MaxItems + 1) /\ 0 \in 0..(AmbientFrame + 1)
  BY ConstantsAssumption DEF ConstantsAssumption, Content, Ambient
<1>2. /\ buf \in [Kinds -> [Slots -> Content]]
      /\ frame \in [Kinds -> [Slots -> Content]]
  BY <1>1 DEF Init
<1>3. /\ count \in [Kinds -> Nat] /\ \A k \in Kinds : count[k] < Cap[k]
      /\ frameCount \in [Kinds -> Nat] /\ \A k \in Kinds : frameCount[k] < Cap[k]
  BY ConstantsAssumption DEF ConstantsAssumption, Init
<1>4. /\ own \in [{"server", "recorder"} -> Nat] /\ sent \in 0..Ambients
      /\ own["server"] < Cap["msg"] /\ own["recorder"] < Cap["msg"]
  BY ConstantsAssumption DEF ConstantsAssumption, Init
<1>8. /\ pcMain \in {"idle", "think", "copy", "callNew", "callOld"} \cup Capturing
      /\ pcTv \in {"idle", "wait"} \cup TvBusy
      /\ pcMain \in Capturing => next <= MaxItems
      /\ copyState \in {"REQUESTED", "FINISHED"} /\ copies \in 0..2
      /\ phase \in {"loading", "spawned", "running"}
  BY DEF Init, Capturing
<1>9. /\ map \in Nat /\ frameMap \in Nat /\ fileMap \in Nat /\ stopMap \in Nat
      /\ enabled \in BOOLEAN /\ canAuto \in BOOLEAN /\ fileOpen \in BOOLEAN
      /\ due \in BOOLEAN /\ logging \in BOOLEAN /\ raced \in BOOLEAN
      /\ statFrames = 0 /\ next = 1 /\ recStart = 1 /\ mapStart = 1
      /\ dropped = {} /\ file = {} /\ again = {} /\ older = {} /\ overlapped = {}
  BY DEF Init
<1>7. TypeOK
  BY <1>1, <1>2, <1>3, <1>4, <1>8, <1>9 DEF TypeOK
<1>5. TurnInv
  BY DEF Init, TurnInv, Calls, TvBusy, Capturing, Sending
<1>6. QED
  BY <1>5, <1>7 DEF HandoffInv

\* Every step keeps the types, the bounds on the counts and the turns of the
\* two threads.
LEMMA NextHandoff == HandoffInv /\ [Next]_vars => HandoffInv'
<1> SUFFICES ASSUME HandoffInv, [Next]_vars PROVE HandoffInv'
  OBVIOUS
<1> USE ConstantsAssumption DEF ConstantsAssumption, HandoffInv
<1>1. ASSUME NEW k \in Kinds, Capture(k) PROVE HandoffInv'
  <2>1. TurnInv'
    BY <1>1 DEF Capture, TurnInv, Calls, TvBusy, Capturing, Sending, handVars, fileVars, msgVars
  <2>2. buf' \in [Kinds -> [Slots -> Content]]
    BY <1>1, StoredType DEF Capture, TypeOK, Content, Ambient
  <2>3. count' \in [Kinds -> Nat] /\ \A j \in Kinds : count'[j] < Cap[j]
    BY <1>1, StoredCountType DEF Capture, TypeOK
  <2>4. next' \in 1..(MaxItems + 1) /\ dropped' \subseteq Item /\ pcMain' \notin Capturing
    BY <1>1 DEF Capture, TypeOK, Item, Capturing
  <2>5. QED
    BY <1>1, <2>1, <2>2, <2>3, <2>4 DEF Capture, TypeOK, controlVars, mapVars, handVars, fileVars, msgVars
<1>2. CASE ToggleDemo
  BY <1>2 DEF ToggleDemo, TypeOK, TurnInv, Calls, TvBusy, Capturing, Sending, captureVars, mapVars, handVars, fileVars, msgVars
<1>3. CASE ReplayDemo
  BY <1>3 DEF ReplayDemo, TypeOK, TurnInv, Calls, TvBusy, Capturing, Sending, captureVars, mapVars, handVars, fileVars, msgVars
<1>4. CASE Changelevel
  <2>1. count' \in [Kinds -> Nat] /\ \A k \in Kinds : count'[k] < Cap[k]
    BY <1>4 DEF Changelevel, TypeOK
  <2>2. TurnInv'
    BY <1>4 DEF Changelevel, TurnInv, Calls, TvBusy, Capturing, Sending, handVars, fileVars, msgVars
  <2>3. map \in Nat /\ map' = map + 1
    BY <1>4 DEF Changelevel, TypeOK
  <2>4. map' \in Nat
    BY <2>3
  <2>5. /\ enabled' \in BOOLEAN /\ phase' \in {"loading", "spawned", "running"}
        /\ mapStart' \in 1..(MaxItems + 1)
    BY <1>4 DEF Changelevel, TypeOK
  <2>6. /\ UNCHANGED <<canAuto, recStart, stopMap, buf, next, dropped>>
        /\ UNCHANGED <<logging, own, sent, overlapped, handVars, fileVars, due, pcMain, pcTv>>
        /\ copies' = 0 /\ raced' \in BOOLEAN /\ pcMain = "idle"
    BY <1>4 DEF Changelevel, TypeOK
  <2>7. QED
    BY <2>1, <2>2, <2>4, <2>5, <2>6 DEF TypeOK, Capturing, handVars, fileVars
<1>5. CASE MapInitHook
  BY <1>5 DEF MapInitHook, TypeOK, TurnInv, Calls, TvBusy, Capturing, Sending, captureVars, handVars, fileVars, msgVars
<1>6. CASE StartFrameHook
  BY <1>6 DEF StartFrameHook, Thinks, Autostarts, TypeOK, TurnInv, Calls, TvBusy, Capturing, Sending, captureVars, handVars, fileVars, msgVars
<1>7. CASE think_mainThread
  BY <1>7 DEF think_mainThread, Copies, TypeOK, TurnInv, Calls, TvBusy, Capturing, Sending, captureVars, controlVars, mapVars, handVars, fileVars, msgVars
<1>8. CASE CopyFrame
  <2>1. TurnInv'
    BY <1>8 DEF CopyFrame, TypeOK, TurnInv, Calls, TvBusy, Capturing, Sending, controlVars, mapVars, fileVars, msgVars
  <2>2. frame' \in [Kinds -> [Slots -> Content]]
    BY <1>8 DEF CopyFrame, TypeOK
  <2>3. count' \in [Kinds -> Nat] /\ \A k \in Kinds : count'[k] < Cap[k]
    BY <1>8 DEF CopyFrame, ClearedCounts
  <2>4. pcTv' \in {"idle", "wait"} \cup TvBusy
    BY <1>8 DEF CopyFrame, TypeOK, TvBusy, Capturing, Sending
  <2>5. copies' \in 0..2
    BY <1>8 DEF CopyFrame, TypeOK
  <2>6. QED
    BY <1>8, <2>1, <2>2, <2>3, <2>4, <2>5
       DEF CopyFrame, TypeOK, Capturing, controlVars, fileVars, msgVars
<1>9. CASE TvWait
  <2>1. TurnInv'
    BY <1>9 DEF TvWait, TurnInv, Calls, TvBusy, Capturing, Sending, handVars
  <2>2. fileOpen' \in BOOLEAN /\ pcTv' \in {"idle", "wait"} \cup TvBusy
    BY <1>9 DEF TvWait, TypeOK, TvBusy
  <2>3. QED
    BY <1>9, <2>1, <2>2 DEF TvWait, TypeOK, captureVars, controlVars, mapVars, handVars, msgVars
<1>10. CASE TvLoad
  BY <1>10 DEF TvLoad, TypeOK, TurnInv, Calls, TvBusy, Capturing, Sending, captureVars, controlVars, mapVars, fileVars, msgVars
<1>11. CASE TvNotRecording
  BY <1>11 DEF TvNotRecording, TvReturn, TypeOK, TurnInv, Calls, TvBusy, Capturing, Sending, captureVars, controlVars, mapVars, handVars, msgVars
<1>12. CASE TvOpenFails
  BY <1>12 DEF TvOpenFails, TvReturn, TypeOK, TurnInv, Calls, TvBusy, Capturing, Sending, captureVars, mapVars, handVars, fileVars, msgVars
<1>13. CASE TvOpen
  <2>1. TurnInv'
    BY <1>13 DEF TvOpen, TurnInv, Calls, TvBusy, Capturing, Sending, handVars, fileVars, msgVars
  <2>2. /\ fileOpen' \in BOOLEAN /\ statFrames' \in 0..(AmbientFrame + 1)
        /\ file' \subseteq Content /\ again' \subseteq Item /\ fileMap' \in Nat
        /\ older' \subseteq Content
    <3>1. CASE fileOpen /\ UNCHANGED fileVars
      BY <3>1 DEF TypeOK, fileVars, msgVars
    <3>2. CASE ~fileOpen
      <4>1. /\ fileOpen' = TRUE /\ statFrames' = 0 /\ file' = {} /\ again' = {}
            /\ older' = {} /\ fileMap' = map
        BY <1>13, <3>2 DEF TvOpen
      <4>2. QED
        BY <4>1 DEF TypeOK
    <3>3. QED
      BY <1>13, <3>1, <3>2 DEF TvOpen
  <2>3. QED
    BY <1>13, <2>1, <2>2 DEF TvOpen, TypeOK, TvBusy, Capturing, Sending, captureVars, controlVars, mapVars, handVars, msgVars
<1>14. CASE TvTooBig
  BY <1>14 DEF TvTooBig, TvReturn, TypeOK, TurnInv, Calls, TvBusy, Capturing, Sending, captureVars, mapVars, handVars, msgVars
<1>15. CASE TvNotDue
  BY <1>15 DEF TvNotDue, TvReturn, TypeOK, TurnInv, Calls, TvBusy, Capturing, Sending, captureVars, controlVars, mapVars, handVars, fileVars, msgVars
<1>16. CASE TvWrite
  <2>1. TurnInv'
    BY <1>16 DEF TvWrite, TvReturn, TypeOK, TurnInv, Calls, TvBusy, Capturing, Sending, controlVars, msgVars
  <2>2. buf' \in [Kinds -> [Slots -> Content]]
    BY <1>16, StoredType DEF TvWrite, BufAfterAmbients, TypeOK, Content, Ambient
  <2>3. count' \in [Kinds -> Nat] /\ \A k \in Kinds : count'[k] < Cap[k]
    BY <1>16, StoredCountType DEF TvWrite, CountAfterAmbients, TypeOK
  <2> DEFINE arrays == IF SingleThread THEN BufAfterAmbients ELSE frame
  <2>5. arrays \in [Kinds -> [Slots -> Content]]
    BY <1>16, <2>2 DEF TvWrite, TypeOK
  <2>6. FrameItems(arrays) \subseteq Content
    <3>1. \A k \in Kinds : 0..(frameCount[k] - 1) \subseteq Slots
      BY DEF TypeOK, Slots
    <3>2. QED
      BY <2>5, <3>1 DEF FrameItems, Prefix
  <2>7. file' \subseteq Content /\ again' \subseteq Item /\ older' \subseteq Content
    BY <1>16, <2>6 DEF TvWrite, TypeOK
  <2>8. statFrames' \in 0..(AmbientFrame + 1)
    BY <1>16 DEF TvWrite, TypeOK
  <2>9. /\ UNCHANGED <<next, dropped, frame, frameCount, frameMap, fileOpen, fileMap>>
        /\ UNCHANGED <<logging, own, overlapped, raced, controlVars, mapVars>>
    BY <1>16 DEF TvWrite
  <2>10. /\ due' \in BOOLEAN /\ sent' \in 0..Ambients
         /\ copyState' \in {"REQUESTED", "FINISHED"}
    BY <1>16 DEF TvWrite, TypeOK
  <2>11. /\ pcMain' \in {"idle", pcMain} /\ pcTv' \in {"idle", "wait"}
    BY <1>16 DEF TvWrite, TvReturn
  <2>12. /\ pcMain' \in {"idle", "think", "copy", "callNew", "callOld"} \cup Capturing
         /\ pcMain' \in Capturing => next' <= MaxItems
    BY <2>9, <2>11 DEF TypeOK, Capturing
  <2>13. QED
    BY <2>1, <2>2, <2>3, <2>7, <2>8, <2>9, <2>10, <2>11, <2>12 DEF TypeOK, controlVars, mapVars
<1>17. CASE Tick
  BY <1>17 DEF Tick, TypeOK, TurnInv, Calls, TvBusy, Capturing, Sending, captureVars, controlVars, mapVars, handVars, fileVars, msgVars
<1>18. CASE UNCHANGED vars
  BY <1>18 DEF vars, TypeOK, TurnInv, Calls, TvBusy, Capturing, Sending, captureVars, controlVars, mapVars, handVars, fileVars, msgVars
<1>20. CASE Messages
  <2>0. /\ MaxItems \in Nat /\ Ambients \in Nat /\ "msg" \in Kinds
        /\ Ambient \in 1..Ambient /\ next \in 1..(MaxItems + 1)
    BY DEF TypeOK, Ambient
  <2>1. next <= MaxItems => next \in 1..Ambient /\ next \in Item
    BY <2>0 DEF Ambient, Item
  <2> USE <2>0, <2>1
  <2>2. CASE MessageBegin
    <3>1. buf' \in [Kinds -> [Slots -> Content]]
      BY <2>2, CallsType DEF MessageBegin
    <3>2. QED
      BY <2>2, <3>1 DEF MessageBegin, TypeOK, TurnInv, Calls, TvBusy, Capturing, Sending, controlVars, mapVars, handVars, fileVars
  <2>3. CASE MessageIgnored
    <3>1. /\ logging' = FALSE
          /\ UNCHANGED <<own, sent, overlapped, raced, captureVars, controlVars, mapVars>>
          /\ UNCHANGED <<handVars, fileVars, due, pcMain, pcTv>>
      BY <2>3 DEF MessageIgnored
    <3>2. TurnInv'
      BY <3>1 DEF TurnInv, handVars
    <3>3. /\ UNCHANGED <<buf, count, next, dropped, enabled, canAuto, recStart, stopMap>>
          /\ UNCHANGED <<own, sent, overlapped, raced, map, phase, mapStart, copies>>
      BY <3>1 DEF captureVars, controlVars, mapVars
    <3>4. /\ UNCHANGED <<copyState, frame, frameCount, frameMap, due, pcMain, pcTv>>
          /\ UNCHANGED <<fileOpen, statFrames, file, again, older, fileMap>>
          /\ logging' \in BOOLEAN
      BY <3>1 DEF handVars, fileVars
    <3>5. TypeOK'
      BY <3>3, <3>4 DEF TypeOK
    <3>6. QED
      BY <3>2, <3>5
  <2>4. CASE MessageBody
    <3>1. buf' \in [Kinds -> [Slots -> Content]]
      BY <2>4, CallsType DEF MessageBody, TypeOK, Capturing
    <3>2. QED
      BY <2>4, <3>1 DEF MessageBody, TypeOK, TurnInv, Calls, TvBusy, Capturing, Sending, msgVars, controlVars, mapVars, handVars, fileVars
  <2>5. CASE MessageEnd
    <3>1. /\ own' \in [{"server", "recorder"} -> Nat]
          /\ own'["server"] < Cap["msg"] /\ own'["recorder"] < Cap["msg"]
      BY <2>5 DEF MessageEnd, TypeOK
    <3>2. next' \in 1..(MaxItems + 1) /\ (pcMain' \in Capturing => next' <= MaxItems)
      BY <2>5 DEF MessageEnd, TypeOK, Capturing
    <3>3. QED
      BY <2>5, <3>1, <3>2 DEF MessageEnd, TypeOK, TurnInv, Calls, TvBusy, Capturing, Sending, Item, controlVars, mapVars, handVars, fileVars
  <2>6. CASE MessageStore
    <3>1. count' \in [Kinds -> Nat] /\ \A j \in Kinds : count'[j] < Cap[j]
      BY <2>6, StoredCountType DEF MessageStore, TypeOK
    <3>2. /\ own' \in [{"server", "recorder"} -> Nat]
          /\ own'["server"] < Cap["msg"] /\ own'["recorder"] < Cap["msg"]
      BY <2>6 DEF MessageStore, TypeOK
    <3>3. /\ next' \in 1..(MaxItems + 1) /\ pcMain' \notin Capturing
          /\ dropped' \subseteq Item
      BY <2>6 DEF MessageStore, TypeOK, Capturing
    <3>4. QED
      BY <2>6, <3>1, <3>2, <3>3 DEF MessageStore, TypeOK, TurnInv, Calls, TvBusy, Capturing, Sending, Item, controlVars, mapVars, handVars, fileVars
  <2>7. CASE TvAmbients
    BY <2>7 DEF TvAmbients, TypeOK, TurnInv, Calls, TvBusy, Capturing, Sending, captureVars, controlVars, mapVars, handVars, fileVars
  <2>8. CASE AmbientBegin
    <3>1. PICK paused \in {FALSE, pcMain = "idle"} :
            /\ logging' = (enabled /\ ~paused)
            /\ buf' = IF logging' THEN Begun(Ambient) ELSE buf
      BY <2>8 DEF AmbientBegin
    <3>2. buf' \in [Kinds -> [Slots -> Content]] /\ logging' \in BOOLEAN
      BY <3>1, CallsType DEF TypeOK
    <3>3. sent' \in 0..Ambients
      BY <2>8 DEF AmbientBegin, TypeOK
    <3>4. QED
      BY <2>8, <3>2, <3>3 DEF AmbientBegin, TypeOK, TurnInv, Calls, TvBusy, Capturing, Sending, controlVars, mapVars, handVars, fileVars
  <2>9. CASE AmbientBody
    <3>1. buf' \in [Kinds -> [Slots -> Content]]
      BY <2>9, CallsType DEF AmbientBody
    <3>2. QED
      BY <2>9, <3>1 DEF AmbientBody, TypeOK, TurnInv, Calls, TvBusy, Capturing, Sending, msgVars, controlVars, mapVars, handVars, fileVars
  <2>10. CASE AmbientEnd
    <3>1. /\ own' \in [{"server", "recorder"} -> Nat]
          /\ own'["server"] < Cap["msg"] /\ own'["recorder"] < Cap["msg"]
      BY <2>10 DEF AmbientEnd, TypeOK
    <3>2. QED
      BY <2>10, <3>1 DEF AmbientEnd, TypeOK, TurnInv, Calls, TvBusy, Capturing, Sending, captureVars, controlVars, mapVars, handVars, fileVars
  <2>11. CASE AmbientStore
    <3>1. count' \in [Kinds -> Nat] /\ \A j \in Kinds : count'[j] < Cap[j]
      BY <2>11, StoredCountType DEF AmbientStore, TypeOK
    <3>2. /\ own' \in [{"server", "recorder"} -> Nat]
          /\ own'["server"] < Cap["msg"] /\ own'["recorder"] < Cap["msg"]
      BY <2>11 DEF AmbientStore, TypeOK
    <3>3. QED
      BY <2>11, <3>1, <3>2 DEF AmbientStore, TypeOK, TurnInv, Calls, TvBusy, Capturing, Sending, controlVars, mapVars, handVars, fileVars
  <2>12. QED
    BY <1>20, <2>2, <2>3, <2>4, <2>5, <2>6, <2>7, <2>8, <2>9, <2>10, <2>11
       DEF Messages, ServerMessage, AmbientMessage
<1>19. QED
  BY <1>1, <1>2, <1>3, <1>4, <1>5, <1>6, <1>7, <1>8, <1>9, <1>10, <1>11, <1>12, <1>13, <1>14, <1>15, <1>16, <1>17, <1>18, <1>20
     DEF Next, Hooks, MainThread, TvThread, Messages, ServerMessage, AmbientMessage

(***************************************************************************)
(* The types and the bounds on the counts hold, and the shared frame is    *)
(* never replaced while the recorder works on it.                          *)
(***************************************************************************)
THEOREM TypesCorrect == Spec => []TypeOK
<1>1. Spec => []HandoffInv
  BY InitHandoff, NextHandoff, PTL DEF Spec
<1>2. QED
  BY <1>1, PTL DEF HandoffInv

\* The server thread replaces the shared frame only between two frames of the
\* recorder (SvenTV::think_mainThread, edictCopyState).
THEOREM HandoffIsExclusive == Spec => []HandoffExclusive
<1>1. Spec => []HandoffInv
  BY InitHandoff, NextHandoff, PTL DEF Spec
<1>2. HandoffInv => HandoffExclusive
  BY DEF HandoffInv, TypeOK, TurnInv, HandoffExclusive, Calls
<1>3. QED
  BY <1>1, <1>2, PTL

-----------------------------------------------------------------------------
(* No item is lost *)

\* Storing leaves the counted elements alone.
LEMMA StoredKeeps ==
    ASSUME NEW k \in Kinds, NEW b \in [Slots -> Content], NEW c \in Nat, c < Cap[k],
           NEW n \in Nat, NEW x, NEW i \in 0..(c - 1)
    PROVE  Stored(k, b, c, n, x)[i] = b[i]
<1>1. Cap[k] \in Nat
  BY ConstantsAssumption DEF ConstantsAssumption
<1>2. i \in Slots
  BY <1>1 DEF Slots
<1>3. ~(i \in c..(StoredCount(k, c, n) - 1)) /\ i # Cap[k] - 1
  BY <1>1
<1>4. QED
  BY <1>2, <1>3 DEF Stored

\* Below the last slot one item counts one.
LEMMA CountedUp ==
    ASSUME NEW k \in Kinds, NEW c \in Nat, c < Cap[k], c # Cap[k] - 1
    PROVE  StoredCount(k, c, 1) = c + 1
<1>1. Cap[k] \in Nat
  BY ConstantsAssumption DEF ConstantsAssumption
<1>2. QED
  BY <1>1 DEF StoredCount

\* A single item stored below the last slot is counted.
LEMMA StoredAdds ==
    ASSUME NEW k \in Kinds, NEW b \in [Slots -> Content], NEW c \in Nat, c < Cap[k],
           c # Cap[k] - 1, NEW x
    PROVE  c \in 0..(StoredCount(k, c, 1) - 1) /\ Stored(k, b, c, 1, x)[c] = x
<1>1. Cap[k] \in Nat
  BY ConstantsAssumption DEF ConstantsAssumption
<1>2. c \in Slots
  BY <1>1 DEF Slots
<1>3. StoredCount(k, c, 1) = c + 1
  BY CountedUp
<1>4. QED
  BY <1>2, <1>3 DEF Stored

\* Storing nothing changes nothing.
LEMMA StoredNothing ==
    ASSUME NEW k \in Kinds, NEW b \in [Slots -> Content], NEW c \in Nat, c < Cap[k], NEW x
    PROVE  Stored(k, b, c, 0, x) = b /\ StoredCount(k, c, 0) = c
<1>1. Cap[k] \in Nat
  BY ConstantsAssumption DEF ConstantsAssumption
<1>2. StoredCount(k, c, 0) = c
  BY <1>1 DEF StoredCount
<1>3. \A i \in Slots : ~(i \in c..(c - 1)) /\ ~(i = Cap[k] - 1 /\ c + 0 > i)
  BY <1>1 DEF Slots
<1>4. QED
  BY <1>2, <1>3 DEF Stored

\* At first there is nothing to keep.
LEMMA InitKept == Init => KeptInv
<1> SUFFICES ASSUME Init PROVE KeptInv
  OBVIOUS
<1>1. Recorded = {}
  BY DEF Init, Recorded
<1>2. QED
  BY <1>1 DEF Init, KeptInv, Sending

\* What is certain is counted.
LEMMA SureIsLive == ASSUME TypeOK PROVE SureLive \subseteq Live
BY DEF SureLive, Sure, Live, Prefix

\* What the counters leave in their place stays certain.
LEMMA SureGrows ==
    ASSUME \A k \in Kinds : \A i \in Sure(k) : i \in Sure(k)' /\ buf'[k][i] = buf[k][i]
    PROVE  SureLive \subseteq SureLive'
<1> SUFFICES ASSUME NEW x \in SureLive PROVE x \in SureLive'
  OBVIOUS
<1>1. PICK k \in Kinds : x \in {buf[k][i] : i \in Sure(k)}
  BY DEF SureLive
<1>2. PICK i \in Sure(k) : x = buf[k][i]
  BY <1>1
<1>3. i \in Sure(k)' /\ x = buf'[k][i]
  BY <1>2
<1>4. QED
  BY <1>3 DEF SureLive

\* Steps that leave the arrays and counters alone leave the same items.
LEMMA SureSame ==
    ASSUME UNCHANGED <<buf, count, own>>,
           pcMain' = "msgStore" <=> pcMain = "msgStore",
           pcTv' = "ambStore" <=> pcTv = "ambStore"
    PROVE  SureLive' = SureLive
<1>1. \A k \in Kinds : Sure(k)' = Sure(k)
  BY DEF Sure
<1>2. QED
  BY <1>1 DEF SureLive

\* A capturing hook keeps what was captured and adds its items.
LEMMA CaptureKept ==
    ASSUME HandoffInv, KeptInv, NEW k \in Kinds, Capture(k)
    PROVE  KeptInv'
<1> USE DEF HandoffInv
<1>1. /\ count[k] \in Nat /\ count[k] < Cap[k] /\ buf[k] \in [Slots -> Content]
      /\ next \in Nat /\ recStart \in Nat
  BY DEF TypeOK
<1>2. \A j \in Kinds : count[j] <= count'[j] /\ count'[j] \in Nat
  <2>1. count'[k] = StoredCount(k, count[k], 1)
    BY DEF Capture, TypeOK
  <2>2. count[k] <= count'[k] /\ count'[k] \in Nat
    BY <1>1, <2>1, StoredCountType
  <2>3. \A j \in Kinds : j # k => count'[j] = count[j] /\ count[j] \in Nat
    BY DEF Capture, TypeOK
  <2>4. QED
    BY <2>2, <2>3
<1>3. \A j \in Kinds : \A i \in 0..(count[j] - 1) : buf'[j][i] = buf[j][i]
  BY <1>1, StoredKeeps DEF Capture, TypeOK
<1>4. SureLive \subseteq SureLive'
  <2>1. \A j \in Kinds : \A i \in Sure(j) : i \in 0..(count[j] - 1) /\ i \in Sure(j)'
    BY <1>2 DEF Sure, Capture, msgVars, TypeOK
  <2>2. QED
    BY <1>3, <2>1, SureGrows
<1>5. next \in SureLive' \/ next \in dropped'
  <2>1. CASE count[k] = Cap[k] - 1
    BY <2>1 DEF Capture
  <2>2. CASE count[k] # Cap[k] - 1
    <3>1. count[k] \in 0..(count'[k] - 1) /\ buf'[k][count[k]] = next
      BY <1>1, <2>2, StoredAdds DEF Capture, TypeOK
    <3>2. k = "msg" => pcMain' # "msgStore" /\ pcTv' # "ambStore"
      BY DEF Capture, TurnInv, Sending
    <3>3. count[k] \in Sure(k)'
      BY <3>1, <3>2 DEF Sure
    <3>4. QED
      BY <3>1, <3>3 DEF SureLive
  <2>3. QED
    BY <2>1, <2>2
<1>6. Kept \subseteq Kept'
  <2>1. CASE SingleThread
    BY <1>4, <2>1 DEF Capture, Kept, Pending, fileVars
  <2>2. CASE ~SingleThread
    BY <1>4, <2>2 DEF Capture, Kept, Pending, FrameItems, FrameArrays, fileVars, handVars
  <2>3. QED
    BY <2>1, <2>2
<1>7. Recorded' \subseteq Recorded \cup ({next} \ dropped')
  BY <1>1 DEF Capture, Recorded, controlVars, msgVars
<1>8. enabled /\ (enabled' => Recorded' \subseteq Kept')
  BY <1>4, <1>5, <1>6, <1>7 DEF Capture, KeptInv, Kept
<1>9. QED
  BY <1>8 DEF Capture, KeptInv, controlVars, handVars, fileVars, msgVars

\* Copying the frame moves what was captured into it.
LEMMA CopyKept ==
    ASSUME HandoffInv, KeptInv, CopyFrame
    PROVE  KeptInv'
<1> USE DEF HandoffInv
<1>1. ~Pending /\ Pending'
  BY DEF CopyFrame, Pending, TurnInv, TypeOK
<1>2. Live \subseteq FrameItems(FrameArrays)'
  <2> SUFFICES ASSUME NEW x \in Live PROVE x \in FrameItems(FrameArrays)'
    OBVIOUS
  <2>1. PICK k \in Kinds : x \in Prefix(buf[k], count[k])
    BY DEF Live
  <2>2. PICK i \in 0..(count[k] - 1) : x = buf[k][i]
    BY <2>1 DEF Prefix
  <2>3. i \in Slots /\ i < count[k]
    BY <2>2, ConstantsAssumption DEF ConstantsAssumption, Slots, TypeOK
  <2>4. x = FrameArrays'[k][i]
    <3>1. CASE SingleThread
      BY <2>2, <3>1 DEF CopyFrame, FrameArrays
    <3>2. CASE ~SingleThread
      BY <2>2, <2>3, <3>2 DEF CopyFrame, FrameArrays
    <3>3. QED
      BY <3>1, <3>2
  <2>5. frameCount'[k] = count[k]
    BY DEF CopyFrame
  <2>6. x \in Prefix(FrameArrays'[k], frameCount'[k])
    BY <2>2, <2>4, <2>5 DEF Prefix
  <2>7. QED
    BY <2>6 DEF FrameItems
<1>3. Kept \subseteq Kept'
  BY <1>1, <1>2, SureIsLive DEF CopyFrame, Kept, fileVars
<1>4. Recorded' = Recorded
  BY DEF CopyFrame, Recorded, controlVars, msgVars
<1>5. /\ pcTv' \notin {"write"} \cup Sending \/ pcTv' = pcTv
      /\ pcMain' # "copy" /\ enabled' = enabled /\ fileOpen' = fileOpen /\ due' = due
      /\ copyState' = "FINISHED"
  BY DEF CopyFrame, Sending, controlVars, fileVars
<1>6. SingleThread => due
  BY DEF CopyFrame, KeptInv
<1>7. QED
  BY <1>3, <1>4, <1>5, <1>6 DEF KeptInv

\* Where no ambient sound is sent in the write itself, the arrays stay.
LEMMA WriteQuiet ==
    ASSUME HandoffInv, SingleThread => Ambients = 0
    PROVE  BufAfterAmbients = buf /\ CountAfterAmbients = count
<1>1. "msg" \in Kinds /\ Ambients \in Nat
  BY ConstantsAssumption DEF ConstantsAssumption
<1>2. /\ count["msg"] \in Nat /\ count["msg"] < Cap["msg"]
      /\ buf["msg"] \in [Slots -> Content]
      /\ buf \in [Kinds -> [Slots -> Content]] /\ count \in [Kinds -> Nat]
  BY <1>1 DEF HandoffInv, TypeOK
<1>3. CASE ~SingleThread
  BY <1>3 DEF BufAfterAmbients, CountAfterAmbients, AmbientsSent
<1>4. CASE SingleThread
  <2>0. Ambients = 0
    BY <1>4
  <2>1. /\ Stored("msg", buf["msg"], count["msg"], 0, Ambient) = buf["msg"]
        /\ StoredCount("msg", count["msg"], 0) = count["msg"]
    BY <1>1, <1>2, StoredNothing
  <2>2. QED
    BY <1>1, <1>2, <2>0, <2>1 DEF BufAfterAmbients, CountAfterAmbients
<1>5. QED
  BY <1>3, <1>4

\* Writing the frame moves what it holds into the file.
LEMMA WriteKept ==
    ASSUME HandoffInv, KeptInv, TvWrite, SingleThread => Ambients = 0
    PROVE  KeptInv'
<1>1. UNCHANGED <<buf, count, own>>
  BY WriteQuiet DEF TvWrite
<1>2. /\ pcTv' # "ambStore" /\ pcTv # "ambStore"
      /\ pcMain' = "msgStore" <=> pcMain = "msgStore"
  BY DEF TvWrite, TvReturn, HandoffInv, TurnInv, Capturing, Sending
<1>3. SureLive' = SureLive
  BY <1>1, <1>2, SureSame
<1>4. file' = file \cup FrameItems(FrameArrays) /\ UNCHANGED fileOpen
  BY WriteQuiet DEF TvWrite, FrameArrays
<1>5. fileOpen
  BY DEF KeptInv, TvWrite, Sending
<1>6. Kept \subseteq Kept'
  BY <1>3, <1>4, <1>5 DEF Kept
<1>7. Recorded' = Recorded /\ enabled' = enabled
  BY DEF TvWrite, Recorded, controlVars
<1>8. (SingleThread => pcMain' = "idle") /\ pcTv' \notin {"write"} \cup Sending
  BY DEF TvWrite, TvReturn, Sending
<1>9. QED
  BY <1>6, <1>7, <1>8 DEF KeptInv

\* Switching recording on starts an empty interval of recorded items.
LEMMA StartKept ==
    ASSUME HandoffInv, recStart' = next, next' = next
    PROVE  Recorded' = {}
BY DEF HandoffInv, TypeOK, Recorded

\* With a recorder thread, a message captured while no ambient sound is sent is
\* whole: its calls find the same element, and the counter they count up is its
\* index.
WholeInv ==
    pcMain \in Capturing /\ next \notin overlapped =>
        /\ pcTv \notin Sending /\ logging
        /\ buf["msg"][count["msg"]] = IF pcMain = "msgBody" THEN -next ELSE next
        /\ pcMain = "msgStore" => own["server"] = count["msg"]

\* Every step keeps the message in the making whole.
LEMMA NextWhole ==
    ASSUME HandoffInv, WholeInv, [Next]_vars
    PROVE  WholeInv'
<1> USE DEF HandoffInv
<1>0. /\ "msg" \in Kinds /\ Cap["msg"] \in Nat /\ next \in Nat
      /\ count["msg"] \in Nat /\ count["msg"] < Cap["msg"]
      /\ buf \in [Kinds -> [Slots -> Content]]
  BY ConstantsAssumption DEF ConstantsAssumption, TypeOK
<1>1. count["msg"] \in Slots
  BY <1>0 DEF Slots
<1>2. CASE MessageBegin
  BY <1>0, <1>1, <1>2 DEF MessageBegin, Begun, WholeInv, Capturing
<1>3. CASE MessageBody
  BY <1>0, <1>1, <1>3 DEF MessageBody, Written, WholeInv, Capturing, msgVars
<1>4. CASE MessageEnd
  BY <1>4 DEF MessageEnd, WholeInv, Capturing, TypeOK
<1>5. ASSUME pcMain' \notin Capturing PROVE WholeInv'
  BY <1>5 DEF WholeInv
<1>6. ASSUME pcMain \in Capturing, UNCHANGED <<pcMain, next>>,
             \/ pcTv \in Sending /\ UNCHANGED overlapped
             \/ next \in overlapped'
             \/ UNCHANGED <<buf, count, logging, own, overlapped>> /\ pcTv' \notin Sending
      PROVE  WholeInv'
  BY <1>6 DEF WholeInv
<1>7. ASSUME NEW k \in Kinds, Capture(k) PROVE WholeInv'
  BY <1>5, <1>7 DEF Capture, Capturing
<1>8. CASE ToggleDemo \/ ReplayDemo \/ Changelevel \/ MapInitHook \/ MessageIgnored \/ MessageStore
  BY <1>5, <1>8 DEF ToggleDemo, ReplayDemo, Changelevel, MapInitHook, MessageIgnored, MessageStore, Capturing
<1>9. CASE StartFrameHook \/ think_mainThread \/ CopyFrame
  BY <1>5, <1>9 DEF StartFrameHook, think_mainThread, CopyFrame, Capturing
<1>10. ASSUME TvThread \/ Tick, pcMain \in Capturing PROVE WholeInv'
  <2>0. ~SingleThread
    BY <1>10 DEF TurnInv
  <2>1. CASE TvAmbients
    BY <1>6, <1>10, <2>1 DEF TvAmbients, captureVars
  <2>2. CASE AmbientBegin \/ AmbientBody \/ AmbientEnd \/ AmbientStore
    BY <1>6, <1>10, <2>2 DEF AmbientBegin, AmbientBody, AmbientEnd, AmbientStore, Sending, captureVars, msgVars
  <2>3. CASE TvWrite
    <3>1. UNCHANGED <<buf, count, logging, own, overlapped, next, pcMain>> /\ pcTv' \notin Sending
      BY <2>0, <2>3 DEF TvWrite, TvReturn, BufAfterAmbients, CountAfterAmbients, AmbientsSent, Sending
    <3>2. QED
      BY <1>6, <1>10, <3>1
  <2>4. CASE Tick
    BY <1>10, <2>4 DEF Tick, WholeInv, captureVars, msgVars
  <2>5. CASE \/ TvWait \/ TvLoad \/ TvNotRecording \/ TvOpenFails \/ TvOpen
             \/ TvTooBig \/ TvNotDue
    <3>1. UNCHANGED <<buf, count, logging, own, overlapped, next, pcMain>>
      BY <2>0, <2>5 DEF TvWait, TvLoad, TvNotRecording, TvOpenFails, TvOpen, TvTooBig, TvNotDue, TvReturn, captureVars, msgVars
    <3>2. pcTv' \notin Sending
      BY <2>0, <2>5 DEF TvWait, TvLoad, TvNotRecording, TvOpenFails, TvOpen, TvTooBig, TvNotDue, TvReturn, Sending
    <3>3. QED
      BY <1>6, <1>10, <3>1, <3>2
  <2>6. QED
    BY <1>10, <2>1, <2>2, <2>3, <2>4, <2>5 DEF TvThread
<1>11. ASSUME TvThread \/ Tick, pcMain \notin Capturing PROVE WholeInv'
  <2>1. pcMain' \notin Capturing
    BY <1>11 DEF TvThread, Tick, TvWait, TvLoad, TvNotRecording, TvOpenFails, TvOpen, TvTooBig, TvNotDue, TvWrite, TvReturn, TvAmbients, AmbientBegin, AmbientBody, AmbientEnd, AmbientStore, Capturing
  <2>2. QED
    BY <1>5, <2>1
<1>12. CASE UNCHANGED vars
  BY <1>12 DEF vars, WholeInv, captureVars, msgVars
<1>13. QED
  BY <1>2, <1>3, <1>4, <1>7, <1>8, <1>9, <1>10, <1>11, <1>12 DEF Next, Hooks, MainThread

\* A call that writes into the element behind the counted ones keeps those.
LEMMA CallsQuiet ==
    ASSUME HandoffInv, NEW x, buf' = buf \/ buf' = Begun(x) \/ buf' = Written(x)
    PROVE  \A k \in Kinds : \A i \in Sure(k) : buf'[k][i] = buf[k][i]
<1>1. buf \in [Kinds -> [Slots -> Content]] /\ count \in [Kinds -> Nat]
  BY DEF HandoffInv, TypeOK
<1>2. ASSUME NEW y, buf' = [buf EXCEPT !["msg"][count["msg"]] = y],
             NEW k \in Kinds, NEW i \in Sure(k)
      PROVE  buf'[k][i] = buf[k][i]
  <2>1. i \in 0..(count[k] - 1) /\ count[k] \in Nat
    BY <1>1, <1>2 DEF Sure
  <2>2. i # count[k]
    BY <2>1
  <2>3. QED
    BY <1>1, <1>2, <2>2
<1>3. QED
  BY <1>2 DEF Begun, Written

\* The calls of a message keep what is certain, and the last one adds it.
LEMMA ServerKept ==
    ASSUME HandoffInv, KeptInv, WholeInv, ServerMessage, ~SingleThread
    PROVE  KeptInv'
<1> USE DEF HandoffInv
<1>1. /\ "msg" \in Kinds /\ count \in [Kinds -> Nat] /\ count["msg"] < Cap["msg"]
      /\ Cap["msg"] \in Nat /\ buf \in [Kinds -> [Slots -> Content]]
      /\ own \in [{"server", "recorder"} -> Nat] /\ own["server"] < Cap["msg"]
      /\ next \in Nat /\ recStart \in Nat
  BY ConstantsAssumption DEF ConstantsAssumption, TypeOK
<1>2. /\ UNCHANGED <<fileVars, handVars, enabled, recStart, pcTv, pcMain>> \/ UNCHANGED <<fileVars, handVars, enabled, recStart, pcTv>>
      /\ pcMain' \notin {"copy", "callNew"}
  BY DEF ServerMessage, MessageBegin, MessageIgnored, MessageBody, MessageEnd, MessageStore, controlVars
<1>3. \A k \in Kinds : \A i \in Sure(k) : buf'[k][i] = buf[k][i]
  <2>1. buf' = buf \/ buf' = Begun(next) \/ buf' = Written(next)
    BY DEF ServerMessage, MessageBegin, MessageIgnored, MessageBody, MessageEnd, MessageStore, captureVars
  <2>2. QED
    BY <2>1, CallsQuiet
<1>4. \A k \in Kinds : \A i \in Sure(k) : i \in Sure(k)'
  <2>1. CASE MessageBegin \/ MessageIgnored \/ MessageBody
    BY <2>1 DEF Sure, MessageBegin, MessageIgnored, MessageBody, captureVars, msgVars
  <2>2. CASE MessageEnd
    BY <1>1, <2>2 DEF Sure, MessageEnd
  <2>3. CASE MessageStore
    <3>1. /\ StoredCount("msg", own["server"], 1) \in Nat
          /\ own["server"] <= StoredCount("msg", own["server"], 1)
      BY <1>1, StoredCountType
    <3>2. \A i \in Sure("msg") : i \in Nat /\ i < own["server"]
      BY <1>1, <2>3 DEF Sure, MessageStore
    <3>3. \A i \in Sure("msg") : i \in 0..(count'["msg"] - 1)
      BY <1>1, <2>3, <3>1, <3>2 DEF MessageStore
    <3>4. \A i \in Sure("msg") : i \in Sure("msg")'
      BY <2>3, <3>3 DEF Sure, MessageStore
    <3>5. \A k \in Kinds : k # "msg" => Sure(k)' = Sure(k)
      BY <1>1, <2>3 DEF Sure, MessageStore
    <3>6. QED
      BY <3>4, <3>5
  <2>4. QED
    BY <2>1, <2>2, <2>3 DEF ServerMessage
<1>5. SureLive \subseteq SureLive'
  BY <1>3, <1>4, SureGrows
<1>6. Kept \subseteq Kept'
  BY <1>2, <1>5 DEF Kept, Pending, FrameItems, FrameArrays, fileVars, handVars
<1>7. Recorded' \subseteq Recorded \cup SureLive'
  <2>1. CASE MessageBegin \/ MessageIgnored \/ MessageBody
    BY <2>1 DEF MessageBegin, MessageIgnored, MessageBody, Recorded, captureVars, controlVars, msgVars
  <2>2. CASE MessageEnd
    <3>1. logging \/ next \in overlapped
      BY <2>2 DEF MessageEnd, WholeInv, Capturing
    <3>2. /\ UNCHANGED <<recStart, dropped, overlapped>>
          /\ next' = next \/ (next' = next + 1 /\ next \in overlapped)
      BY <2>2, <3>1 DEF MessageEnd, controlVars
    <3>3. QED
      BY <1>1, <3>2 DEF Recorded
  <2>3. CASE MessageStore
    <3>1. ASSUME next \notin dropped' \cup overlapped'
          PROVE  next \in SureLive'
      <4>1. /\ own["server"] = count["msg"] /\ buf["msg"][count["msg"]] = next
            /\ pcTv \notin Sending
        BY <2>3, <3>1 DEF MessageStore, WholeInv, Capturing, msgVars
      <4>2. count["msg"] # Cap["msg"] - 1
        BY <2>3, <3>1, <4>1 DEF MessageStore
      <4>7. count'["msg"] = StoredCount("msg", count["msg"], 1)
        BY <1>1, <2>3, <4>1 DEF MessageStore
      <4>8. count["msg"] \in Nat
        BY <1>1
      <4>3. count'["msg"] = count["msg"] + 1
        BY <1>1, <4>2, <4>7, <4>8, CountedUp
      <4>4. count["msg"] \in Sure("msg")'
        BY <1>1, <2>3, <4>1, <4>3 DEF Sure, MessageStore, Sending
      <4>5. buf'["msg"][count["msg"]] = next
        BY <2>3, <4>1 DEF MessageStore
      <4>6. QED
        BY <1>1, <4>4, <4>5 DEF SureLive
    <3>4. /\ UNCHANGED <<recStart, overlapped>> /\ next' = next + 1
          /\ dropped \subseteq dropped'
      BY <2>3 DEF MessageStore, controlVars
    <3>2. Recorded' \subseteq Recorded \cup ({next} \ (dropped' \cup overlapped'))
      BY <1>1, <3>4 DEF Recorded
    <3>3. QED
      BY <3>1, <3>2
  <2>4. QED
    BY <2>1, <2>2, <2>3 DEF ServerMessage
<1>8. QED
  BY <1>2, <1>5, <1>6, <1>7 DEF KeptInv, Kept, fileVars

\* The calls of an ambient sound keep what is certain.
LEMMA AmbientKept ==
    ASSUME HandoffInv, KeptInv, AmbientMessage, ~SingleThread
    PROVE  KeptInv'
<1> USE DEF HandoffInv
<1>1. /\ "msg" \in Kinds /\ count \in [Kinds -> Nat] /\ count["msg"] < Cap["msg"]
      /\ Cap["msg"] \in Nat /\ buf \in [Kinds -> [Slots -> Content]]
      /\ own \in [{"server", "recorder"} -> Nat] /\ own["recorder"] < Cap["msg"]
      /\ next \in Nat /\ recStart \in Nat
  BY ConstantsAssumption DEF ConstantsAssumption, TypeOK
<1>2. /\ UNCHANGED <<fileVars, handVars, controlVars, next, dropped, pcMain>>
      /\ overlapped \subseteq overlapped'
      /\ fileOpen /\ pcTv' # "write"
  BY DEF AmbientMessage, TvAmbients, AmbientBegin, AmbientBody, AmbientEnd, AmbientStore, KeptInv, Sending, captureVars, msgVars
<1>3. \A k \in Kinds : \A i \in Sure(k) : buf'[k][i] = buf[k][i]
  <2>1. \/ buf' = buf \/ buf' = Begun(Ambient) \/ buf' = Written(Ambient)
    BY DEF AmbientMessage, TvAmbients, AmbientBegin, AmbientBody, AmbientEnd, AmbientStore, captureVars
  <2>2. QED
    BY <2>1, CallsQuiet
<1>4. \A k \in Kinds : \A i \in Sure(k) : i \in Sure(k)'
  <2>1. CASE TvAmbients \/ AmbientBegin \/ AmbientBody
    BY <2>1 DEF Sure, TvAmbients, AmbientBegin, AmbientBody, captureVars, msgVars
  <2>2. CASE AmbientEnd
    BY <1>1, <2>2 DEF Sure, AmbientEnd, captureVars
  <2>3. CASE AmbientStore
    <3>1. /\ StoredCount("msg", own["recorder"], 1) \in Nat
          /\ own["recorder"] <= StoredCount("msg", own["recorder"], 1)
      BY <1>1, StoredCountType
    <3>2. \A i \in Sure("msg") : i \in Nat /\ i < own["recorder"]
      BY <1>1, <2>3 DEF Sure, AmbientStore
    <3>3. \A i \in Sure("msg") : i \in 0..(count'["msg"] - 1)
      BY <1>1, <2>3, <3>1, <3>2 DEF AmbientStore
    <3>4. \A i \in Sure("msg") : i \in Sure("msg")'
      BY <2>3, <3>3 DEF Sure, AmbientStore
    <3>5. \A k \in Kinds : k # "msg" => Sure(k)' = Sure(k)
      BY <1>1, <2>3 DEF Sure, AmbientStore
    <3>6. QED
      BY <3>4, <3>5
  <2>4. QED
    BY <2>1, <2>2, <2>3 DEF AmbientMessage
<1>5. SureLive \subseteq SureLive'
  BY <1>3, <1>4, SureGrows
<1>6. Kept \subseteq Kept'
  BY <1>2, <1>5 DEF Kept, Pending, FrameItems, FrameArrays, fileVars, handVars
<1>7. Recorded' \subseteq Recorded
  BY <1>2 DEF Recorded, controlVars
<1>8. QED
  BY <1>2, <1>6, <1>7 DEF KeptInv, fileVars, controlVars, TurnInv

\* Every step keeps the recorded items in the arrays, in the frame or in the
\* file.
LEMMA NextKept ==
    ASSUME HandoffInv, KeptInv, WholeInv, [Next]_vars, SingleThread => Ambients = 0
    PROVE  KeptInv'
<1> USE DEF HandoffInv
<1>1. ASSUME NEW k \in Kinds, Capture(k) PROVE KeptInv'
  BY <1>1, CaptureKept
<1>2. CASE ToggleDemo
  <2>1. enabled' => Recorded' = {}
    BY <1>2, StartKept DEF ToggleDemo, captureVars, msgVars
  <2>2. QED
    BY <1>2, <2>1 DEF ToggleDemo, KeptInv, captureVars, handVars, fileVars, msgVars
<1>3. CASE ReplayDemo
  BY <1>3, SureSame DEF ReplayDemo, KeptInv, Kept, Pending, Recorded, FrameItems, FrameArrays, Calls, TurnInv, Sending, Capturing, captureVars, handVars, fileVars, msgVars
<1>4. CASE Changelevel
  BY <1>4, SureSame DEF Changelevel, KeptInv, Kept, Pending, Recorded, FrameItems, FrameArrays, Calls, TurnInv, Sending, Capturing, handVars, fileVars, msgVars
<1>5. CASE MapInitHook
  BY <1>5, SureSame DEF MapInitHook, KeptInv, Kept, Pending, Recorded, FrameItems, FrameArrays, Calls, TurnInv, Sending, Capturing, captureVars, handVars, fileVars, msgVars
<1>6. CASE StartFrameHook
  <2>1. CASE Autostarts
    <3>1. Recorded' = {}
      BY <1>6, <2>1, StartKept DEF StartFrameHook, captureVars, msgVars
    <3>2. QED
      BY <1>6, <3>1 DEF StartFrameHook, KeptInv, TypeOK, captureVars, handVars, fileVars, msgVars
  <2>2. CASE ~Autostarts
    BY <1>6, <2>2, SureSame DEF StartFrameHook, KeptInv, Kept, Pending, Recorded, FrameItems, FrameArrays, Calls, TurnInv, Sending, Capturing, TypeOK, captureVars, handVars, fileVars, msgVars
  <2>3. QED
    BY <2>1, <2>2
<1>7. CASE think_mainThread
  BY <1>7, SureSame DEF think_mainThread, Copies, KeptInv, Kept, Pending, Recorded, FrameItems, FrameArrays, Calls, TurnInv, Sending, Capturing, captureVars, controlVars, handVars, fileVars, msgVars
<1>8. CASE CopyFrame
  BY <1>8, CopyKept
<1>9. CASE TvWait
  BY <1>9, SureSame DEF TvWait, KeptInv, Kept, Pending, Recorded, FrameItems, FrameArrays, Calls, TurnInv, Sending, Capturing, captureVars, controlVars, handVars, msgVars
<1>10. CASE TvLoad
  BY <1>10, SureSame DEF TvLoad, KeptInv, Kept, Pending, Recorded, FrameItems, FrameArrays, Calls, TurnInv, Sending, Capturing, captureVars, controlVars, fileVars, msgVars
<1>11. CASE TvNotRecording
  BY <1>11, SureSame DEF TvNotRecording, TvReturn, KeptInv, Kept, Pending, Recorded, FrameItems, FrameArrays, Calls, TurnInv, Sending, Capturing, captureVars, controlVars, handVars, msgVars
<1>12. CASE TvOpenFails
  BY <1>12, SureSame DEF TvOpenFails, TvReturn, KeptInv, Kept, Pending, Recorded, FrameItems, FrameArrays, Calls, TurnInv, Sending, Capturing, captureVars, handVars, fileVars, msgVars
<1>13. CASE TvOpen
  BY <1>13, SureSame DEF TvOpen, KeptInv, Kept, Pending, Recorded, FrameItems, FrameArrays, Calls, TurnInv, Sending, Capturing, captureVars, controlVars, handVars, fileVars, msgVars
<1>14. CASE TvTooBig
  BY <1>14, SureSame DEF TvTooBig, TvReturn, KeptInv, Kept, Pending, Recorded, FrameItems, FrameArrays, Calls, TurnInv, Sending, Capturing, captureVars, handVars, msgVars
<1>15. CASE TvNotDue
  BY <1>15, SureSame DEF TvNotDue, TvReturn, KeptInv, Kept, Pending, Recorded, FrameItems, FrameArrays, Calls, TurnInv, Sending, Capturing, captureVars, controlVars, handVars, fileVars, msgVars
<1>16. CASE TvWrite
  BY <1>16, WriteKept
<1>17. CASE Tick
  BY <1>17, SureSame DEF Tick, KeptInv, Kept, Pending, Recorded, FrameItems, FrameArrays, Calls, TurnInv, Sending, Capturing, captureVars, controlVars, handVars, fileVars, msgVars
<1>18. CASE UNCHANGED vars
  BY <1>18, SureSame DEF vars, KeptInv, Kept, Pending, Recorded, FrameItems, FrameArrays, Calls, TurnInv, Sending, Capturing, captureVars, controlVars, handVars, fileVars, msgVars
<1>20. CASE Messages
  <2>0. ~SingleThread
    BY <1>20, OneThread
  <2>1. CASE ServerMessage
    BY <2>0, <2>1, ServerKept
  <2>2. CASE AmbientMessage
    BY <2>0, <2>2, AmbientKept
  <2>3. QED
    BY <1>20, <2>1, <2>2 DEF Messages
<1>19. QED
  BY <1>1, <1>2, <1>3, <1>4, <1>5, <1>6, <1>7, <1>8, <1>9, <1>10, <1>11, <1>12, <1>13, <1>14, <1>15, <1>16, <1>17, <1>18, <1>20
     DEF Next, Hooks, MainThread, TvThread, Messages, ServerMessage, AmbientMessage

(***************************************************************************)
(* With a recorder thread, or in single thread mode on a map without       *)
(* ambient sounds, an item captured while recording stays on is lost only  *)
(* to a full array, or to ambient sounds that the recorder thread sends    *)
(* meanwhile: the copies, the early returns of writeDemoFile and the       *)
(* opening and closing of files lose none.                                 *)
(***************************************************************************)
THEOREM NothingLost ==
    ASSUME SingleThread => Ambients = 0
    PROVE  Spec => []NoItemLost
<1>1. HandoffInv /\ KeptInv /\ WholeInv /\ [Next]_vars
        => HandoffInv' /\ KeptInv' /\ WholeInv'
  BY NextHandoff, NextKept, NextWhole
<1>2. Init => HandoffInv /\ KeptInv /\ WholeInv
  BY InitHandoff, InitKept DEF Init, WholeInv, Capturing
<1>3. HandoffInv /\ KeptInv => NoItemLost
  BY SureIsLive DEF HandoffInv, KeptInv, Kept, Pending, NoItemLost, InFlight
<1>4. QED
  BY <1>1, <1>2, <1>3, PTL DEF Spec

-----------------------------------------------------------------------------
(* One map per file, and no restart of a recording that was stopped *)

\* Recording, and every pass of StartFrameHook, belongs to a running map.
RunInv ==
    /\ enabled => phase = "running"
    /\ pcMain # "idle" => phase = "running"

\* A file that Changelevel left open is closed in the first pass on the new
\* map, before anything can switch recording on; the pass writes what it loaded.
MapInv ==
    /\ fileOpen /\ fileMap # map => ~enabled /\ (phase = "running" => pcMain # "idle")
    /\ pcTv \in {"file", "write"} => frameMap = map
    /\ pcTv = "write" => fileOpen /\ enabled

\* What stops a recording on a map also takes the right to autostart there.
StopInv == stopMap <= map /\ (stopMap = map => ~canAuto /\ phase = "running")

PassInv == HandoffInv /\ RunInv /\ MapInv /\ StopInv

\* Nothing runs and nothing is recorded at first.
LEMMA InitPass == Init /\ SingleThread => PassInv
<1> SUFFICES ASSUME Init, SingleThread PROVE PassInv
  OBVIOUS
<1>1. HandoffInv
  BY InitHandoff
<1>2. RunInv /\ MapInv /\ StopInv
  BY DEF Init, RunInv, MapInv, StopInv
<1>3. QED
  BY <1>1, <1>2 DEF PassInv

\* Every step leaves the map running while anything is recorded or passes.
LEMMA NextRun ==
    ASSUME PassInv, [Next]_vars, SingleThread
    PROVE  RunInv'
<1> USE DEF PassInv
<1>1. ASSUME NEW k \in Kinds, Capture(k) PROVE RunInv'
  BY <1>1 DEF Capture, RunInv, HandoffInv, TypeOK, controlVars, mapVars, handVars, fileVars, msgVars
<1>2. CASE ToggleDemo
  BY <1>2 DEF ToggleDemo, RunInv, HandoffInv, TypeOK, captureVars, mapVars, handVars, fileVars, msgVars
<1>3. CASE ReplayDemo
  BY <1>3 DEF ReplayDemo, RunInv, HandoffInv, TypeOK, captureVars, mapVars, handVars, fileVars, msgVars
<1>4. CASE Changelevel
  BY <1>4 DEF Changelevel, RunInv, HandoffInv, TypeOK, handVars, fileVars, msgVars
<1>5. CASE MapInitHook
  BY <1>5 DEF MapInitHook, RunInv, HandoffInv, TypeOK, captureVars, handVars, fileVars, msgVars
<1>6. CASE StartFrameHook
  BY <1>6 DEF StartFrameHook, Autostarts, Thinks, RunInv, HandoffInv, TypeOK, captureVars, handVars, fileVars, msgVars
<1>7. CASE think_mainThread
  BY <1>7 DEF think_mainThread, Copies, RunInv, HandoffInv, TypeOK, captureVars, controlVars, mapVars, handVars, fileVars, msgVars
<1>8. CASE CopyFrame
  BY <1>8 DEF CopyFrame, ClearedCounts, RunInv, HandoffInv, TypeOK, controlVars, mapVars, fileVars, msgVars
<1>9. CASE TvWait
  BY <1>9 DEF TvWait, RunInv, HandoffInv, TypeOK, captureVars, controlVars, mapVars, handVars, msgVars
<1>10. CASE TvLoad
  BY <1>10 DEF TvLoad, RunInv, HandoffInv, TypeOK, captureVars, controlVars, mapVars, fileVars, msgVars
<1>11. CASE TvNotRecording
  BY <1>11 DEF TvNotRecording, TvReturn, RunInv, HandoffInv, TypeOK, captureVars, controlVars, mapVars, handVars, msgVars
<1>12. CASE TvOpenFails
  BY <1>12 DEF TvOpenFails, TvReturn, RunInv, HandoffInv, TypeOK, captureVars, mapVars, handVars, fileVars, msgVars
<1>13. CASE TvOpen
  BY <1>13 DEF TvOpen, RunInv, HandoffInv, TypeOK, captureVars, controlVars, mapVars, handVars, fileVars, msgVars
<1>14. CASE TvTooBig
  BY <1>14 DEF TvTooBig, TvReturn, RunInv, HandoffInv, TypeOK, captureVars, mapVars, handVars, msgVars
<1>15. CASE TvNotDue
  BY <1>15 DEF TvNotDue, TvReturn, RunInv, HandoffInv, TypeOK, captureVars, controlVars, mapVars, handVars, fileVars, msgVars
<1>16. CASE TvWrite
  BY <1>16 DEF TvWrite, TvReturn, WantMoreData, RunInv, HandoffInv, TypeOK, Sending, controlVars, mapVars
<1>17. CASE Tick
  BY <1>17 DEF Tick, RunInv, HandoffInv, TypeOK, captureVars, controlVars, mapVars, handVars, fileVars, msgVars
<1>18. CASE UNCHANGED vars
  BY <1>18 DEF vars, RunInv, HandoffInv, TypeOK, captureVars, controlVars, mapVars, handVars, fileVars, msgVars
<1>20. CASE Messages
  BY <1>20, OneThread DEF PassInv
<1>19. QED
  BY <1>1, <1>2, <1>3, <1>4, <1>5, <1>6, <1>7, <1>8, <1>9, <1>10, <1>11, <1>12, <1>13, <1>14, <1>15, <1>16, <1>17, <1>18, <1>20
     DEF Next, Hooks, MainThread, TvThread, Messages, ServerMessage, AmbientMessage

\* In single thread mode a pass of the recorder sees one map.
LEMMA NextMap ==
    ASSUME PassInv, [Next]_vars, SingleThread
    PROVE  MapInv'
<1> USE DEF PassInv
<1>1. ASSUME NEW k \in Kinds, Capture(k) PROVE MapInv'
  BY <1>1 DEF Capture, RunInv, MapInv, TurnInv, HandoffInv, TypeOK, Calls, TvBusy, controlVars, mapVars, handVars, fileVars, msgVars
<1>2. CASE ToggleDemo
  BY <1>2 DEF ToggleDemo, RunInv, MapInv, TurnInv, HandoffInv, TypeOK, Calls, TvBusy, captureVars, mapVars, handVars, fileVars, msgVars
<1>3. CASE ReplayDemo
  BY <1>3 DEF ReplayDemo, RunInv, MapInv, TurnInv, HandoffInv, TypeOK, Calls, TvBusy, captureVars, mapVars, handVars, fileVars, msgVars
<1>4. CASE Changelevel
  BY <1>4 DEF Changelevel, RunInv, MapInv, TurnInv, HandoffInv, TypeOK, Calls, TvBusy, handVars, fileVars, msgVars
<1>5. CASE MapInitHook
  BY <1>5 DEF MapInitHook, RunInv, MapInv, TurnInv, HandoffInv, TypeOK, Calls, TvBusy, captureVars, handVars, fileVars, msgVars
<1>6. CASE StartFrameHook
  BY <1>6 DEF StartFrameHook, Autostarts, Thinks, RunInv, MapInv, TurnInv, HandoffInv, TypeOK, Calls, TvBusy, captureVars, handVars, fileVars, msgVars
<1>7. CASE think_mainThread
  BY <1>7 DEF think_mainThread, Copies, RunInv, MapInv, TurnInv, HandoffInv, TypeOK, Calls, TvBusy, captureVars, controlVars, mapVars, handVars, fileVars, msgVars
<1>8. CASE CopyFrame
  BY <1>8 DEF CopyFrame, ClearedCounts, RunInv, MapInv, TurnInv, HandoffInv, TypeOK, Calls, TvBusy, controlVars, mapVars, fileVars, msgVars
<1>9. CASE TvWait
  BY <1>9 DEF TvWait, RunInv, MapInv, TurnInv, HandoffInv, TypeOK, Calls, TvBusy, captureVars, controlVars, mapVars, handVars, msgVars
<1>10. CASE TvLoad
  BY <1>10 DEF TvLoad, RunInv, MapInv, TurnInv, HandoffInv, TypeOK, Calls, TvBusy, captureVars, controlVars, mapVars, fileVars, msgVars
<1>11. CASE TvNotRecording
  BY <1>11 DEF TvNotRecording, TvReturn, RunInv, MapInv, TurnInv, HandoffInv, TypeOK, Calls, TvBusy, captureVars, controlVars, mapVars, handVars, msgVars
<1>12. CASE TvOpenFails
  BY <1>12 DEF TvOpenFails, TvReturn, RunInv, MapInv, TurnInv, HandoffInv, TypeOK, Calls, TvBusy, captureVars, mapVars, handVars, fileVars, msgVars
<1>13. CASE TvOpen
  BY <1>13 DEF TvOpen, RunInv, MapInv, TurnInv, HandoffInv, TypeOK, Calls, TvBusy, captureVars, controlVars, mapVars, handVars, fileVars, msgVars
<1>14. CASE TvTooBig
  BY <1>14 DEF TvTooBig, TvReturn, RunInv, MapInv, TurnInv, HandoffInv, TypeOK, Calls, TvBusy, captureVars, mapVars, handVars, msgVars
<1>15. CASE TvNotDue
  BY <1>15 DEF TvNotDue, TvReturn, RunInv, MapInv, TurnInv, HandoffInv, TypeOK, Calls, TvBusy, captureVars, controlVars, mapVars, handVars, fileVars, msgVars
<1>16. CASE TvWrite
  BY <1>16 DEF TvWrite, TvReturn, WantMoreData, RunInv, MapInv, TurnInv, HandoffInv, TypeOK, Calls, TvBusy, Sending, controlVars, mapVars
<1>17. CASE Tick
  BY <1>17 DEF Tick, RunInv, MapInv, TurnInv, HandoffInv, TypeOK, Calls, TvBusy, captureVars, controlVars, mapVars, handVars, fileVars, msgVars
<1>18. CASE UNCHANGED vars
  BY <1>18 DEF vars, RunInv, MapInv, TurnInv, HandoffInv, TypeOK, Calls, TvBusy, captureVars, controlVars, mapVars, handVars, fileVars, msgVars
<1>20. CASE Messages
  BY <1>20, OneThread DEF PassInv
<1>19. QED
  BY <1>1, <1>2, <1>3, <1>4, <1>5, <1>6, <1>7, <1>8, <1>9, <1>10, <1>11, <1>12, <1>13, <1>14, <1>15, <1>16, <1>17, <1>18, <1>20
     DEF Next, Hooks, MainThread, TvThread, Messages, ServerMessage, AmbientMessage

\* In single thread mode a stop is remembered until the map changes.
LEMMA NextStop ==
    ASSUME PassInv, [Next]_vars, SingleThread
    PROVE  StopInv'
<1> USE DEF PassInv
<1>1. ASSUME NEW k \in Kinds, Capture(k) PROVE StopInv'
  BY <1>1 DEF Capture, RunInv, StopInv, MapInv, TurnInv, HandoffInv, TypeOK, Calls, TvBusy, controlVars, mapVars, handVars, fileVars, msgVars
<1>2. CASE ToggleDemo
  BY <1>2 DEF ToggleDemo, RunInv, StopInv, MapInv, TurnInv, HandoffInv, TypeOK, Calls, TvBusy, captureVars, mapVars, handVars, fileVars, msgVars
<1>3. CASE ReplayDemo
  BY <1>3 DEF ReplayDemo, RunInv, StopInv, MapInv, TurnInv, HandoffInv, TypeOK, Calls, TvBusy, captureVars, mapVars, handVars, fileVars, msgVars
<1>4. CASE Changelevel
  BY <1>4 DEF Changelevel, RunInv, StopInv, MapInv, TurnInv, HandoffInv, TypeOK, Calls, TvBusy, handVars, fileVars, msgVars
<1>5. CASE MapInitHook
  BY <1>5 DEF MapInitHook, RunInv, StopInv, MapInv, TurnInv, HandoffInv, TypeOK, Calls, TvBusy, captureVars, handVars, fileVars, msgVars
<1>6. CASE StartFrameHook
  BY <1>6 DEF StartFrameHook, Autostarts, Thinks, RunInv, StopInv, MapInv, TurnInv, HandoffInv, TypeOK, Calls, TvBusy, captureVars, handVars, fileVars, msgVars
<1>7. CASE think_mainThread
  BY <1>7 DEF think_mainThread, Copies, RunInv, StopInv, MapInv, TurnInv, HandoffInv, TypeOK, Calls, TvBusy, captureVars, controlVars, mapVars, handVars, fileVars, msgVars
<1>8. CASE CopyFrame
  BY <1>8 DEF CopyFrame, ClearedCounts, RunInv, StopInv, MapInv, TurnInv, HandoffInv, TypeOK, Calls, TvBusy, controlVars, mapVars, fileVars, msgVars
<1>9. CASE TvWait
  BY <1>9 DEF TvWait, RunInv, StopInv, MapInv, TurnInv, HandoffInv, TypeOK, Calls, TvBusy, captureVars, controlVars, mapVars, handVars, msgVars
<1>10. CASE TvLoad
  BY <1>10 DEF TvLoad, RunInv, StopInv, MapInv, TurnInv, HandoffInv, TypeOK, Calls, TvBusy, captureVars, controlVars, mapVars, fileVars, msgVars
<1>11. CASE TvNotRecording
  BY <1>11 DEF TvNotRecording, TvReturn, RunInv, StopInv, MapInv, TurnInv, HandoffInv, TypeOK, Calls, TvBusy, captureVars, controlVars, mapVars, handVars, msgVars
<1>12. CASE TvOpenFails
  BY <1>12 DEF TvOpenFails, TvReturn, RunInv, StopInv, MapInv, TurnInv, HandoffInv, TypeOK, Calls, TvBusy, captureVars, mapVars, handVars, fileVars, msgVars
<1>13. CASE TvOpen
  BY <1>13 DEF TvOpen, RunInv, StopInv, MapInv, TurnInv, HandoffInv, TypeOK, Calls, TvBusy, captureVars, controlVars, mapVars, handVars, fileVars, msgVars
<1>14. CASE TvTooBig
  BY <1>14 DEF TvTooBig, TvReturn, RunInv, StopInv, MapInv, TurnInv, HandoffInv, TypeOK, Calls, TvBusy, captureVars, mapVars, handVars, msgVars
<1>15. CASE TvNotDue
  BY <1>15 DEF TvNotDue, TvReturn, RunInv, StopInv, MapInv, TurnInv, HandoffInv, TypeOK, Calls, TvBusy, captureVars, controlVars, mapVars, handVars, fileVars, msgVars
<1>16. CASE TvWrite
  BY <1>16 DEF TvWrite, TvReturn, WantMoreData, RunInv, StopInv, MapInv, TurnInv, HandoffInv, TypeOK, Calls, TvBusy, Sending, controlVars, mapVars
<1>17. CASE Tick
  BY <1>17 DEF Tick, RunInv, StopInv, MapInv, TurnInv, HandoffInv, TypeOK, Calls, TvBusy, captureVars, controlVars, mapVars, handVars, fileVars, msgVars
<1>18. CASE UNCHANGED vars
  BY <1>18 DEF vars, RunInv, StopInv, MapInv, TurnInv, HandoffInv, TypeOK, Calls, TvBusy, captureVars, controlVars, mapVars, handVars, fileVars, msgVars
<1>20. CASE Messages
  BY <1>20, OneThread DEF PassInv
<1>19. QED
  BY <1>1, <1>2, <1>3, <1>4, <1>5, <1>6, <1>7, <1>8, <1>9, <1>10, <1>11, <1>12, <1>13, <1>14, <1>15, <1>16, <1>17, <1>18, <1>20
     DEF Next, Hooks, MainThread, TvThread, Messages, ServerMessage, AmbientMessage

\* Every step of the single thread mode keeps the passes whole.
LEMMA NextPass == PassInv /\ [Next]_vars /\ SingleThread => PassInv'
BY NextHandoff, NextRun, NextMap, NextStop DEF PassInv

\* In single thread mode a frame is written to a file of the map it shows: the
\* file Changelevel leaves open (main.cpp:153) is closed before recording
\* restarts.
THEOREM OneMap == ASSUME SingleThread PROVE Spec => []OneMapPerFile
<1>1. PassInv => OneMapPerFile
  BY DEF PassInv, RunInv, MapInv, OneMapPerFile
<1>2. QED
  BY InitPass, NextPass, <1>1, PTL DEF Spec

\* In single thread mode autostart never restarts a recording that was stopped
\* by hand, failed or grew too large, until the map changes.
THEOREM StaysStopped == ASSUME SingleThread PROVE Spec => NoAutoRestart
<1>1. PassInv /\ [Next]_vars => [MainThread /\ enabled' /\ ~enabled => stopMap # map]_vars
  BY DEF PassInv, StopInv, MainThread, StartFrameHook, think_mainThread, CopyFrame, MessageBody, MessageEnd, MessageStore, Autostarts, controlVars
<1>2. QED
  BY InitPass, NextPass, <1>1, PTL DEF Spec, NoAutoRestart

-----------------------------------------------------------------------------
(* Where the items of a frame come from *)

\* An element of an array is one that was there or the one that is stored.
LEMMA StoredFrom ==
    ASSUME NEW k \in Kinds, NEW b, NEW c, NEW n, NEW x, NEW i \in Slots
    PROVE  Stored(k, b, c, n, x)[i] \in {x, b[i]}
BY DEF Stored

\* A counted element is one that was counted or the one that is stored.
LEMMA StoredCounted ==
    ASSUME NEW k \in Kinds, NEW b \in [Slots -> Content], NEW c \in Nat, c < Cap[k],
           NEW n \in Nat, NEW x, NEW i \in 0..(StoredCount(k, c, n) - 1)
    PROVE  Stored(k, b, c, n, x)[i] = x \/ (i < c /\ Stored(k, b, c, n, x)[i] = b[i])
<1>1. Cap[k] \in Nat
  BY ConstantsAssumption DEF ConstantsAssumption
<1>2. StoredCount(k, c, n) \in Nat /\ StoredCount(k, c, n) < Cap[k]
  BY StoredCountType
<1>3. i \in Slots /\ i \in Nat
  BY <1>1, <1>2 DEF Slots
<1>4. CASE i < c
  BY <1>3, <1>4, StoredFrom
<1>5. CASE ~(i < c)
  <2>1. i \in c..(StoredCount(k, c, n) - 1)
    BY <1>2, <1>3, <1>5
  <2>2. QED
    BY <1>3, <2>1 DEF Stored
<1>6. QED
  BY <1>4, <1>5

\* Arrays that store one more thing x in one place hold what they held, and x.
LEMMA LiveFrom ==
    ASSUME HandoffInv, NEW k \in Kinds, NEW n \in Nat, NEW x,
           buf' = [buf EXCEPT ![k] = Stored(k, buf[k], count[k], n, x)],
           count' = [count EXCEPT ![k] = StoredCount(k, count[k], n)]
    PROVE  Live' \subseteq Live \cup {x}
<1> SUFFICES ASSUME NEW y \in Live', y # x PROVE y \in Live
  OBVIOUS
<1>1. /\ buf \in [Kinds -> [Slots -> Content]] /\ count \in [Kinds -> Nat]
      /\ \A j \in Kinds : count[j] < Cap[j]
  BY DEF HandoffInv, TypeOK
<1>2. PICK j \in Kinds : y \in Prefix(buf'[j], count'[j])
  BY DEF Live
<1>3. PICK i \in 0..(count'[j] - 1) : y = buf'[j][i]
  BY <1>2 DEF Prefix
<1>4. CASE j = k
  <2>1. i \in 0..(StoredCount(k, count[k], n) - 1) /\ y = Stored(k, buf[k], count[k], n, x)[i]
    BY <1>1, <1>3, <1>4
  <2>2. i < count[k] /\ y = buf[k][i]
    BY <1>1, <2>1, StoredCounted
  <2>3. i \in 0..(count[k] - 1)
    BY <1>1, <1>3, <2>2
  <2>4. y \in Prefix(buf[k], count[k])
    BY <2>2, <2>3 DEF Prefix
  <2>5. QED
    BY <2>4 DEF Live
<1>5. CASE j # k
  <2>1. y \in Prefix(buf[j], count[j])
    BY <1>1, <1>2, <1>5
  <2>2. QED
    BY <2>1 DEF Live
<1>6. QED
  BY <1>4, <1>5

\* A hook adds its item to what is captured.
LEMMA CaptureLive ==
    ASSUME HandoffInv, NEW k \in Kinds, Capture(k)
    PROVE  Live' \subseteq Live \cup {next}
BY LiveFrom DEF Capture

\* A frame whose arrays store one more thing x holds what it held, and x.
LEMMA FrameFrom ==
    ASSUME HandoffInv, NEW k \in Kinds, NEW c, NEW n, NEW x, NEW b,
           b = [buf EXCEPT ![k] = Stored(k, buf[k], c, n, x)]
    PROVE  FrameItems(b) \subseteq FrameItems(buf) \cup {x}
<1> SUFFICES ASSUME NEW y \in FrameItems(b), y # x PROVE y \in FrameItems(buf)
  OBVIOUS
<1>1. buf \in [Kinds -> [Slots -> Content]] /\ frameCount \in [Kinds -> Nat]
      /\ \A j \in Kinds : frameCount[j] < Cap[j] /\ Cap[j] \in Nat
  BY ConstantsAssumption DEF ConstantsAssumption, HandoffInv, TypeOK
<1>2. PICK j \in Kinds : y \in Prefix(b[j], frameCount[j])
  BY DEF FrameItems
<1>3. PICK i \in 0..(frameCount[j] - 1) : y = b[j][i]
  BY <1>2 DEF Prefix
<1>4. i \in Slots
  BY <1>1, <1>3 DEF Slots
<1>5. y = buf[j][i]
  BY <1>1, <1>3, <1>4, StoredFrom
<1>6. y \in Prefix(buf[j], frameCount[j])
  BY <1>3, <1>5 DEF Prefix
<1>7. QED
  BY <1>6 DEF FrameItems

\* A write adds ambient messages to what is captured.
LEMMA WriteLive ==
    ASSUME HandoffInv, TvWrite
    PROVE  /\ Live' \subseteq Live \cup {Ambient}
           /\ FrameItems(BufAfterAmbients) \subseteq FrameItems(buf) \cup {Ambient}
<1>1. "msg" \in Kinds /\ Ambients \in Nat
  BY ConstantsAssumption DEF ConstantsAssumption
<1>3. CASE ~AmbientsSent
  BY <1>3 DEF TvWrite, BufAfterAmbients, CountAfterAmbients, Live
<1>4. CASE AmbientsSent
  <2>1. BufAfterAmbients
          = [buf EXCEPT !["msg"] = Stored("msg", buf["msg"], count["msg"], Ambients, Ambient)]
    BY <1>4 DEF BufAfterAmbients
  <2>2. count' = [count EXCEPT !["msg"] = StoredCount("msg", count["msg"], Ambients)]
    BY <1>4 DEF TvWrite, CountAfterAmbients
  <2>3. Live' \subseteq Live \cup {Ambient}
    BY <1>1, <2>1, <2>2, LiveFrom DEF TvWrite
  <2>6. \A b : b = [buf EXCEPT !["msg"] = Stored("msg", buf["msg"], count["msg"], Ambients, Ambient)]
          => FrameItems(b) \subseteq FrameItems(buf) \cup {Ambient}
    BY <1>1, FrameFrom
  <2>4. FrameItems(BufAfterAmbients) \subseteq FrameItems(buf) \cup {Ambient}
    BY <2>1, <2>6
  <2>5. QED
    BY <2>3, <2>4
<1>5. QED
  BY <1>3, <1>4

\* Writing into the element behind the counted ones changes none of those.
LEMMA LiveUncounted ==
    ASSUME HandoffInv, NEW x,
           buf' = [buf EXCEPT !["msg"][count["msg"]] = x], count' = count
    PROVE  Live' = Live
<1>1. buf \in [Kinds -> [Slots -> Content]] /\ count \in [Kinds -> Nat]
  BY DEF HandoffInv, TypeOK
<1>2. \A k \in Kinds : Prefix(buf'[k], count'[k]) = Prefix(buf[k], count[k])
  BY <1>1 DEF Prefix
<1>3. QED
  BY <1>2 DEF Live

\* Counting that element up adds it.
LEMMA LiveCounted ==
    ASSUME HandoffInv, buf' = buf,
           count' = [count EXCEPT !["msg"] = StoredCount("msg", count["msg"], 1)]
    PROVE  Live' \subseteq Live \cup {buf["msg"][count["msg"]]}
<1>1. /\ "msg" \in Kinds /\ Cap["msg"] \in Nat
      /\ count \in [Kinds -> Nat] /\ count["msg"] < Cap["msg"]
  BY ConstantsAssumption DEF ConstantsAssumption, HandoffInv, TypeOK
<1>2. count'["msg"] \in {count["msg"], count["msg"] + 1}
  BY <1>1 DEF StoredCount
<1>3. \A k \in Kinds : k # "msg" => count'[k] = count[k]
  BY <1>1
<1>4. ASSUME NEW y \in Live' PROVE y \in Live \cup {buf["msg"][count["msg"]]}
  <2>1. PICK k \in Kinds : y \in Prefix(buf[k], count'[k])
    BY <1>4 DEF Live
  <2>2. PICK i \in 0..(count'[k] - 1) : y = buf[k][i]
    BY <2>1 DEF Prefix
  <2>3. i \in 0..(count[k] - 1) \/ (k = "msg" /\ i = count["msg"])
    BY <1>1, <1>2, <1>3, <2>2
  <2>4. CASE i \in 0..(count[k] - 1)
    <3>1. y \in Prefix(buf[k], count[k])
      BY <2>2, <2>4 DEF Prefix
    <3>2. QED
      BY <3>1 DEF Live
  <2>5. QED
    BY <2>2, <2>3, <2>4
<1>5. QED
  BY <1>4

\* A copy holds what was captured and leaves nothing behind.
LEMMA CopyItems ==
    ASSUME HandoffInv, CopyFrame
    PROVE  FrameItems(FrameArrays)' \subseteq Live /\ Live' = {}
<1>1. /\ buf \in [Kinds -> [Slots -> Content]] /\ count \in [Kinds -> Nat]
      /\ \A k \in Kinds : count[k] < Cap[k] /\ Cap[k] \in Nat
  BY ConstantsAssumption DEF ConstantsAssumption, HandoffInv, TypeOK
<1>2. Live' = {}
  <2>1. \A k \in Kinds : count'[k] = 0
    BY DEF CopyFrame, ClearedCounts
  <2>2. \A k \in Kinds : 0..(count'[k] - 1) = {}
    BY <2>1
  <2>3. QED
    BY <2>2 DEF Live, Prefix
<1>3. ASSUME NEW x \in FrameItems(FrameArrays)' PROVE x \in Live
  <2>1. PICK k \in Kinds : x \in Prefix(FrameArrays'[k], frameCount'[k])
    BY DEF FrameItems
  <2>2. frameCount'[k] = count[k]
    BY DEF CopyFrame
  <2>3. PICK i \in 0..(count[k] - 1) : x = FrameArrays'[k][i]
    BY <2>1, <2>2 DEF Prefix
  <2>4. i \in Slots /\ i < count[k]
    BY <1>1, <2>3 DEF Slots
  <2>5. FrameArrays'[k][i] = buf[k][i]
    <3>1. CASE SingleThread
      BY <3>1 DEF CopyFrame, FrameArrays
    <3>2. CASE ~SingleThread
      BY <2>4, <3>2 DEF CopyFrame, FrameArrays
    <3>3. QED
      BY <3>1, <3>2
  <2>6. x \in Prefix(buf[k], count[k])
    BY <2>3, <2>5 DEF Prefix
  <2>7. QED
    BY <2>6 DEF Live
<1>4. QED
  BY <1>2, <1>3

\* Changelevel takes messages away and adds nothing.
LEMMA ChangelevelLive ==
    ASSUME HandoffInv, Changelevel
    PROVE  Live' \subseteq Live
<1> SUFFICES ASSUME NEW x \in Live' PROVE x \in Live
  OBVIOUS
<1>1. buf' = buf /\ count \in [Kinds -> Nat]
      /\ count' = [count EXCEPT !["msg"] = 0]
  BY DEF Changelevel, HandoffInv, TypeOK
<1>2. PICK k \in Kinds : x \in Prefix(buf[k], count'[k])
  BY <1>1 DEF Live
<1>3. PICK i \in 0..(count'[k] - 1) : x = buf[k][i]
  BY <1>2 DEF Prefix
<1>4. k # "msg"
  BY <1>1, <1>3
<1>5. x \in Prefix(buf[k], count[k])
  BY <1>1, <1>2, <1>4
<1>6. QED
  BY <1>5 DEF Live

-----------------------------------------------------------------------------
(* With a recorder thread, no item is written twice *)

\* What is captured and what is in flight is not in the file, and what is
\* captured is not in flight; the next item is in none of them.
Apart ==
    /\ again = {}
    /\ \A x \in (Live \cup FrameItems(FrameArrays) \cup file) \cap Item : x < next
    /\ Live \cap file \cap Item = {}
    /\ copyState = "FINISHED" =>
         FrameItems(FrameArrays) \cap (file \cup Live) \cap Item = {}

\* An ambient sound that nothing interferes with fills the element it counts up.
AmbientWhole ==
    /\ overlapped = {}
    /\ pcTv = "ambBody" /\ logging => buf["msg"][count["msg"]] = -Ambient
    /\ pcTv = "ambEnd" /\ logging => buf["msg"][count["msg"]] \notin Item
    /\ pcTv = "ambStore" =>
         buf["msg"][count["msg"]] \notin Item /\ own["recorder"] = count["msg"]

OnceInv == ~raced => Apart /\ AmbientWhole

\* At first there are no items.
LEMMA InitOnce == Init => OnceInv
<1> SUFFICES ASSUME Init PROVE OnceInv
  OBVIOUS
<1>1. \A k \in Kinds : 0..(count[k] - 1) = {} /\ 0..(frameCount[k] - 1) = {}
  BY DEF Init
<1>2. Live = {} /\ FrameItems(FrameArrays) = {}
  BY <1>1 DEF Live, FrameItems, Prefix
<1>3. QED
  BY <1>2 DEF Init, OnceInv, Apart, AmbientWhole

\* What the two threads share only grows.
LEMMA NextRaced ==
    ASSUME HandoffInv, [Next]_vars, ~raced'
    PROVE  ~raced
<1> USE DEF HandoffInv, TypeOK
<1>1. ASSUME NEW k \in Kinds, Capture(k) PROVE ~raced
  BY <1>1 DEF Capture, msgVars
<1>2. CASE ToggleDemo \/ ReplayDemo \/ Changelevel \/ MapInitHook
  BY <1>2 DEF ToggleDemo, ReplayDemo, Changelevel, MapInitHook, msgVars
<1>3. CASE StartFrameHook \/ think_mainThread \/ CopyFrame \/ Tick \/ UNCHANGED vars
  BY <1>3 DEF StartFrameHook, think_mainThread, CopyFrame, Tick, vars, msgVars
<1>4. CASE ServerMessage
  BY <1>4 DEF ServerMessage, MessageBegin, MessageIgnored, MessageBody, MessageEnd, MessageStore, msgVars
<1>5. CASE AmbientMessage
  BY <1>5 DEF AmbientMessage, TvAmbients, AmbientBegin, AmbientBody, AmbientEnd, AmbientStore, msgVars
<1>6. CASE \/ TvWait \/ TvLoad \/ TvNotRecording \/ TvOpenFails \/ TvOpen
           \/ TvTooBig \/ TvNotDue \/ TvWrite
  BY <1>6 DEF TvWait, TvLoad, TvNotRecording, TvOpenFails, TvOpen, TvTooBig, TvNotDue, TvWrite, msgVars
<1>7. QED
  BY <1>1, <1>2, <1>3, <1>4, <1>5, <1>6
     DEF Next, Hooks, MainThread, TvThread, ServerMessage, AmbientMessage

\* Nothing interferes: the server thread touches no message meanwhile.
LEMMA NextAmbient ==
    ASSUME HandoffInv, WholeInv, AmbientWhole, [Next]_vars, ~raced, ~raced', ~SingleThread
    PROVE  AmbientWhole'
<1> USE DEF HandoffInv
<1>0. /\ "msg" \in Kinds /\ Cap["msg"] \in Nat /\ MaxItems \in Nat
      /\ count["msg"] \in Nat /\ count["msg"] < Cap["msg"]
      /\ buf \in [Kinds -> [Slots -> Content]] /\ count \in [Kinds -> Nat]
      /\ own \in [{"server", "recorder"} -> Nat]
  BY ConstantsAssumption DEF ConstantsAssumption, TypeOK
<1>1. count["msg"] \in Slots /\ Ambient \notin Item /\ 0 \notin Item /\ Ambient \in Nat
  BY <1>0 DEF Slots, Ambient, Item
<1>2. pcMain \in Capturing => pcTv \notin Sending
  BY DEF WholeInv, AmbientWhole
<1>3. ASSUME pcTv' \notin Sending \/ pcTv' = "ambient", overlapped' = {} PROVE AmbientWhole'
  BY <1>3 DEF AmbientWhole, Sending
<1>4. ASSUME UNCHANGED <<pcTv, logging, own, overlapped>>,
             buf'["msg"] = buf["msg"], count'["msg"] = count["msg"]
      PROVE  AmbientWhole'
  BY <1>4 DEF AmbientWhole
<1>5. ASSUME NEW k \in Kinds, Capture(k) PROVE AmbientWhole'
  BY <1>0, <1>4, <1>5 DEF Capture, msgVars
<1>6. CASE ToggleDemo \/ ReplayDemo \/ MapInitHook \/ StartFrameHook \/ think_mainThread \/ Tick
  BY <1>4, <1>6 DEF ToggleDemo, ReplayDemo, MapInitHook, StartFrameHook, think_mainThread, Tick, captureVars, msgVars
<1>7. CASE Changelevel
  BY <1>3, <1>7 DEF Changelevel, AmbientWhole
<1>8. CASE CopyFrame
  <2>1. pcTv \notin Sending /\ UNCHANGED <<pcTv, overlapped>>
    BY <1>8 DEF CopyFrame, TurnInv, TvBusy, msgVars
  <2>2. QED
    BY <1>3, <2>1 DEF AmbientWhole
<1>9. CASE MessageBegin
  BY <1>3, <1>9 DEF MessageBegin, AmbientWhole
<1>10. CASE MessageIgnored
  BY <1>10 DEF MessageIgnored, AmbientWhole, captureVars
<1>11. CASE MessageBody \/ MessageEnd \/ MessageStore
  BY <1>2, <1>3, <1>11 DEF MessageBody, MessageEnd, MessageStore, AmbientWhole, Capturing, msgVars
<1>12. CASE TvAmbients
  BY <1>3, <1>12 DEF TvAmbients, AmbientWhole
<1>13. CASE AmbientBegin
  BY <1>0, <1>1, <1>13 DEF AmbientBegin, Begun, AmbientWhole
<1>14. CASE AmbientBody
  BY <1>0, <1>1, <1>14 DEF AmbientBody, Written, AmbientWhole, msgVars
<1>15. CASE AmbientEnd
  BY <1>0, <1>15 DEF AmbientEnd, AmbientWhole, captureVars
<1>16. CASE AmbientStore
  BY <1>3, <1>16 DEF AmbientStore, AmbientWhole
<1>17. CASE \/ TvWait \/ TvLoad \/ TvNotRecording \/ TvOpenFails \/ TvOpen
            \/ TvTooBig \/ TvNotDue \/ TvWrite
  <2>1. overlapped' = {}
    BY <1>17 DEF TvWait, TvLoad, TvNotRecording, TvOpenFails, TvOpen, TvTooBig, TvNotDue, TvWrite, AmbientWhole, msgVars
  <2>2. pcTv' \notin Sending
    BY <1>17 DEF TvWait, TvLoad, TvNotRecording, TvOpenFails, TvOpen, TvTooBig, TvNotDue, TvWrite, TvReturn, Sending
  <2>3. QED
    BY <1>3, <2>1, <2>2
<1>18. CASE UNCHANGED vars
  BY <1>4, <1>18 DEF vars, captureVars, msgVars
<1>19. QED
  BY <1>5, <1>6, <1>7, <1>8, <1>9, <1>10, <1>11, <1>12, <1>13, <1>14, <1>15, <1>16, <1>17, <1>18
     DEF Next, Hooks, MainThread, TvThread

\* Every step of the mode with a thread keeps the items apart.
LEMMA NextApart ==
    ASSUME HandoffInv, WholeInv, AmbientWhole, Apart, [Next]_vars, ~raced', ~SingleThread
    PROVE  Apart'
<1>0. next \in 1..(MaxItems + 1) /\ MaxItems \in Nat /\ (FrameArrays = frame) /\ FrameArrays' = frame'
  BY ConstantsAssumption DEF ConstantsAssumption, HandoffInv, TypeOK, FrameArrays
<1>a. ASSUME NEW x, Live' \subseteq Live \cup {x}, x \notin Item \/ x = next,
             x \in Item => next' = next + 1, next' \in {next, next + 1},
             UNCHANGED <<frame, frameCount, copyState, again, file>>
      PROVE  Apart'
  <2>1. FrameItems(FrameArrays)' = FrameItems(FrameArrays)
    BY <1>0, <1>a DEF FrameItems
  <2>2. next \in Item => next \notin file \cup FrameItems(FrameArrays)
    BY <1>0 DEF Apart
  <2>3. QED
    BY <1>0, <1>a, <2>1, <2>2 DEF Apart, Item
<1>b. ASSUME Live' = Live, UNCHANGED <<next, frame, frameCount, copyState, again, file>>
      PROVE  Apart'
  BY <1>b DEF Apart, FrameItems, FrameArrays
<1>1. ASSUME NEW k \in Kinds, Capture(k) PROVE Apart'
  <2>1. Live' \subseteq Live \cup {next}
    BY <1>1, CaptureLive
  <2>2. QED
    BY <1>0, <1>1, <1>a, <2>1 DEF Capture, handVars, fileVars
<1>2. CASE ToggleDemo \/ ReplayDemo \/ MapInitHook \/ StartFrameHook \/ think_mainThread
           \/ TvWait \/ TvLoad \/ TvNotRecording \/ TvOpenFails \/ TvTooBig \/ TvNotDue
           \/ Tick \/ UNCHANGED vars
  <2>1. UNCHANGED <<buf, count, next, frame, frameCount, copyState, again, file>>
    BY <1>2 DEF ToggleDemo, ReplayDemo, MapInitHook, StartFrameHook, think_mainThread, TvWait, TvLoad, TvNotRecording, TvOpenFails, TvTooBig, TvNotDue, Tick, vars, captureVars, handVars, fileVars
  <2>2. QED
    BY <1>b, <2>1 DEF Live
<1>4. CASE Changelevel
  BY <1>4, ChangelevelLive DEF Changelevel, Apart, FrameItems, FrameArrays, handVars, fileVars
<1>8. CASE CopyFrame
  <2>1. FrameItems(FrameArrays)' \subseteq Live /\ Live' = {}
    BY <1>8, CopyItems
  <2>2. UNCHANGED <<again, file, next>>
    BY <1>8 DEF CopyFrame, fileVars
  <2>3. QED
    BY <2>1, <2>2 DEF Apart
<1>13. CASE TvOpen
  <2>1. UNCHANGED <<Live, FrameItems(FrameArrays), next, copyState>>
    BY <1>13 DEF TvOpen, Live, FrameItems, FrameArrays, captureVars, handVars
  <2>2. (file' = file /\ again' = again) \/ (file' = {} /\ again' = {})
    BY <1>13 DEF TvOpen, fileVars
  <2>3. QED
    BY <2>1, <2>2 DEF Apart
<1>16. CASE TvWrite
  <2>1. copyState = "FINISHED" /\ copyState' = "REQUESTED"
    BY <1>16 DEF TvWrite, HandoffInv, TurnInv, TvBusy, Sending, WantMoreData
  <2>2. UNCHANGED <<FrameItems(FrameArrays), next>>
    BY <1>16, <1>0 DEF TvWrite, FrameItems
  <2>3. /\ file' = file \cup FrameItems(FrameArrays)
        /\ again' = again \cup (file \cap FrameItems(FrameArrays) \cap Item)
    BY <1>16, <1>0 DEF TvWrite
  <2>4. Live' \subseteq Live \cup {Ambient} /\ Ambient \notin Item
    BY <1>16, <1>0, WriteLive DEF Ambient, Item
  <2>5. QED
    BY <2>1, <2>2, <2>3, <2>4 DEF Apart
<1>17. CASE MessageBegin \/ MessageBody \/ AmbientBegin \/ AmbientBody
  <2>1. UNCHANGED <<count, next, frame, frameCount, copyState, again, file>>
    BY <1>17 DEF MessageBegin, MessageBody, AmbientBegin, AmbientBody, handVars, fileVars
  <2>2. \/ buf' = buf
        \/ \E x \in {next, Ambient} : buf' = Begun(x) \/ buf' = Written(x)
    BY <1>17 DEF MessageBegin, MessageBody, AmbientBegin, AmbientBody
  <2>3. buf' = buf \/ \E y : buf' = [buf EXCEPT !["msg"][count["msg"]] = y]
    BY <2>2 DEF Begun, Written
  <2>4. Live' = Live
    BY <2>1, <2>3, LiveUncounted DEF Live
  <2>5. QED
    BY <1>b, <2>1, <2>4
<1>18. CASE MessageIgnored \/ TvAmbients \/ AmbientEnd
  <2>1. UNCHANGED <<buf, count, next, frame, frameCount, copyState, again, file>>
    BY <1>18 DEF MessageIgnored, TvAmbients, AmbientEnd, captureVars, handVars, fileVars
  <2>2. QED
    BY <1>b, <2>1 DEF Live
<1>19. CASE MessageEnd
  <2>1. logging
    BY <1>19 DEF MessageEnd, WholeInv, AmbientWhole, Capturing
  <2>2. QED
    BY <1>b, <1>19, <2>1 DEF MessageEnd, Live, handVars, fileVars
<1>20. CASE MessageStore
  <2>1. own["server"] = count["msg"] /\ buf["msg"][count["msg"]] = next
    BY <1>20 DEF MessageStore, WholeInv, AmbientWhole, Capturing
  <2>2. Live' \subseteq Live \cup {next}
    BY <1>20, <2>1, LiveCounted DEF MessageStore
  <2>3. QED
    BY <1>0, <1>a, <1>20, <2>2 DEF MessageStore, handVars, fileVars
<1>21. CASE AmbientStore
  <2>1. own["recorder"] = count["msg"] /\ buf["msg"][count["msg"]] \notin Item
    BY <1>21 DEF AmbientStore, AmbientWhole
  <2>2. Live' \subseteq Live \cup {buf["msg"][count["msg"]]}
    BY <1>21, <2>1, LiveCounted DEF AmbientStore
  <2>3. QED
    BY <1>0, <1>a, <1>21, <2>1, <2>2 DEF AmbientStore, handVars, fileVars
<1>22. QED
  BY <1>1, <1>2, <1>4, <1>8, <1>13, <1>16, <1>17, <1>18, <1>19, <1>20, <1>21
     DEF Next, Hooks, MainThread, TvThread

\* With a recorder thread, no captured item is written to a file twice, though
\* the thread and the hooks share the frame through edictCopyState alone; that is,
\* while the ambient sounds (DemoWriter.cpp:642) meet no message of the server.
THEOREM WrittenOnce == ASSUME ~SingleThread PROVE Spec => []AtMostOnce
<1>1. HandoffInv /\ WholeInv /\ OnceInv /\ [Next]_vars
        => HandoffInv' /\ WholeInv' /\ OnceInv'
  BY NextHandoff, NextWhole, NextRaced, NextAmbient, NextApart DEF OnceInv
<1>2. OnceInv => AtMostOnce
  BY DEF OnceInv, Apart, AtMostOnce
<1>3. Init => WholeInv
  BY DEF Init, WholeInv, Capturing
<1>4. QED
  BY InitHandoff, InitOnce, <1>1, <1>2, <1>3, PTL DEF Spec

-----------------------------------------------------------------------------
(* In single thread mode, only older counts repeat an item, and items of an *)
(* earlier map are soon gone                                                *)

Older(x) == x \in Item /\ x < mapStart

\* After one copy on a map the arrays hold no older items, after two the counted
\* part of the frame holds none.
AgeInv ==
    /\ mapStart <= next
    /\ copies >= 1 => \A x \in Live : ~Older(x)
    /\ copies >= 2 => \A x \in FrameItems(FrameArrays) : ~Older(x)

\* What is captured is in the file only where older counts wrote it; between a
\* copy and its write nothing is captured.
RepeatInv ==
    /\ again \subseteq older
    /\ \A x \in (Live \cup FrameItems(FrameArrays) \cup file) \cap Item : x < next
    /\ Live \cap file \cap Item \subseteq older
    /\ pcMain = "callNew" =>
         Live = {} /\ FrameItems(FrameArrays) \cap file \cap Item \subseteq older

\* At first there are no items.
LEMMA InitAge == Init => AgeInv /\ RepeatInv
<1> SUFFICES ASSUME Init PROVE AgeInv /\ RepeatInv
  OBVIOUS
<1>1. \A k \in Kinds : 0..(count[k] - 1) = {} /\ 0..(frameCount[k] - 1) = {}
  BY DEF Init
<1>2. Live = {} /\ FrameItems(FrameArrays) = {}
  BY <1>1 DEF Live, FrameItems, Prefix
<1>3. QED
  BY <1>2 DEF Init, AgeInv, RepeatInv

\* Every step of the single thread mode keeps both.
LEMMA NextAge ==
    ASSUME HandoffInv, AgeInv, RepeatInv, [Next]_vars, SingleThread
    PROVE  AgeInv' /\ RepeatInv'
<1>0. /\ next \in 1..(MaxItems + 1) /\ mapStart \in 1..(MaxItems + 1) /\ MaxItems \in Nat
      /\ copies \in 0..2 /\ Ambient \notin Item
      /\ FrameArrays = buf /\ FrameArrays' = buf'
  BY ConstantsAssumption DEF ConstantsAssumption, HandoffInv, TypeOK, FrameArrays, Ambient, Item
<1>1. ASSUME NEW k \in Kinds, Capture(k) PROVE AgeInv' /\ RepeatInv'
  <2>1. next' = next + 1 /\ UNCHANGED <<mapStart, copies, again, older, file>> /\ pcMain' = "idle"
    BY <1>1 DEF Capture, mapVars, fileVars
  <2>2. Live' \subseteq Live \cup {next}
    BY <1>1, CaptureLive
  <2>9. \A b : b = [buf EXCEPT ![k] = Stored(k, buf[k], count[k], 1, next)]
          => FrameItems(b) \subseteq FrameItems(buf) \cup {next}
    BY <1>1, FrameFrom
  <2>3. FrameItems(buf') \subseteq FrameItems(buf) \cup {next}
    BY <1>1, <2>9 DEF Capture
  <2>4. FrameItems(FrameArrays)' = FrameItems(buf')
    BY <1>0, <1>1 DEF Capture, FrameItems, handVars
  <2>5. next \notin file
    BY <1>0, <1>1 DEF Capture, RepeatInv, Item
  <2>6. AgeInv'
    BY <1>0, <2>1, <2>2, <2>3, <2>4 DEF AgeInv, Older
  <2>7. RepeatInv'
    BY <1>0, <2>1, <2>2, <2>3, <2>4, <2>5 DEF RepeatInv, Item
  <2>8. QED
    BY <2>6, <2>7
<1>2. CASE ToggleDemo \/ ReplayDemo \/ MapInitHook \/ StartFrameHook \/ think_mainThread
           \/ TvWait \/ TvLoad \/ TvNotRecording \/ TvOpenFails \/ TvTooBig \/ TvNotDue
           \/ Tick \/ UNCHANGED vars
  <2>1. /\ UNCHANGED <<buf, count, next, frameCount, mapStart, copies, again, older, file>>
        /\ pcMain' = "callNew" => pcMain = "callNew"
    BY <1>2 DEF ToggleDemo, ReplayDemo, MapInitHook, StartFrameHook, think_mainThread, TvWait, TvLoad, TvNotRecording, TvOpenFails, TvTooBig, TvNotDue, TvReturn, Tick, vars, captureVars, mapVars, handVars, fileVars
  <2>2. UNCHANGED <<Live, FrameItems(FrameArrays)>>
    BY <1>0, <2>1 DEF Live, FrameItems
  <2>3. QED
    BY <2>1, <2>2 DEF AgeInv, RepeatInv, Older
<1>4. CASE Changelevel
  <2>1. Live' \subseteq Live /\ FrameItems(FrameArrays)' = FrameItems(FrameArrays)
    BY <1>0, <1>4, ChangelevelLive DEF Changelevel, FrameItems, handVars
  <2>2. AgeInv'
    BY <1>0, <1>4 DEF Changelevel, AgeInv
  <2>3. RepeatInv'
    BY <1>4, <2>1 DEF Changelevel, RepeatInv, fileVars
  <2>4. QED
    BY <2>2, <2>3
<1>8. CASE CopyFrame
  <2>1. FrameItems(FrameArrays)' \subseteq Live /\ Live' = {}
    BY <1>8, CopyItems
  <2>2. UNCHANGED <<next, mapStart, again, older, file>>
    BY <1>8 DEF CopyFrame, fileVars
  <2>3. copies' >= 2 => copies >= 1
    BY <1>0, <1>8 DEF CopyFrame
  <2>4. AgeInv'
    BY <1>0, <2>1, <2>2, <2>3 DEF AgeInv, Older
  <2>5. RepeatInv'
    BY <2>1, <2>2 DEF RepeatInv
  <2>6. QED
    BY <2>4, <2>5
<1>13. CASE TvOpen
  <2>1. UNCHANGED <<Live, FrameItems(FrameArrays), next, mapStart, copies, pcMain>>
    BY <1>13 DEF TvOpen, Live, FrameItems, FrameArrays, captureVars, mapVars, handVars
  <2>2. \/ file' = file /\ again' = again /\ older' = older
        \/ file' = {} /\ again' = {} /\ older' = {}
    BY <1>13 DEF TvOpen, fileVars
  <2>3. QED
    BY <2>1, <2>2 DEF AgeInv, RepeatInv, Older
<1>16. CASE TvWrite
  <2>1. pcMain \in Calls /\ pcMain' = "idle"
    BY <1>16 DEF TvWrite, TvReturn, HandoffInv, TurnInv, TvBusy, Sending
  <2>2. UNCHANGED <<next, mapStart, copies>>
    BY <1>16 DEF TvWrite, mapVars
  <2>3. Live' \subseteq Live \cup {Ambient}
    BY <1>16, WriteLive
  <2>4. PICK items : items = FrameItems(BufAfterAmbients)
    OBVIOUS
  <2>5. /\ items \subseteq FrameItems(buf) \cup {Ambient}
        /\ FrameItems(FrameArrays)' = items
    BY <1>0, <1>16, <2>4, WriteLive DEF TvWrite, FrameItems
  <2>6. /\ file' = file \cup items
        /\ again' = again \cup (file \cap items \cap Item)
        /\ older' = IF pcMain = "callOld" THEN older \cup items ELSE older
    BY <1>16, <2>4 DEF TvWrite
  <2>7. AgeInv'
    BY <1>0, <2>2, <2>3, <2>5 DEF AgeInv, Older
  <2>11. \A x \in (Live' \cup FrameItems(FrameArrays)' \cup file') \cap Item : x < next'
    BY <1>0, <2>2, <2>3, <2>5, <2>6 DEF RepeatInv
  <2>8. CASE pcMain = "callOld"
    <3>1. older' = older \cup items
      BY <2>6, <2>8
    <3>2. again' \subseteq older'
      BY <2>6, <3>1 DEF RepeatInv
    <3>3. Live' \cap file' \cap Item \subseteq older'
      BY <1>0, <2>3, <2>6, <3>1 DEF RepeatInv
    <3>4. pcMain' # "callNew"
      BY <2>1
    <3>5. QED
      BY <2>7, <2>11, <3>2, <3>3, <3>4 DEF RepeatInv
  <2>9. CASE pcMain = "callNew"
    <3>1. /\ older' = older /\ Live' \subseteq {Ambient}
          /\ FrameItems(buf) \cap file \cap Item \subseteq older
      BY <1>0, <2>3, <2>6, <2>9 DEF RepeatInv
    <3>2. again' \subseteq older'
      BY <1>0, <2>5, <2>6, <3>1 DEF RepeatInv
    <3>3. Live' \cap file' \cap Item \subseteq older'
      BY <1>0, <3>1
    <3>4. pcMain' # "callNew"
      BY <2>1
    <3>5. QED
      BY <2>7, <2>11, <3>2, <3>3, <3>4 DEF RepeatInv
  <2>10. QED
    BY <2>1, <2>7, <2>8, <2>9 DEF Calls
<1>17. CASE Messages
  BY <1>17, OneThread
<1>19. QED
  BY <1>1, <1>2, <1>4, <1>8, <1>13, <1>16, <1>17
     DEF Next, Hooks, MainThread, TvThread, Messages, ServerMessage, AmbientMessage

\* In single thread mode an item is in a file twice only if a write with the
\* counts of an older copy wrote it (SvenTV.cpp:87, :131, DemoWriter.cpp:632).
THEOREM OnlyOlderRepeats == ASSUME SingleThread PROVE Spec => []RepeatsFromOlder
<1>1. HandoffInv /\ AgeInv /\ RepeatInv /\ [Next]_vars
        => HandoffInv' /\ AgeInv' /\ RepeatInv'
  BY NextHandoff, NextAge
<1>2. RepeatInv => RepeatsFromOlder
  BY DEF RepeatInv, RepeatsFromOlder
<1>3. QED
  BY InitHandoff, InitAge, <1>1, <1>2, PTL DEF Spec

\* In single thread mode commands and events of the old map, which Changelevel
\* leaves in their arrays (main.cpp:153), are in no frame that is written after
\* the second copy made on the new map.
THEOREM OldItemsGone == ASSUME SingleThread PROVE Spec => OldMapItems
<1>1. ASSUME HandoffInv, AgeInv, RepeatInv, [Next]_vars, TvWrite,
             \E i \in FrameItems(FrameArrays)' \cap Item : i < mapStart
      PROVE  copies < 2
  <2>1. AgeInv' /\ UNCHANGED <<mapStart, copies>>
    BY <1>1, NextAge DEF TvWrite, mapVars
  <2>2. PICK i \in FrameItems(FrameArrays)' : i \in Item /\ i < mapStart
    BY <1>1
  <2>3. ~(copies >= 2)
    BY <2>1, <2>2 DEF AgeInv, Older
  <2>4. copies \in 0..2
    BY <1>1 DEF HandoffInv, TypeOK
  <2>5. QED
    BY <2>3, <2>4
<1>2. HandoffInv /\ AgeInv /\ RepeatInv /\ [Next]_vars =>
        (TvWrite /\ (\E i \in FrameItems(FrameArrays)' \cap Item : i < mapStart)
           => copies < 2)
  BY <1>1
<1>3. HandoffInv /\ AgeInv /\ RepeatInv /\ [Next]_vars
        => HandoffInv' /\ AgeInv' /\ RepeatInv'
  BY NextHandoff, NextAge
<1>4. QED
  BY InitHandoff, InitAge, <1>2, <1>3, PTL DEF Spec, OldMapItems
=============================================================================
