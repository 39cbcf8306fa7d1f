--------------------------- MODULE DemoFilesProofs ---------------------------
(***************************************************************************)
(* A recording made in auto mode is never lost, whatever the settings, the *)
(* compression and crashes do.                                             *)
(*                                                                         *)
(* RecordingsKept is not inductive: that the thread writes and removes     *)
(* files without harm depends on what it was started with.  Inv says that  *)
(* of a name of a day, the file is there while it is recorded or           *)
(* compressed, the compressed file is new when the thread makes it, and    *)
(* both hold the same recording when it removes the first.                 *)
(***************************************************************************)
EXTENDS DemoFiles, TLAPS

InDay(path) == path.name.dir = "day"

\* What is kept under the names of days is a recording.
DayRight ==
    \A p \in DOMAIN disk : InDay(p) =>
        /\ disk[p] \in [rec : Nat, ended : BOOLEAN]
        /\ p \in Paths

DayKept ==
    \A r \in recorded : \E p \in DOMAIN disk : InDay(p) /\ disk[p].rec = r

OpenRight ==
    /\ demoFile \in Names \cup {None}
    /\ demoFile.dir = "day" =>
        /\ Demo(demoFile) \in DOMAIN disk
        /\ Xz(demoFile) \notin DOMAIN disk
        /\ job # demoFile

JobRight ==
    /\ job \in Names \cup {None}
    /\ job.dir = "day" => Demo(job) \in DOMAIN disk
    /\ job.dir = "day" /\ jobStep = "compress" => Xz(job) \notin DOMAIN disk
    /\ job.dir = "day" /\ jobStep = "remove" =>
        Xz(job) \in DOMAIN disk /\ disk[Xz(job)].rec = disk[Demo(job)].rec

Inv == recordings \in Nat /\ DayRight /\ DayKept /\ OpenRight /\ JobRight

-----------------------------------------------------------------------------
\* The two paths of a name differ, and lie in the folder of the name.
LEMMA PathFacts ==
    ASSUME NEW n \in Names \cup {None}
    PROVE  /\ n.dir \in {"day", "root", "none"}
           /\ Demo(n).name = n /\ Xz(n).name = n /\ Demo(n) # Xz(n)
           /\ n # None => n \in Names /\ Demo(n) \in Paths /\ Xz(n) \in Paths
           /\ \A m \in Names \cup {None} :
                /\ Demo(m) # Xz(n)
                /\ Demo(m) = Demo(n) => m = n
                /\ Xz(m) = Xz(n) => m = n
<1>1. n.dir \in {"day", "root", "none"}
  BY DEF Names, None
<1>2. \A m \in Names \cup {None} :
        Demo(m).name = m /\ Xz(m).name = m /\ ~Demo(m).xz /\ Xz(m).xz
  BY DEF Demo, Xz
<1>3. n # None => n \in Names /\ Demo(n) \in Paths /\ Xz(n) \in Paths
  BY DEF Demo, Xz, Paths
<1>4. QED
  BY <1>1, <1>2, <1>3

\* Putting a file on the disk changes that file only.
LEMMA PutFacts ==
    ASSUME NEW path, NEW content, disk' = Put(path, content)
    PROVE  /\ DOMAIN disk' = DOMAIN disk \cup {path}
           /\ disk'[path] = content
           /\ \A p \in DOMAIN disk : p # path => disk'[p] = disk[p]
BY DEF Put

\* The end of a recording is written into its own header.
LEMMA EndedFacts ==
    ASSUME NEW content \in [rec : Nat, ended : BOOLEAN]
    PROVE  Ended(content) \in [rec : Nat, ended : BOOLEAN] /\ Ended(content).rec = content.rec
BY DEF Ended

-----------------------------------------------------------------------------
\* At first the disk is empty.
LEMMA FilesInit == Init => Inv
<1> SUFFICES ASSUME Init PROVE Inv
  OBVIOUS
<1>1. None.dir = "none" /\ "none" # "day" /\ DOMAIN disk = {}
  BY DEF Init, None
<1>2. QED
  BY <1>1 DEF Init, Inv, DayRight, DayKept, OpenRight, JobRight

\* A file opened in auto mode is new; one in the root harms no file of a day.
LEMMA OpenKeeps == Inv /\ InitDemoFile => Inv'
<1> SUFFICES ASSUME Inv, InitDemoFile PROVE Inv'
  OBVIOUS
<1>1. recordings' \in Nat
  BY DEF Inv, InitDemoFile
<1>2. PICK name \in Names :
        /\ IsPath(name)
        /\ demoFile' = name
        /\ disk' = Put(Demo(name), [rec |-> recordings', ended |-> FALSE])
  BY DEF InitDemoFile
<1>3. /\ DOMAIN disk' = DOMAIN disk \cup {Demo(name)}
      /\ disk'[Demo(name)] = [rec |-> recordings', ended |-> FALSE]
      /\ \A p \in DOMAIN disk : p # Demo(name) => disk'[p] = disk[p]
  BY <1>2, PutFacts
<1>4. /\ name \in Names \cup {None} /\ name # None
      /\ Demo(name).name = name /\ Demo(name) \in Paths
  <2>1. name.dir # "none" /\ None.dir = "none"
    BY DEF Names, None
  <2>2. QED
    BY <2>1, PathFacts
<1>5. name.dir = "day" => autoMode /\ ~Taken(name)
  BY <1>2, PathFacts DEF IsPath
<1>6. name.dir = "day" => Demo(name) \notin DOMAIN disk /\ Xz(name) \notin DOMAIN disk
  BY <1>5 DEF Taken
<1>7. name.dir # "day" => ~autoMode
  BY <1>2 DEF IsPath
<1>8. DayRight'
  <2> SUFFICES ASSUME NEW p \in DOMAIN disk', InDay(p)
               PROVE  disk'[p] \in [rec : Nat, ended : BOOLEAN] /\ p \in Paths
    BY DEF DayRight, InDay
  <2>1. CASE p = Demo(name)
    <3>1. [rec |-> recordings', ended |-> FALSE] \in [rec : Nat, ended : BOOLEAN]
      BY <1>1
    <3>2. QED
      BY <2>1, <3>1, <1>3, <1>4
  <2>2. CASE p # Demo(name)
    BY <2>2, <1>3 DEF Inv, DayRight
  <2>3. QED
    BY <2>1, <2>2
<1>9. \A p \in DOMAIN disk : InDay(p) => p \in DOMAIN disk' /\ disk'[p] = disk[p]
  BY <1>3, <1>4, <1>6 DEF InDay
<1>10. DayKept'
  <2> SUFFICES ASSUME NEW r \in recorded'
               PROVE  \E p \in DOMAIN disk' : InDay(p) /\ disk'[p].rec = r
    BY DEF DayKept, InDay
  <2>1. CASE r \in recorded
    BY <2>1, <1>9 DEF Inv, DayKept
  <2>2. CASE r \notin recorded
    <3>1. autoMode /\ r = recordings'
      BY <2>2 DEF InitDemoFile
    <3>2. name.dir = "day"
      BY <3>1, <1>7
    <3>3. QED
      BY <3>1, <3>2, <1>3, <1>4 DEF InDay
  <2>3. QED
    BY <2>1, <2>2
<1>11. job' = job /\ jobStep' = jobStep
  BY DEF InitDemoFile, jobVars
<1>12. job \in Names \cup {None} /\ Demo(job).name = job /\ Xz(job).name = job
  BY PathFacts DEF Inv, JobRight
<1>13. OpenRight'
  <2>1. CASE name.dir = "day"
    <3>1. Xz(name) # Demo(name)
      BY <1>4, PathFacts
    <3>2. Xz(name) \notin DOMAIN disk'
      BY <2>1, <3>1, <1>3, <1>6
    <3>3. job # name
      BY <2>1, <1>6 DEF Inv, JobRight
    <3>4. QED
      BY <3>2, <3>3, <1>2, <1>3, <1>4, <1>11 DEF OpenRight
  <2>2. CASE name.dir # "day"
    BY <2>2, <1>2 DEF OpenRight
  <2>3. QED
    BY <2>1, <2>2
<1>14. JobRight'
  <2>1. CASE job.dir = "day"
    <3>1. Xz(job) # Demo(name)
      BY <1>12, <1>4, PathFacts
    <3>2. InDay(Demo(job)) /\ InDay(Xz(job))
      BY <2>1, <1>12 DEF InDay
    <3>3. QED
      BY <2>1, <3>1, <3>2, <1>3, <1>9, <1>11 DEF Inv, JobRight
  <2>2. CASE job.dir # "day"
    BY <2>2, <1>11, <1>12 DEF JobRight
  <2>3. QED
    BY <2>1, <2>2
<1>15. QED
  BY <1>1, <1>8, <1>10, <1>13, <1>14 DEF Inv

\* Closing keeps the recording, and hands a file of a day that is not
\* compressed yet to the thread.
LEMMA CloseKeeps == Inv /\ CloseDemoFile => Inv'
<1> SUFFICES ASSUME Inv, CloseDemoFile PROVE Inv'
  OBVIOUS
<1> DEFINE path == Demo(demoFile)
<1>1. /\ demoFile \in Names \cup {None} /\ demoFile # None /\ path.name = demoFile
      /\ demoFile' = None /\ None.dir = "none" /\ "none" # "day"
  BY PathFacts DEF Inv, OpenRight, CloseDemoFile, None
<1>2. /\ DOMAIN disk' = DOMAIN disk
      /\ \A p \in DOMAIN disk : p # path => disk'[p] = disk[p]
      /\ path \in DOMAIN disk => disk'[path] = Ended(disk[path])
  <2>1. CASE path \in DOMAIN disk
    <3>1. disk' = Put(path, Ended(disk[path]))
      BY <2>1 DEF CloseDemoFile
    <3>2. /\ DOMAIN disk' = DOMAIN disk \cup {path}
          /\ disk'[path] = Ended(disk[path])
          /\ \A p \in DOMAIN disk : p # path => disk'[p] = disk[p]
      BY <3>1, PutFacts
    <3>3. QED
      BY <2>1, <3>2
  <2>2. CASE path \notin DOMAIN disk
    BY <2>2 DEF CloseDemoFile
  <2>3. QED
    BY <2>1, <2>2
<1>5. ASSUME NEW p \in DOMAIN disk, InDay(p)
      PROVE  disk'[p] \in [rec : Nat, ended : BOOLEAN] /\ disk'[p].rec = disk[p].rec
  <2>1. disk[p] \in [rec : Nat, ended : BOOLEAN]
    BY <1>5 DEF Inv, DayRight
  <2>2. disk'[p] = disk[p] \/ disk'[p] = Ended(disk[p])
    BY <1>2
  <2>3. QED
    BY <2>1, <2>2, EndedFacts
<1>6. DayRight'
  BY <1>2, <1>5 DEF Inv, DayRight, InDay
<1>7. DayKept'
  BY <1>2, <1>5 DEF Inv, DayKept, InDay, CloseDemoFile
<1>8. OpenRight'
  BY <1>1 DEF OpenRight
<1>9. JobRight'
  <2>1. CASE UNCHANGED jobVars
    <3>1. job' = job /\ jobStep' = jobStep /\ job \in Names \cup {None}
      BY <2>1 DEF jobVars, Inv, JobRight
    <3>2. CASE job.dir = "day"
      <4>1. InDay(Demo(job)) /\ InDay(Xz(job))
        BY <3>1, <3>2, PathFacts DEF InDay
      <4>2. QED
        BY <3>1, <3>2, <4>1, <1>2, <1>5 DEF Inv, JobRight
    <3>3. CASE job.dir # "day"
      BY <3>1, <3>3 DEF JobRight
    <3>4. QED
      BY <3>2, <3>3
  <2>2. CASE job' = demoFile /\ jobStep' = "compress"
    BY <2>2, <1>1, <1>2 DEF Inv, OpenRight, JobRight
  <2>3. QED
    BY <2>1, <2>2 DEF CloseDemoFile
<1>10. QED
  BY <1>6, <1>7, <1>8, <1>9 DEF Inv, CloseDemoFile

-----------------------------------------------------------------------------
\* The compressed file is new, or no file of a day.
LEMMA XzKeeps ==
    ASSUME Inv, job # None, jobStep = "compress", NEW content,
           content \in [rec : Nat, ended : BOOLEAN] \/ job.dir # "day",
           disk' = Put(Xz(job), content)
    PROVE  /\ \A p \in DOMAIN disk : InDay(p) => p \in DOMAIN disk' /\ disk'[p] = disk[p]
           /\ DOMAIN disk' = DOMAIN disk \cup {Xz(job)} /\ disk'[Xz(job)] = content
           /\ DayRight'
<1>1. /\ DOMAIN disk' = DOMAIN disk \cup {Xz(job)} /\ disk'[Xz(job)] = content
      /\ \A p \in DOMAIN disk : p # Xz(job) => disk'[p] = disk[p]
  BY PutFacts
<1>2. Xz(job).name = job /\ Xz(job) \in Paths
  BY PathFacts DEF Inv, JobRight
<1>3. \A p \in DOMAIN disk : InDay(p) => p \in DOMAIN disk' /\ disk'[p] = disk[p]
  BY <1>1, <1>2 DEF Inv, JobRight, InDay
<1>4. DayRight'
  BY <1>1, <1>2, <1>3 DEF Inv, DayRight, InDay
<1>5. QED
  BY <1>1, <1>3, <1>4

\* The thread's step keeps all files of days and does not touch the open one.
LEMMA CompressKeeps == Inv /\ Compress => Inv'
<1> SUFFICES ASSUME Inv, Compress PROVE Inv'
  OBVIOUS
<1>1. PICK content :
        /\ disk' = Put(Xz(job), content)
        /\ \/ content = disk[Demo(job)] /\ jobStep' = "remove" /\ job' = job
           \/ content = [rec |-> 0, ended |-> FALSE] /\ job' = None /\ jobStep' = jobStep
  BY DEF Compress
<1>2. job \in Names \cup {None} /\ job # None /\ jobStep = "compress"
  BY DEF Compress, Inv, JobRight
<1>3. Demo(job).name = job /\ Xz(job).name = job
  BY <1>2, PathFacts
<1>4. content \in [rec : Nat, ended : BOOLEAN] \/ job.dir # "day"
  <2>1. CASE content = disk[Demo(job)]
    BY <2>1, <1>3 DEF Inv, DayRight, JobRight, InDay
  <2>2. CASE content = [rec |-> 0, ended |-> FALSE]
    BY <2>2
  <2>3. QED
    BY <1>1, <2>1, <2>2
<1>5. /\ \A p \in DOMAIN disk : InDay(p) => p \in DOMAIN disk' /\ disk'[p] = disk[p]
      /\ DOMAIN disk' = DOMAIN disk \cup {Xz(job)} /\ disk'[Xz(job)] = content
      /\ DayRight'
  BY <1>1, <1>2, <1>4, XzKeeps
<1>6. DayKept'
  BY <1>5 DEF Inv, DayKept, Compress, InDay
<1>7. OpenRight'
  <2>1. demoFile' = demoFile /\ demoFile \in Names \cup {None}
    BY DEF Compress, Inv, OpenRight
  <2>2. demoFile.dir = "day" => Xz(demoFile) # Xz(job) /\ job # demoFile
    BY <2>1, <1>2, PathFacts DEF Inv, OpenRight
  <2>3. None.dir = "none" /\ "none" # "day"
    BY DEF None
  <2>4. demoFile.dir = "day" => job' # demoFile
    BY <1>1, <2>2, <2>3
  <2>5. QED
    BY <2>1, <2>2, <2>4, <1>5 DEF Inv, OpenRight
<1>8. JobRight'
  <2>1. CASE content = disk[Demo(job)] /\ jobStep' = "remove" /\ job' = job
    <3>1. CASE job.dir = "day"
      BY <2>1, <3>1, <1>2, <1>3, <1>5 DEF Inv, JobRight, InDay
    <3>2. CASE job.dir # "day"
      BY <2>1, <3>2, <1>2 DEF JobRight
    <3>3. QED
      BY <3>1, <3>2
  <2>2. CASE job' = None
    <3>1. None.dir = "none" /\ "none" # "day"
      BY DEF None
    <3>2. QED
      BY <2>2, <3>1 DEF JobRight
  <2>3. QED
    BY <1>1, <2>1, <2>2
<1>9. QED
  BY <1>5, <1>6, <1>7, <1>8 DEF Inv, Compress

\* What is removed is there under its other path.
LEMMA RemoveKeeps == Inv /\ Remove => Inv'
<1> SUFFICES ASSUME Inv, Remove PROVE Inv'
  OBVIOUS
<1>1. /\ job \in Names \cup {None} /\ job # None /\ jobStep = "remove" /\ job' = None
      /\ None.dir = "none" /\ "none" # "day"
  BY DEF Remove, Inv, JobRight, None
<1>2. Demo(job).name = job /\ Xz(job).name = job /\ Xz(job) # Demo(job)
  BY <1>1, PathFacts
<1>3. /\ DOMAIN disk' = DOMAIN disk \ {Demo(job)}
      /\ \A p \in DOMAIN disk' : disk'[p] = disk[p]
  BY DEF Remove
<1>4. DayRight'
  BY <1>3 DEF Inv, DayRight, InDay
<1>5. DayKept'
  <2> SUFFICES ASSUME NEW r \in recorded
               PROVE  \E p \in DOMAIN disk' : InDay(p) /\ disk'[p].rec = r
    BY DEF DayKept, InDay, Remove
  <2>1. PICK p \in DOMAIN disk : InDay(p) /\ disk[p].rec = r
    BY DEF Inv, DayKept
  <2>2. CASE p # Demo(job)
    BY <2>1, <2>2, <1>3
  <2>3. CASE p = Demo(job)
    <3>1. job.dir = "day"
      BY <2>1, <2>3, <1>2 DEF InDay
    <3>2. Xz(job) \in DOMAIN disk' /\ disk'[Xz(job)].rec = r /\ InDay(Xz(job))
      BY <2>1, <2>3, <3>1, <1>1, <1>2, <1>3 DEF Inv, JobRight, InDay
    <3>3. QED
      BY <3>2
  <2>4. QED
    BY <2>2, <2>3
<1>6. OpenRight'
  <2>1. demoFile' = demoFile /\ demoFile \in Names \cup {None}
    BY DEF Remove, Inv, OpenRight
  <2>2. demoFile.dir = "day" => Demo(demoFile) # Demo(job) /\ job' # demoFile
    BY <2>1, <1>1, PathFacts DEF Inv, OpenRight
  <2>3. QED
    BY <2>1, <2>2, <1>3 DEF Inv, OpenRight
<1>7. JobRight'
  BY <1>1 DEF JobRight
<1>8. QED
  BY <1>4, <1>5, <1>6, <1>7 DEF Inv, Remove

-----------------------------------------------------------------------------
\* A crash leaves the files, and at most begins a compressed one.
LEMMA CrashKeeps == Inv /\ Crash => Inv'
<1> SUFFICES ASSUME Inv, Crash PROVE Inv'
  OBVIOUS
<1>1. /\ job' = None /\ demoFile' = None /\ None.dir = "none" /\ "none" # "day"
  BY DEF Crash, None
<1>2. OpenRight' /\ JobRight'
  BY <1>1 DEF OpenRight, JobRight
<1>3. CASE UNCHANGED disk
  <2>1. DayRight' /\ DayKept'
    BY <1>3 DEF Inv, DayRight, DayKept, Crash, InDay
  <2>2. QED
    BY <2>1, <1>2 DEF Inv, Crash
<1>4. CASE /\ job # None /\ jobStep = "compress"
           /\ disk' = Put(Xz(job), [rec |-> 0, ended |-> FALSE])
  <2>1. /\ \A p \in DOMAIN disk : InDay(p) => p \in DOMAIN disk' /\ disk'[p] = disk[p]
        /\ DayRight'
    BY <1>4, XzKeeps
  <2>2. DayKept'
    BY <2>1 DEF Inv, DayKept, Crash, InDay
  <2>3. QED
    BY <2>1, <2>2, <1>2 DEF Inv, Crash
<1>5. QED
  BY <1>3, <1>4 DEF Crash

\* Every step keeps the invariant.
LEMMA FilesNext == Inv /\ [Next]_vars => Inv'
<1> SUFFICES ASSUME Inv, [Next]_vars PROVE Inv'
  OBVIOUS
<1>1. CASE InitDemoFile
  BY <1>1, OpenKeeps
<1>2. CASE CloseDemoFile
  BY <1>2, CloseKeeps
<1>3. CASE Compress
  BY <1>3, CompressKeeps
<1>4. CASE Remove
  BY <1>4, RemoveKeeps
<1>5. CASE Crash
  BY <1>5, CrashKeeps
<1>6. CASE Settings
  BY <1>6 DEF Settings, Inv, DayRight, DayKept, OpenRight, JobRight, InDay, diskVars, jobVars
<1>7. CASE UNCHANGED vars
  BY <1>7 DEF vars, Inv, DayRight, DayKept, OpenRight, JobRight, InDay, diskVars, jobVars
<1>8. QED
  BY <1>1, <1>2, <1>3, <1>4, <1>5, <1>6, <1>7 DEF Next

\* A recording that was made under a name of its own stays on the disk through
\* every later recording, change of the settings, compression that ends, fails
\* or is cut off, and crash; the settings may change while a file is open.
THEOREM RecordingsStay == Spec => []RecordingsKept
<1>1. Inv => RecordingsKept
  BY DEF Inv, DayKept, RecordingsKept
<1>2. QED
  BY <1>1, FilesInit, FilesNext, PTL DEF Spec

-----------------------------------------------------------------------------
(* While the mode does not change under an open file, the thread never     *)
(* works on the open file, and the end time of a file tells whether a      *)
(* crash cut it off.  For that, recordings have to be told apart: only the *)
(* open file holds the last one, and no crash has cut that off.            *)

Entry == [rec : Nat, ended : BOOLEAN]

\* The files that are not being written.
IsOther(p) == demoFile = None \/ p # Demo(demoFile)

ModeRight ==
    /\ demoFile # None /\ demoFile.dir = "day" => autoMode
    /\ demoFile # None /\ demoFile.dir = "root" => ~autoMode
    /\ job # None => job.dir = "day"

DiskRight ==
    /\ \A p \in DOMAIN disk : p \in Paths /\ disk[p] \in Entry /\ disk[p].rec <= recordings
    /\ \A r \in crashed : r \in Nat /\ r <= recordings

\* The open file holds the last recording, which no other file does.
LastOpen ==
    demoFile # None =>
        /\ Demo(demoFile) \in DOMAIN disk
        /\ disk[Demo(demoFile)] = [rec |-> recordings, ended |-> FALSE]
        /\ recordings \notin crashed
        /\ \A p \in DOMAIN disk : p # Demo(demoFile) => disk[p].rec < recordings

OthersEnded ==
    \A p \in DOMAIN disk :
        IsOther(p) /\ disk[p].rec > 0 => (disk[p].ended <=> disk[p].rec \notin crashed)

EndInv == Inv /\ ModeRight /\ DiskRight /\ LastOpen /\ OthersEnded

\* What the thread works on is not open.
LEMMA JobApart ==
    ASSUME Inv, ModeRight, job # None
    PROVE  /\ job \in Names /\ Demo(job) \in DOMAIN disk /\ job # demoFile
           /\ Demo(job) \in Paths /\ Xz(job) \in Paths
           /\ demoFile # None => Demo(demoFile) # Demo(job) /\ Demo(demoFile) # Xz(job)
<1>1. job.dir = "day" /\ job \in Names \cup {None} /\ demoFile \in Names \cup {None}
  BY DEF ModeRight, Inv, JobRight, OpenRight
<1>2. Demo(job) \in DOMAIN disk /\ job # demoFile
  <2>1. Demo(job) \in DOMAIN disk
    BY <1>1 DEF Inv, JobRight
  <2>2. demoFile.dir = "day" => job # demoFile
    BY DEF Inv, OpenRight
  <2>3. QED
    BY <1>1, <2>1, <2>2
<1>3. QED
  BY <1>1, <1>2, PathFacts

\* At first there is no file.
LEMMA EndInit == Init => EndInv
BY FilesInit DEF Init, EndInv, ModeRight, DiskRight, LastOpen, OthersEnded

\* The new file holds the new recording.
LEMMA OpenEnds == EndInv /\ InitDemoFile => EndInv'
<1> SUFFICES ASSUME EndInv, InitDemoFile PROVE EndInv'
  OBVIOUS
<1>1. PICK name \in Names :
        /\ IsPath(name)
        /\ demoFile' = name
        /\ disk' = Put(Demo(name), [rec |-> recordings', ended |-> FALSE])
  BY DEF InitDemoFile
<1>2. /\ DOMAIN disk' = DOMAIN disk \cup {Demo(name)}
      /\ disk'[Demo(name)] = [rec |-> recordings', ended |-> FALSE]
      /\ \A p \in DOMAIN disk : p # Demo(name) => disk'[p] = disk[p]
  BY <1>1, PutFacts
<1>3. name \in Names \cup {None} /\ name # None /\ Demo(name) \in Paths
  <2>1. name.dir # "none" /\ None.dir = "none"
    BY DEF Names, None
  <2>2. QED
    BY <2>1, PathFacts
<1>4. /\ recordings \in Nat /\ recordings' = recordings + 1 /\ recordings' \in Nat
      /\ demoFile = None /\ crashed' = crashed
      /\ job' = job /\ autoMode' = autoMode
  BY DEF EndInv, Inv, InitDemoFile, jobVars, modeVars
<1>5. \A p \in DOMAIN disk : p \in Paths /\ disk[p] \in Entry /\ disk[p].rec <= recordings
  BY DEF EndInv, DiskRight
<1>6. \A r \in crashed : r \in Nat /\ r <= recordings
  BY DEF EndInv, DiskRight
<1>7. ModeRight'
  BY <1>1, <1>4 DEF IsPath, EndInv, ModeRight
<1>8. DiskRight'
  <2>1. disk'[Demo(name)] \in Entry /\ disk'[Demo(name)].rec <= recordings'
    BY <1>2, <1>4 DEF Entry
  <2>2. \A p \in DOMAIN disk : disk[p].rec <= recordings'
    BY <1>4, <1>5 DEF Entry
  <2>3. \A r \in crashed' : r \in Nat /\ r <= recordings'
    BY <1>4, <1>6
  <2>4. QED
    BY <2>1, <2>2, <2>3, <1>2, <1>3, <1>5 DEF DiskRight
<1>9. LastOpen'
  <2>1. recordings' \notin crashed'
    BY <1>4, <1>6
  <2>2. \A p \in DOMAIN disk : disk[p].rec < recordings'
    BY <1>4, <1>5 DEF Entry
  <2>3. QED
    BY <2>1, <2>2, <1>1, <1>2 DEF LastOpen
<1>10. OthersEnded'
  BY <1>1, <1>2, <1>3, <1>4 DEF OthersEnded, IsOther, EndInv
<1>11. QED
  BY <1>7, <1>8, <1>9, <1>10, OpenKeeps DEF EndInv

\* A file that is closed has its end, and no crash has cut it off.
LEMMA CloseEnds == EndInv /\ CloseDemoFile => EndInv'
<1> SUFFICES ASSUME EndInv, CloseDemoFile PROVE EndInv'
  OBVIOUS
<1> DEFINE path == Demo(demoFile)
<1>1. /\ demoFile \in Names /\ demoFile # None /\ demoFile' = None
      /\ crashed' = crashed /\ recordings' = recordings /\ autoMode' = autoMode
  BY DEF EndInv, Inv, OpenRight, CloseDemoFile, modeVars
<1>2. /\ path \in DOMAIN disk
      /\ disk[path] = [rec |-> recordings, ended |-> FALSE]
      /\ recordings \notin crashed
  BY <1>1 DEF EndInv, LastOpen
<1>3. /\ DOMAIN disk' = DOMAIN disk
      /\ disk'[path] = [rec |-> recordings, ended |-> TRUE]
      /\ \A p \in DOMAIN disk : p # path => disk'[p] = disk[p]
  <2>1. disk' = Put(path, Ended(disk[path]))
    BY <1>2 DEF CloseDemoFile
  <2>2. Ended(disk[path]) = [rec |-> recordings, ended |-> TRUE]
    <3>1. recordings \in Nat
      BY DEF EndInv, Inv
    <3>2. disk[path] \in [rec : Nat, ended : BOOLEAN] /\ disk[path].rec = recordings
      BY <3>1, <1>2
    <3>3. Ended(disk[path]) \in [rec : Nat, ended : BOOLEAN] /\ Ended(disk[path]).rec = recordings
      BY <3>2, EndedFacts
    <3>4. Ended(disk[path]).ended = TRUE
      BY <3>2 DEF Ended
    <3>5. QED
      BY <3>3, <3>4
  <2>3. QED
    BY <2>1, <2>2, <1>2, PutFacts
<1>4. ModeRight'
  <2>1. CASE UNCHANGED jobVars
    BY <2>1, <1>1 DEF jobVars, EndInv, ModeRight
  <2>2. CASE job' = demoFile /\ autoMode
    <3>1. demoFile.dir \in {"day", "root"}
      BY <1>1 DEF Names
    <3>2. QED
      BY <2>2, <3>1, <1>1 DEF EndInv, ModeRight
  <2>3. QED
    BY <2>1, <2>2 DEF CloseDemoFile
<1>5. DiskRight'
  <2>1. recordings \in Nat
    BY DEF EndInv, Inv
  <2>2. disk'[path] \in Entry /\ disk'[path].rec <= recordings'
    BY <2>1, <1>1, <1>3 DEF Entry
  <2>3. QED
    BY <2>2, <1>1, <1>3 DEF EndInv, DiskRight
<1>6. LastOpen'
  BY <1>1 DEF LastOpen
<1>7. OthersEnded'
  BY <1>1, <1>2, <1>3 DEF OthersEnded, IsOther, EndInv
<1>8. QED
  BY <1>4, <1>5, <1>6, <1>7, CloseKeeps DEF EndInv

\* A compressed file is a copy, or holds nothing that could be read.
LEMMA XzEnds ==
    ASSUME EndInv, job # None, NEW content,
           content \in {disk[Demo(job)], [rec |-> 0, ended |-> FALSE]},
           disk' = Put(Xz(job), content),
           crashed' = crashed, recordings' = recordings, demoFile' = demoFile
    PROVE  DiskRight' /\ LastOpen' /\ OthersEnded'
<1>1. /\ DOMAIN disk' = DOMAIN disk \cup {Xz(job)} /\ disk'[Xz(job)] = content
      /\ \A p \in DOMAIN disk : p # Xz(job) => disk'[p] = disk[p]
  BY PutFacts
<1>2. /\ Demo(job) \in DOMAIN disk /\ Demo(job) \in Paths /\ Xz(job) \in Paths
      /\ demoFile # None => Demo(demoFile) # Demo(job) /\ Demo(demoFile) # Xz(job)
  BY JobApart DEF EndInv
<1>3. recordings \in Nat
  BY DEF EndInv, Inv
<1>4. content \in Entry /\ content.rec <= recordings
  <2>1. CASE content = disk[Demo(job)]
    BY <2>1, <1>2 DEF EndInv, DiskRight
  <2>2. CASE content = [rec |-> 0, ended |-> FALSE]
    BY <2>2, <1>3 DEF Entry
  <2>3. QED
    BY <2>1, <2>2
<1>5. DiskRight'
  BY <1>1, <1>2, <1>4 DEF EndInv, DiskRight
<1>6. LastOpen'
  <2> SUFFICES ASSUME demoFile # None PROVE LastOpen'
    BY DEF LastOpen
  <2>1. recordings \in Nat /\ disk[Demo(job)].rec < recordings
    BY <1>2, <1>3 DEF EndInv, LastOpen
  <2>2. Demo(demoFile) \in DOMAIN disk /\ recordings > 0
    <3>1. disk[Demo(job)].rec \in Nat
      BY <1>2 DEF EndInv, DiskRight, Entry
    <3>2. QED
      BY <2>1, <3>1 DEF EndInv, LastOpen
  <2>3. content.rec < recordings
    BY <2>1, <2>2
  <2>4. QED
    BY <2>2, <2>3, <1>1, <1>2 DEF EndInv, LastOpen
<1>7. OthersEnded'
  <2>1. content.rec > 0 => (content.ended <=> content.rec \notin crashed)
    <3>1. CASE content = disk[Demo(job)]
      BY <3>1, <1>2 DEF EndInv, OthersEnded, IsOther
    <3>2. CASE content = [rec |-> 0, ended |-> FALSE]
      BY <3>2
    <3>3. QED
      BY <3>1, <3>2
  <2>2. QED
    BY <2>1, <1>1 DEF EndInv, OthersEnded, IsOther
<1>8. QED
  BY <1>5, <1>6, <1>7

\* Compression, done or failed.
LEMMA CompressEnds == EndInv /\ Compress => EndInv'
<1> SUFFICES ASSUME EndInv, Compress PROVE EndInv'
  OBVIOUS
<1>1. PICK content \in {disk[Demo(job)], [rec |-> 0, ended |-> FALSE]} :
        disk' = Put(Xz(job), content)
  BY DEF Compress
<1>2. /\ job # None /\ crashed' = crashed /\ recordings' = recordings
      /\ demoFile' = demoFile /\ autoMode' = autoMode /\ (job' = job \/ job' = None)
  BY DEF Compress, modeVars
<1>3. DiskRight' /\ LastOpen' /\ OthersEnded'
  BY <1>1, <1>2, XzEnds
<1>4. ModeRight'
  BY <1>2 DEF EndInv, ModeRight
<1>5. QED
  BY <1>3, <1>4, CompressKeeps DEF EndInv

\* What is removed is not the open file.
LEMMA RemoveEnds == EndInv /\ Remove => EndInv'
<1> SUFFICES ASSUME EndInv, Remove PROVE EndInv'
  OBVIOUS
<1>1. /\ job # None /\ crashed' = crashed /\ recordings' = recordings
      /\ demoFile' = demoFile /\ autoMode' = autoMode /\ job' = None
      /\ DOMAIN disk' = DOMAIN disk \ {Demo(job)}
      /\ \A p \in DOMAIN disk' : disk'[p] = disk[p]
  BY DEF Remove, modeVars
<1>2. demoFile # None => Demo(demoFile) # Demo(job)
  BY <1>1, JobApart DEF EndInv
<1>3. ModeRight' /\ DiskRight'
  BY <1>1 DEF EndInv, ModeRight, DiskRight
<1>4. LastOpen'
  BY <1>1, <1>2 DEF EndInv, LastOpen
<1>5. OthersEnded'
  BY <1>1 DEF EndInv, OthersEnded, IsOther
<1>6. QED
  BY <1>3, <1>4, <1>5, RemoveKeeps DEF EndInv

\* A crash cuts off the open file and no other.
LEMMA CrashEnds == EndInv /\ Crash => EndInv'
<1> SUFFICES ASSUME EndInv, Crash PROVE EndInv'
  OBVIOUS
<1>1. /\ demoFile' = None /\ job' = None /\ recordings' = recordings
      /\ autoMode' = autoMode
      /\ crashed' = IF demoFile # None THEN crashed \cup {recordings} ELSE crashed
  <2>1. demoFile # None => Demo(demoFile) \in DOMAIN disk /\ disk[Demo(demoFile)].rec = recordings
    BY DEF EndInv, LastOpen
  <2>2. QED
    BY <2>1 DEF Crash, modeVars
<1>2. recordings \in Nat
  BY DEF EndInv, Inv
<1>3. ModeRight' /\ LastOpen'
  BY <1>1 DEF ModeRight, LastOpen
<1>4. \A r \in crashed' : r \in Nat /\ r <= recordings'
  BY <1>1, <1>2 DEF EndInv, DiskRight
<1>5. \A p \in DOMAIN disk : disk[p].rec > 0 => (disk[p].ended <=> disk[p].rec \notin crashed')
  <2> SUFFICES ASSUME NEW p \in DOMAIN disk, disk[p].rec > 0
               PROVE  disk[p].ended <=> disk[p].rec \notin crashed'
    OBVIOUS
  <2>1. CASE demoFile # None /\ p = Demo(demoFile)
    BY <2>1, <1>1 DEF EndInv, LastOpen
  <2>2. CASE demoFile # None /\ p # Demo(demoFile)
    <3>1. disk[p].rec < recordings /\ disk[p].rec \in Nat
      BY <2>2 DEF EndInv, LastOpen, DiskRight, Entry
    <3>2. disk[p].rec # recordings
      BY <3>1, <1>2
    <3>3. QED
      BY <2>2, <3>2, <1>1 DEF EndInv, OthersEnded, IsOther
  <2>3. CASE demoFile = None
    BY <2>3, <1>1 DEF EndInv, OthersEnded, IsOther
  <2>4. QED
    BY <2>1, <2>2, <2>3
<1>6. DiskRight' /\ OthersEnded'
  <2>1. CASE UNCHANGED disk
    BY <2>1, <1>1, <1>4, <1>5 DEF EndInv, DiskRight, OthersEnded
  <2>2. CASE job # None /\ disk' = Put(Xz(job), [rec |-> 0, ended |-> FALSE])
    <3>1. /\ DOMAIN disk' = DOMAIN disk \cup {Xz(job)}
          /\ disk'[Xz(job)] = [rec |-> 0, ended |-> FALSE]
          /\ \A p \in DOMAIN disk : p # Xz(job) => disk'[p] = disk[p]
      BY <2>2, PutFacts
    <3>2. Xz(job) \in Paths
      BY <2>2, JobApart DEF EndInv
    <3>3. [rec |-> 0, ended |-> FALSE] \in Entry /\ 0 <= recordings
      BY <1>2 DEF Entry
    <3>4. DiskRight'
      <4>1. \A p \in DOMAIN disk : p \in Paths /\ disk[p] \in Entry /\ disk[p].rec <= recordings
        BY DEF EndInv, DiskRight
      <4>2. disk'[Xz(job)] \in Entry /\ disk'[Xz(job)].rec <= recordings
        BY <3>1, <3>3
      <4>3. QED
        BY <4>1, <4>2, <3>1, <3>2, <1>1, <1>4 DEF DiskRight
    <3>5. OthersEnded'
      BY <3>1, <1>5 DEF OthersEnded
    <3>6. QED
      BY <3>4, <3>5
  <2>3. QED
    BY <2>1, <2>2 DEF Crash
<1>7. QED
  BY <1>3, <1>6, CrashKeeps DEF EndInv

\* Every step keeps the invariant, while the mode stays under an open file.
LEMMA EndNext == ASSUME ~MidRecording PROVE EndInv /\ [Next]_vars => EndInv'
<1> SUFFICES ASSUME EndInv, [Next]_vars PROVE EndInv'
  OBVIOUS
<1>1. Inv'
  BY FilesNext DEF EndInv
<1>2. CASE InitDemoFile
  BY <1>2, OpenEnds
<1>3. CASE CloseDemoFile
  BY <1>3, CloseEnds
<1>4. CASE Compress
  BY <1>4, CompressEnds
<1>5. CASE Remove
  BY <1>5, RemoveEnds
<1>6. CASE Crash
  BY <1>6, CrashEnds
<1>7. CASE Settings
  <2>1. /\ demoFile = None /\ demoFile' = None /\ disk' = disk /\ crashed' = crashed
        /\ job' = job /\ recordings' = recordings
    BY <1>7 DEF Settings, diskVars, jobVars
  <2>2. QED
    BY <2>1, <1>1 DEF EndInv, ModeRight, DiskRight, LastOpen, OthersEnded, IsOther
<1>8. CASE UNCHANGED vars
  <2>1. /\ demoFile' = demoFile /\ disk' = disk /\ crashed' = crashed
        /\ job' = job /\ recordings' = recordings /\ autoMode' = autoMode
    BY <1>8 DEF vars, diskVars, jobVars, modeVars
  <2>2. QED
    BY <2>1, <1>1 DEF EndInv, ModeRight, DiskRight, LastOpen, OthersEnded, IsOther
<1>9. QED
  BY <1>2, <1>3, <1>4, <1>5, <1>6, <1>7, <1>8 DEF Next

\* The thread that compresses an earlier demo never takes the name, or the
\* frames, of the one that is recorded, if the mode is not changed meanwhile.
THEOREM OpenFileStays == ASSUME ~MidRecording PROVE Spec => []RecordingOnDisk
<1>1. EndInv => RecordingOnDisk
  BY DEF EndInv, LastOpen, RecordingOnDisk
<1>2. QED
  BY <1>1, EndInit, EndNext, PTL DEF Spec

\* An end time of 0 tells the recordings that a crash cut off from all others,
\* in their own files and compressed, if the mode is not changed meanwhile.
THEOREM EndTells == ASSUME ~MidRecording PROVE Spec => []EndTimeTellsCrash
<1>1. EndInv => EndTimeTellsCrash
  <2> SUFFICES ASSUME EndInv, NEW p \in DOMAIN disk, p.name # demoFile, disk[p].rec > 0
               PROVE  disk[p].ended <=> disk[p].rec \notin crashed
    BY DEF EndTimeTellsCrash
  <2>1. IsOther(p)
    BY PathFacts DEF IsOther, EndInv, Inv, OpenRight
  <2>2. QED
    BY <2>1 DEF EndInv, OthersEnded
<1>2. QED
  BY <1>1, EndInit, EndNext, PTL DEF Spec
=============================================================================
