------------------------------ MODULE DemoFiles ------------------------------
(***************************************************************************)
(* The demo files of one map on one day: how DemoWriter names, opens and   *)
(* closes them, the thread that compresses a closed file, and what a crash *)
(* of the server leaves (DemoWriter.cpp, lzma.cpp).  The frames in a file  *)
(* are FramePipeline.                                                      *)
(***************************************************************************)
EXTENDS Naturals, FiniteSets

CONSTANTS
    MaxRecordings,  \* bound: files opened
    MaxCrashes,     \* bound: crashes
    MaxSettings,    \* bound: changes of the settings
    MidRecording    \* whether the mode is changed while a file is open

ASSUME FilesAssumption ==
    /\ MaxRecordings \in Nat \ {0} /\ MaxCrashes \in Nat /\ MaxSettings \in Nat
    /\ MidRecording \in BOOLEAN

\* A demo is in the folder of its day, where names have suffixes, or in the
\* root, where they have none.  A compressed one has ".xz" after its name.
Names == [dir : {"day"}, suffix : 1..(MaxRecordings + 1)]
            \cup [dir : {"root"}, suffix : {1}]
Paths == [name : Names, xz : BOOLEAN]

Demo(name) == [name |-> name, xz |-> FALSE]
Xz(name)   == [name |-> name, xz |-> TRUE]

None == [dir |-> "none", suffix |-> 0]

VARIABLES
    disk,           \* the files, by their paths
    demoFile,       \* the name of the open file, fpath, or None
    job,            \* compress_thread: the name it works on, or None
    jobStep,        \* "compress" | "remove"
    autoMode, compresses,       \* g_auto_demo_file, g_compress_demos
    recordings, crashes, settings,      \* bounds
    recorded,       \* history: the recordings made under names of their own
    crashed         \* history: the recordings a crash cut off

diskVars == <<disk, recorded, crashed>>
jobVars  == <<job, jobStep>>
modeVars == <<autoMode, compresses, settings>>
vars     == <<diskVars, demoFile, jobVars, modeVars, recordings, crashes>>

Put(path, content) ==
    [p \in DOMAIN disk \cup {path} |-> IF p = path THEN content ELSE disk[p]]

Init ==
    /\ disk = [p \in {} |-> {}]
    /\ demoFile = None
    /\ job = None
    /\ jobStep = "compress"
    /\ autoMode \in BOOLEAN
    /\ compresses \in BOOLEAN
    /\ recordings = 0 /\ crashes = 0 /\ settings = 0
    /\ recorded = {}
    /\ crashed = {}

-----------------------------------------------------------------------------
(* The writer *)

Bug_TakenDemo(name) == Demo(name) \in DOMAIN disk
Bug_TakenXz(name)   == Xz(name) \in DOMAIN disk
Taken(name) == {Demo(name), Xz(name)} \cap DOMAIN disk # {}

\* fpath: in auto mode the first name that is not taken.
IsPath(name) ==
    IF autoMode
    THEN /\ name.dir = "day"
         /\ ~Taken(name)
         /\ \A n \in Names : n.dir = "day" /\ n.suffix < name.suffix => Taken(n)
    ELSE name.dir = "root"

\* initDemoFile; "wb+" makes a file that exists empty.
InitDemoFile ==
    /\ demoFile = None
    /\ recordings < MaxRecordings /\ recordings' = recordings + 1
    /\ \E name \in Names :
        /\ IsPath(name)
        /\ demoFile' = name
        /\ disk' = Put(Demo(name), [rec |-> recordings', ended |-> FALSE])
    /\ recorded' = IF autoMode THEN recorded \cup {recordings'} ELSE recorded
    /\ UNCHANGED <<crashed, jobVars, modeVars, crashes>>

Bug_Ended(content) == content

\* endTime is written over the 0 the header began with.
Ended(content) == [content EXCEPT !.ended = TRUE]

\* closeDemoFile.  Before it starts a thread it waits for the last one.
CloseDemoFile ==
    LET path == Demo(demoFile)
    IN  /\ demoFile # None
        /\ demoFile' = None
        /\ disk' = IF path \in DOMAIN disk
                   THEN Put(path, Ended(disk[path])) ELSE disk
        /\ IF autoMode /\ compresses /\ path \in DOMAIN disk
           THEN /\ job = None
                /\ job' = demoFile
                /\ jobStep' = "compress"
           ELSE UNCHANGED jobVars
        /\ UNCHANGED <<recorded, crashed, modeVars, recordings, crashes>>

-----------------------------------------------------------------------------
(* compressDemo, in its thread *)

\* lzmaCompress: it is done, or it fails and leaves what it has written.
Compress ==
    /\ job # None /\ jobStep = "compress"
    /\ \/ /\ disk' = Put(Xz(job), disk[Demo(job)])
          /\ jobStep' = "remove"
          /\ UNCHANGED job
       \/ /\ disk' = Put(Xz(job), [rec |-> 0, ended |-> FALSE])
          /\ job' = None
          /\ UNCHANGED jobStep
    /\ UNCHANGED <<recorded, crashed, demoFile, modeVars, recordings, crashes>>

\* An open file that is removed has no name any more.
Remove ==
    /\ job # None /\ jobStep = "remove"
    /\ disk' = [p \in DOMAIN disk \ {Demo(job)} |-> disk[p]]
    /\ job' = None
    /\ UNCHANGED <<recorded, crashed, demoFile, jobStep, modeVars, recordings, crashes>>

-----------------------------------------------------------------------------
(* The server *)

\* The files stay as they are; a compressed file may be begun.
Crash ==
    /\ crashes < MaxCrashes /\ crashes' = crashes + 1
    /\ demoFile' = None
    /\ job' = None
    /\ crashed' = IF demoFile # None /\ Demo(demoFile) \in DOMAIN disk
                  THEN crashed \cup {disk[Demo(demoFile)].rec} ELSE crashed
    /\ \/ UNCHANGED disk
       \/ /\ job # None /\ jobStep = "compress"
          /\ disk' = Put(Xz(job), [rec |-> 0, ended |-> FALSE])
    /\ UNCHANGED <<recorded, jobStep, modeVars, recordings>>

Settings ==
    /\ settings < MaxSettings /\ settings' = settings + 1
    /\ ~MidRecording => demoFile = None
    /\ autoMode' \in BOOLEAN
    /\ compresses' \in BOOLEAN
    /\ UNCHANGED <<diskVars, demoFile, jobVars, recordings, crashes>>

Next ==
    \/ InitDemoFile \/ CloseDemoFile
    \/ Compress \/ Remove
    \/ Crash \/ Settings

Spec == Init /\ [][Next]_vars

-----------------------------------------------------------------------------
(* Properties *)

\* A recording made under a name of its own stays on the disk, in its own file
\* or compressed, whatever is recorded, compressed or cut off later.
RecordingsKept ==
    \A r \in recorded : \E p \in DOMAIN disk : disk[p].rec = r

\* The file that is being recorded keeps its name: nobody removes it.
RecordingOnDisk ==
    demoFile # None =>
        /\ Demo(demoFile) \in DOMAIN disk
        /\ disk[Demo(demoFile)].rec = recordings

\* DemoWriter.cpp:135, "will indicate server crash if stays 0": of the files
\* that are not open, those without an end are those a crash cut off.
EndTimeTellsCrash ==
    \A p \in DOMAIN disk :
        p.name # demoFile /\ disk[p].rec > 0 =>
            (disk[p].ended <=> disk[p].rec \notin crashed)
=============================================================================
