SPECIFICATION Spec
CONSTANTS
    MaxRecordings = 4
    MaxCrashes = 2
    MaxSettings = 2
    MidRecording = FALSE
INVARIANT RecordingsKept
INVARIANT RecordingOnDisk
INVARIANT EndTimeTellsCrash
CHECK_DEADLOCK FALSE
