\* replace_sensitive.py on Windows with no failure of any call and no
\* kill: does a completed run redact every file?
CONSTANTS
    f1 = f1
    f2 = f2
    f3 = f3
    Files <- MCFiles
    Absent = Absent
    None = None
    RenameReplaces = FALSE
    TransientFailures = FALSE
    InitContents <- MCInitContents
    EditContents <- MCEditContents
    MaxLines = 2
    MaxRuns = 3
    MaxCrashes = 0
    MaxEdits = 1
SYMMETRY Symmetry
SPECIFICATION Spec
PROPERTIES CleanRunRedactsAll
CHECK_DEADLOCK FALSE
