\* replace_sensitive.py on Windows with no kill: a write that fails part
\* way is not undone, since the restoring rename finds the file present.
CONSTANTS
    f1 = f1
    f2 = f2
    f3 = f3
    Files <- MCFiles
    Absent = Absent
    None = None
    RenameReplaces = FALSE
    TransientFailures = FALSE
    InitContents <- MCInitContents
    EditContents <- MCEditContents
    MaxLines = 2
    MaxRuns = 3
    MaxCrashes = 0
    MaxEdits = 1
SYMMETRY Symmetry
SPECIFICATION Spec
PROPERTY ImplementsBackupCommit
CHECK_DEADLOCK FALSE
