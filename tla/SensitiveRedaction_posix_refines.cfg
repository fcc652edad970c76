\* replace_sensitive.py on POSIX with no kill, three files: write failures (open or a
\* full disk), permission changes and one user edit over three runs.
CONSTANTS
    f1 = f1
    f2 = f2
    f3 = f3
    Files <- MCFiles3
    Absent = Absent
    None = None
    RenameReplaces = TRUE
    TransientFailures = FALSE
    InitContents <- MCInitContents
    EditContents <- MCEditContents
    MaxLines = 2
    MaxRuns = 3
    MaxCrashes = 0
    MaxEdits = 1
SYMMETRY Symmetry3
SPECIFICATION Spec
PROPERTIES ImplementsBackupCommit CleanRunRedactsAll
CHECK_DEADLOCK FALSE
