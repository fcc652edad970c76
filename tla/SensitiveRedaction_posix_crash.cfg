\* replace_sensitive.py on POSIX (os.rename replaces its target), killed once
\* inside writelines and run again.
CONSTANTS
    f1 = f1
    f2 = f2
    f3 = f3
    Files <- MCFiles
    Absent = Absent
    None = None
    RenameReplaces = TRUE
    TransientFailures = FALSE
    InitContents <- MCInitContents
    EditContents <- MCEditContents
    MaxLines = 2
    MaxRuns = 2
    MaxCrashes = 1
    MaxEdits = 0
SYMMETRY Symmetry
SPECIFICATION Spec
INVARIANT Recoverable
CHECK_DEADLOCK FALSE
