\* replace_sensitive.py on POSIX where the backup rename can fail for a
\* reason that does not also stop the restoring rename (e.g. an I/O error
\* on a network share that does not recur), with a .bak left by an
\* earlier run and a user edit between runs.  No kill of the process.
CONSTANTS
    f1 = f1
    f2 = f2
    f3 = f3
    Files <- MCFiles
    Absent = Absent
    None = None
    RenameReplaces = TRUE
    TransientFailures = TRUE
    InitContents <- MCInitContents
    EditContents <- MCEditContents
    MaxLines = 2
    MaxRuns = 2
    MaxCrashes = 0
    MaxEdits = 1
SYMMETRY Symmetry
SPECIFICATION Spec
INVARIANT Recoverable
CHECK_DEADLOCK FALSE
