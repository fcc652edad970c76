\* replace_sensitive.py on Windows, three files: os.rename never replaces its target.
\* Write failures, restore failures, one kill of the process, one user
\* edit and permission changes between up to three runs.
CONSTANTS
    f1 = f1
    f2 = f2
    f3 = f3
    Files <- MCFiles3
    Absent = Absent
    None = None
    RenameReplaces = FALSE
    TransientFailures = FALSE
    InitContents <- MCInitContents
    EditContents <- MCEditContents
    MaxLines = 2
    MaxRuns = 3
    MaxCrashes = 1
    MaxEdits = 1
SYMMETRY Symmetry3
SPECIFICATION Spec
INVARIANTS TypeOK Recoverable
CHECK_DEADLOCK FALSE
