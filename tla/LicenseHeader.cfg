\* add_license_header.py over three files, one of them read-only, run up to
\* three times and killed at most twice inside a write: is a header ever begun twice?
CONSTANTS
    g1 = g1
    g2 = g2
    g3 = g3
    a = a
    b = b
    Files <- MCFiles
    Body <- MCBody
    InitContents <- MCInitContents
    MaxRuns = 3
    MaxCrashes = 2
SPECIFICATION Spec
INVARIANTS NoDoubleHeader
CHECK_DEADLOCK FALSE
