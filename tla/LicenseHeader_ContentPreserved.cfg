\* add_license_header.py over three files, run up to twice, killed at most once inside a write, then run again.
CONSTANTS
    g1 = g1
    g2 = g2
    g3 = g3
    a = a
    b = b
    Files <- MCFiles
    Body <- MCBody
    InitContents <- MCInitContents
    MaxRuns = 2
    MaxCrashes = 1
SPECIFICATION Spec
INVARIANT ContentPreserved
CHECK_DEADLOCK FALSE
