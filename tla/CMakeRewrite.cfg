\* The three CMake scripts, in any order, up to six runs, on four
\* example files.
CONSTANTS
    InitTexts <- MCInitTexts
    MaxRuns = 6
SPECIFICATION Spec
INVARIANTS PlatformLibsSetBeforeUse RerunChangesNothing

CHECK_DEADLOCK FALSE
