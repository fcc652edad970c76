\* update_windows_support.py then fix_cmake_syntax.py on an example where
\* the link call ends in a variable, with and without a final newline.
CONSTANTS
    InitTexts <- VarLastTexts
    MaxRuns = 3
SPECIFICATION Spec
INVARIANT SyntaxFixRepairs
CHECK_DEADLOCK FALSE
