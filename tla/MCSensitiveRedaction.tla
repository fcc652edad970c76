----------------------- MODULE MCSensitiveRedaction -----------------------
(* Model values and small contents for SensitiveRedaction.                 *)
EXTENDS SensitiveRedaction, TLC

CONSTANTS f1, f2, f3

MCFiles == {f1, f2}
MCFiles3 == {f1, f2, f3}

\* #define SAMPLE_DEVICE_SECRET "abc123"    (a listed macro, not redacted)
Secret == [m |-> TRUE, v |-> "secret", nl |-> TRUE]
\* #define SAMPLE_DEVICE_SECRET "***"
Redacted == [m |-> TRUE, v |-> "***", nl |-> TRUE]
\* any other line, an unlisted macro included
Other == [m |-> FALSE, v |-> "secret", nl |-> TRUE]

Text(ls) == [lines |-> ls, utf8 |-> TRUE]

MCInitContents ==
    {Text(<<Secret, Other>>), Text(<<Redacted, Other>>),
     [lines |-> <<Secret>>, utf8 |-> FALSE]}

MCEditContents == {Text(<<Other, Secret>>)}

Symmetry == Permutations(MCFiles)
Symmetry3 == Permutations(MCFiles3)
=============================================================================
