----------------------------- MODULE CMakeRewrite -----------------------------
(***************************************************************************)
(* The three scripts that rewrite an example's CMakeLists.txt:             *)
(*   scripts/update_windows_support.py  update_cmakelists_file             *)
(*   scripts/fix_cmake_syntax.py        fix_target_link_libraries_syntax   *)
(*   scripts/fix_cmake_versions.py      fix_cmake_version                  *)
(* each a function from the file's text to its new text, run by hand in    *)
(* any order and any number of times on the same file.                     *)
(*                                                                         *)
(* A text is a sequence of characters over a small alphabet: the regex     *)
(* metacharacters the scripts match on are themselves, a word the scripts  *)
(* look for is one character, and every inserted block is one character    *)
(* whose own parentheses are balanced:                                     *)
(*   "p"  project          "T"  target_link_libraries   "n" a name char    *)
(*   "P"  PLATFORM_LIBS    "H"  include_directories("/opt/homebrew/..")    *)
(*   "D"  the platform-detection block   "I" the platform-includes block   *)
(*   "L"  the platform-libraries block   "Mx" cmake_minimum_required(      *)
(*        VERSION 3.x)                                                     *)
(***************************************************************************)
EXTENDS Naturals, Sequences, SequencesExt

CONSTANTS
    InitTexts,   \* CMakeLists.txt texts the scripts may find
    MaxRuns      \* script runs

VersionMinor == ("M5" :> 5) @@ ("M9" :> 9) @@ ("M10" :> 10) @@ ("M12" :> 12)
Char == {"p", "T", "(", ")", "$", "{", "}", "n", "P", " ", "\n",
         "H", "I", "D", "L"} \cup DOMAIN VersionMinor

ASSUME InitTexts \subseteq Seq(Char)

VARIABLES
    text,   \* the CMakeLists.txt
    last,   \* history: the script that wrote it last ("none" before any)
    runs

vars == <<text, last, runs>>

-----------------------------------------------------------------------------
(* String operations the scripts use.                                      *)

Ws == {" ", "\n"}                          \* \s
PlatformLibsRef == <<"$", "{", "P", "}", ")">>   \* '${PLATFORM_LIBS})'

\* x in s, for a string x
HasSub(s, x) ==
    \E i \in 1..(Len(s) - Len(x) + 1) : SubSeq(s, i, i + Len(x) - 1) = x

\* s.split('\n')
RECURSIVE SplitLines(_)
SplitLines(s) ==
    LET i == SelectInSeq(s, LAMBDA c : c = "\n") IN
    IF i = 0 THEN <<s>>
    ELSE <<SubSeq(s, 1, i - 1)>> \o SplitLines(SubSeq(s, i + 1, Len(s)))

\* '\n'.join(ls)
JoinLines(ls) == FoldLeft(LAMBDA acc, l : acc \o <<"\n">> \o l, Head(ls), Tail(ls))

\* s.rstrip(cs): drops trailing characters that are in the set cs
RECURSIVE RStrip(_, _)
RStrip(s, cs) ==
    IF s # <<>> /\ s[Len(s)] \in cs THEN RStrip(SubSeq(s, 1, Len(s) - 1), cs) ELSE s

\* s.strip()
Strip(s) == Reverse(RStrip(Reverse(RStrip(s, Ws)), Ws))

\* first index >= k holding c, or 0
IndexFrom(s, k, c) ==
    LET r == SelectInSeq(SubSeq(s, k, Len(s)), LAMBDA x : x = c) IN
    IF r = 0 THEN 0 ELSE r + k - 1

\* the end of the run of \s starting at k (k - 1 if there is none)
WsRunEnd(s, k) ==
    LET r == SelectInSeq(SubSeq(s, k, Len(s)), LAMBDA x : x \notin Ws) IN
    IF r = 0 THEN Len(s) ELSE k + r - 2

\* word\([^)]+\) at i: the index of the closing ")", or 0
CallClose(s, i) ==
    IF i + 1 <= Len(s) /\ s[i + 1] = "("
    THEN LET j == IndexFrom(s, i + 2, ")") IN IF j >= i + 3 THEN j ELSE 0
    ELSE 0

\* re.sub(r'(pattern)', r'\1' + ins, s) given where each match ends
InsertAfter(s, ends, ins) ==
    FlattenSeq([k \in 1..Len(s) |-> IF k \in ends THEN <<s[k]>> \o ins ELSE <<s[k]>>])

-----------------------------------------------------------------------------
(* update_windows_support.py, update_cmakelists_file (lines 10-90).        *)

\* Mutant: the guard looks for the detection block only ('# Platform
\* detection' in content), which a file without project() never gets.
HasDetectionBlock(s) == "D" \in Range(s)

\* Lines 16-19: 'BUILD_PLATFORM' in content; every inserted block has it.
HasBuildPlatform(s) == \E c \in {"D", "I", "L"} : c \in Range(s)

\* r'(project\([^)]+\)\s*C?\s*)': the call and all the \s after it (no
\* text of these files has a "C" right after that run).
ProjectMatchEnd(s, i) ==
    IF s[i] = "p" /\ CallClose(s, i) # 0 THEN WsRunEnd(s, CallClose(s, i) + 1) ELSE 0

AddPlatformDetection(s) ==
    InsertAfter(s, {ProjectMatchEnd(s, i) : i \in DOMAIN s} \ {0},
                <<"\n", "D", "\n", "\n">>)

\* Mutant: the block appended after the first link line instead of before.
AddPlatformLibsBlockAfter(s) ==
    LET ls == SplitLines(s)
        k == SelectInSeq(ls, LAMBDA l : "T" \in Range(l))
    IN JoinLines(SubSeq(ls, 1, k) \o <<<<"L", "\n", "\n">>>> \o SubSeq(ls, k + 1, Len(ls)))

\* the platform_libs block, ending in '\n\n', before the first line that
\* contains target_link_libraries
AddPlatformLibsBlock(s) ==
    LET ls == SplitLines(s)
        k == SelectInSeq(ls, LAMBDA l : "T" \in Range(l))
    IN JoinLines(SubSeq(ls, 1, k - 1) \o <<<<"L", "\n", "\n">>>> \o SubSeq(ls, k, Len(ls)))

\* r'(target_link_libraries\([^)]+\)\s*$)' with re.MULTILINE: the greedy \s*
\* gives back characters until $ (end of text, or before a '\n') holds.
LinkMatchEnd(s, i) ==
    IF s[i] = "T" /\ CallClose(s, i) # 0
    THEN LET j == CallClose(s, i)
             E == {e \in j..WsRunEnd(s, j + 1) : e = Len(s) \/ s[e + 1] = "\n"}
         IN IF E = {} THEN 0 ELSE Max(E)
    ELSE 0

AppendPlatformLibs(s) ==
    InsertAfter(s, {LinkMatchEnd(s, i) : i \in DOMAIN s} \ {0},
                <<"\n", " ">> \o PlatformLibsRef)

UpdateCMakeLists(s) ==
    IF HasBuildPlatform(s) THEN s
    ELSE LET s2 == ReplaceAll(AddPlatformDetection(s), "H", "I") IN
         IF "T" \in Range(s2) THEN AppendPlatformLibs(AddPlatformLibsBlock(s2)) ELSE s2

-----------------------------------------------------------------------------
(* fix_cmake_syntax.py, fix_target_link_libraries_syntax (lines 9-50).     *)

Mergeable(l) == "T" \in Range(l) /\ IsSuffix(<<"}", ")">>, Strip(l))

RECURSIVE FixLines(_)
FixLines(ls) ==
    IF ls = <<>> THEN <<>>
    ELSE IF Mergeable(Head(ls)) /\ Len(ls) >= 2 /\ HasSub(ls[2], PlatformLibsRef)
    THEN <<RStrip(Head(ls), {"}", ")"}) \o <<" ">> \o PlatformLibsRef>>
             \o FixLines(Tail(Tail(ls)))
    ELSE <<Head(ls)>> \o FixLines(Tail(ls))

FixLinkSyntax(s) == JoinLines(FixLines(SplitLines(s)))

-----------------------------------------------------------------------------
(* fix_cmake_versions.py, fix_cmake_version (lines 9-32).                  *)

\* r'cmake_minimum_required\(VERSION 3\.[0-9]\)'
OneDigitMinor(c) == c \in DOMAIN VersionMinor /\ VersionMinor[c] < 10

FixVersion(s) ==
    IF "M10" \in Range(s) THEN s
    ELSE [i \in DOMAIN s |-> IF OneDigitMinor(s[i]) THEN "M10" ELSE s[i]]

-----------------------------------------------------------------------------
Init ==
    /\ text \in InitTexts
    /\ last = "none"
    /\ runs = 0

\* update_windows_support.py main (lines 92-111), on this file
RunUpdateWindowsSupport ==
    /\ runs < MaxRuns
    /\ text' = UpdateCMakeLists(text)
    /\ last' = "update"
    /\ runs' = runs + 1

\* fix_cmake_syntax.py main (lines 52-72): written back only if changed
RunFixCMakeSyntax ==
    /\ runs < MaxRuns
    /\ text' = FixLinkSyntax(text)
    /\ last' = "syntax"
    /\ runs' = runs + 1

\* fix_cmake_versions.py main (lines 53-82); its own
\* fix_target_link_libraries_syntax (lines 34-51) only prints a warning
RunFixCMakeVersions ==
    /\ runs < MaxRuns
    /\ text' = FixVersion(text)
    /\ last' = "versions"
    /\ runs' = runs + 1

\* What a run opens for writing: update_cmakelists_file unless BUILD_PLATFORM
\* is there (line 17), fix_target_link_libraries_syntax only when the text
\* changed (line 45), fix_cmake_version unless 3.10 is there (line 16).
WriteBacks(s) ==
    (IF HasBuildPlatform(s) THEN {} ELSE {UpdateCMakeLists(s)})
    \cup (IF FixLinkSyntax(s) = s THEN {} ELSE {FixLinkSyntax(s)})
    \cup (IF "M10" \in Range(s) THEN {} ELSE {FixVersion(s)})

\* The script is killed inside its `with open(file_path, 'w')` block (update
\* line 86, syntax line 45, versions line 28): open has truncated the file,
\* and f.write keeps a CMakeLists.txt (well under the 8 KiB buffer) in the
\* buffer until the block closes, so the file is left empty.
KilledInWrite ==
    /\ runs < MaxRuns
    /\ WriteBacks(text) # {}
    /\ text' = <<>>
    /\ last' = "killed"
    /\ runs' = runs + 1

Next == RunUpdateWindowsSupport \/ RunFixCMakeSyntax \/ RunFixCMakeVersions \/ KilledInWrite

Spec == Init /\ [][Next]_vars

-----------------------------------------------------------------------------
TypeOK ==
    /\ text \in Seq(Char)
    /\ last \in {"none", "update", "syntax", "versions", "killed"}
    /\ runs \in 0..MaxRuns

Count(s, c) == Len(SelectSeq(s, LAMBDA x : x = c))
BalancedIn(s, open, close) ==
    /\ \A k \in 0..Len(s) : Count(SubSeq(s, 1, k), open) >= Count(SubSeq(s, 1, k), close)
    /\ Count(s, open) = Count(s, close)

\* Every parenthesis and every variable reference "${...}" is closed.
WellFormed(s) == BalancedIn(s, "(", ")") /\ BalancedIn(s, "{", "}")

\* fix_cmake_syntax.py exists to repair what update_windows_support.py
\* leaves ("the main issue causing the parse error", line 18): once it has
\* run after it, the file parses again.
SyntaxFixRepairs == last = "syntax" => WellFormed(text)

\* Whatever order the scripts run in, ${PLATFORM_LIBS} is only used after
\* the set(PLATFORM_LIBS ...) block (CMake expands an unset variable to
\* nothing, so a use before the set silently drops ws2_32 on Windows).
PlatformLibsSetBeforeUse ==
    \A i \in DOMAIN text : text[i] = "P" => \E k \in 1..(i - 1) : text[k] = "L"

\* Spec sections 4.3 and 8 (idempotence): running a script again right after
\* it ran changes nothing, whatever the scripts did before.  The guards of
\* update_windows_support (line 17) and fix_cmake_version (line 16) and
\* fix_cmake_syntax's merge must each see their own output as done.
RerunChangesNothing ==
    /\ UpdateCMakeLists(UpdateCMakeLists(text)) = UpdateCMakeLists(text)
    /\ FixLinkSyntax(FixLinkSyntax(text)) = FixLinkSyntax(text)
    /\ FixVersion(FixVersion(text)) = FixVersion(text)
=============================================================================
