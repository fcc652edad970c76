---------------------------- MODULE LicenseHeader ----------------------------
(***************************************************************************)
(* scripts/add_license_header.py: add_license_to_files walks a directory   *)
(* and, for every .h/.c/.cpp/.cc/.hpp file whose text lacks the marker     *)
(* "Copyright (2025) Beijing Volcano Engine", opens it 'r+', reads it,     *)
(* seeks to 0 and writes LICENSE_HEADER + content over it in place.  There *)
(* is no backup and no try: an exception ends the whole script.  The       *)
(* process may be killed during the write, and the script run again.      *)
(*                                                                         *)
(* A text is a sequence of symbols.  The header is three symbols: the part *)
(* of its first line before the marker is complete, the part that          *)
(* completes the marker, and the rest of the block.                         *)
(***************************************************************************)
EXTENDS Naturals, Sequences, FiniteSets

CONSTANTS
    Files,        \* the files with a listed suffix under the directory
    Body,         \* symbols of the files' own text
    InitContents, \* contents a file may have before the first run
    MaxRuns,      \* runs of the script
    MaxCrashes    \* times the process is killed during a write

HeadStart == "HeadStart"   \* "// Copyright (20"
Marker    == "Marker"      \* "25) Beijing Volcano Engine Technology Ltd.\n"
HeadRest  == "HeadRest"    \* the Apache license lines and the blank line
LICENSE_HEADER == <<HeadStart, Marker, HeadRest>>

Symbol == Body \cup {HeadStart, Marker, HeadRest}
Content == [text : Seq(Symbol), utf8 : BOOLEAN]

ASSUME /\ InitContents \subseteq Content
       /\ Body \cap {HeadStart, Marker, HeadRest} = {}

VARIABLES
    disk,     \* disk[f]: the file's content
    readOnly, \* files open(..., 'r+') refuses (PermissionError)
    phase,    \* "idle" between runs, "walk" while add_license_to_files runs
    pending,  \* files of the walk not yet opened
    exit,     \* how the last run ended: "none", "completed", "raised", "killed"
    runs, crashes,
    original  \* history: each file's content before any run

vars == <<disk, readOnly, phase, pending, exit, runs, crashes, original>>

-----------------------------------------------------------------------------
\* Mutant: the test looks for the whole header at the start of the text.
StartsWithHeader(t) == Len(t) >= 3 /\ SubSeq(t, 1, 3) = LICENSE_HEADER

\* Line 27: "Copyright (2025) Beijing Volcano Engine" in content.
HasMarker(t) == \E i \in DOMAIN t : t[i] = Marker

\* f.seek(0, 0); f.write(new) in a file holding old: the first k symbols of
\* new over old; old's tail stays where new is shorter than old.
Overwrite(old, new, k) ==
    [i \in 1..(IF k > Len(old) THEN k ELSE Len(old)) |->
        IF i <= k THEN new[i] ELSE old[i]]

\* Lines 28-29: the text after a complete write.
Licensed(t) == Overwrite(t, LICENSE_HEADER \o t, Len(t) + 3)

-----------------------------------------------------------------------------
Init ==
    /\ disk \in [Files -> InitContents]
    /\ readOnly \in SUBSET Files
    /\ phase = "idle"
    /\ pending = {}
    /\ exit = "none"
    /\ runs = 0 /\ crashes = 0
    /\ original = disk

\* Lines 20-22, 31-32: os.walk yields every file with a listed suffix.
StartRun ==
    /\ phase = "idle" /\ runs < MaxRuns
    /\ phase' = "walk"
    /\ pending' = Files
    /\ runs' = runs + 1
    /\ UNCHANGED <<readOnly, disk, exit, crashes, original>>

\* Line 24: open(file_path, 'r+') raises PermissionError; nothing catches it.
OpenRaises(f) ==
    /\ phase = "walk" /\ f \in pending
    /\ f \in readOnly
    /\ phase' = "idle" /\ pending' = {} /\ exit' = "raised"
    /\ UNCHANGED <<readOnly, disk, runs, crashes, original>>

\* Line 25: f.read() raises UnicodeDecodeError; nothing catches it.
ReadRaises(f) ==
    /\ phase = "walk" /\ f \in pending
    /\ f \notin readOnly
    /\ ~disk[f].utf8
    /\ phase' = "idle" /\ pending' = {} /\ exit' = "raised"
    /\ UNCHANGED <<readOnly, disk, runs, crashes, original>>

\* Lines 24-27: the text holds the marker; the file is left as it is.
SkipLicensed(f) ==
    /\ phase = "walk" /\ f \in pending
    /\ f \notin readOnly /\ disk[f].utf8
    /\ HasMarker(disk[f].text)
    /\ pending' = pending \ {f}
    /\ UNCHANGED <<readOnly, disk, phase, exit, runs, crashes, original>>

\* Lines 24-29: no marker; the header and the old text are written over it.
AddHeader(f) ==
    /\ phase = "walk" /\ f \in pending
    /\ f \notin readOnly /\ disk[f].utf8
    /\ ~HasMarker(disk[f].text)
    /\ disk' = [disk EXCEPT ![f].text = Licensed(disk[f].text)]
    /\ pending' = pending \ {f}
    /\ UNCHANGED <<readOnly, phase, exit, runs, crashes, original>>

\* The process is killed inside f.write (line 29): only a prefix of the new
\* text has reached the file, over the start of the old text.
KilledInWrite(f) ==
    /\ phase = "walk" /\ f \in pending
    /\ f \notin readOnly /\ disk[f].utf8
    /\ ~HasMarker(disk[f].text)
    /\ crashes < MaxCrashes
    /\ \E k \in 0..(Len(disk[f].text) + 2) :
           disk' = [disk EXCEPT ![f].text =
                      Overwrite(disk[f].text, LICENSE_HEADER \o disk[f].text, k)]
    /\ phase' = "idle" /\ pending' = {} /\ exit' = "killed"
    /\ crashes' = crashes + 1
    /\ UNCHANGED <<readOnly, runs, original>>

\* Lines 33-34: the walk is exhausted; the script prints and exits.
FinishRun ==
    /\ phase = "walk" /\ pending = {}
    /\ phase' = "idle" /\ exit' = "completed"
    /\ UNCHANGED <<readOnly, disk, pending, runs, crashes, original>>

Next ==
    \/ StartRun \/ FinishRun
    \/ \E f \in Files :
           \/ OpenRaises(f) \/ ReadRaises(f)
           \/ SkipLicensed(f) \/ AddHeader(f) \/ KilledInWrite(f)

Spec == Init /\ [][Next]_vars

-----------------------------------------------------------------------------
TypeOK ==
    /\ disk \in [Files -> Content]
    /\ readOnly \subseteq Files
    /\ phase \in {"idle", "walk"}
    /\ pending \subseteq Files
    /\ exit \in {"none", "completed", "raised", "killed"}
    /\ original \in [Files -> Content]

Occurrences(t, s) == Cardinality({i \in DOMAIN t : t[i] = s})

\* Spec sections 4.3 and 8 (idempotence): however often the script is run
\* and killed, no file ever begins a license header twice.  The test of
\* line 27 looks for the marker, which a write killed early has not yet
\* put on disk, so a rerun would write a whole header in front of the
\* start the killed run left.
NoDoubleHeader == \A f \in Files : Occurrences(disk[f].text, HeadStart) <= 1

\* Spec sections 4.3 and 5: every file holds its original text, or the
\* header followed by its original text; a write is never left half done.
ContentPreserved ==
    \A f \in Files : disk[f].text \in {original[f].text, Licensed(original[f].text)}
=============================================================================
