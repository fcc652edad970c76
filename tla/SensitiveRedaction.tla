------------------------- MODULE SensitiveRedaction -------------------------
(***************************************************************************)
(* scripts/replace_sensitive.py: the walk over the .c/.h files, and for    *)
(* each one process_file: read the lines, redact every #define of a listed *)
(* macro to "***", and when a line changed rename the file to <file>.bak,  *)
(* write the redacted lines to <file>, and on an exception rename the      *)
(* backup back.  Each file-system call is one step, so that a failure of   *)
(* one call, or the process being killed between two, is a state.  Between *)
(* runs the user may edit files and the directory permissions may change.  *)
(*                                                                         *)
(* The content of a file is abstracted to its lines; a line to whether the *)
(* regex of line 31 matches it with a listed macro (m), the quoted value   *)
(* (v) and whether it ends in a newline (nl).                              *)
(***************************************************************************)
EXTENDS Naturals, Sequences, FiniteSets

CONSTANTS
    Files,             \* the .c/.h files under examples/ and tests/
    Absent,            \* the value of a path with no file at it
    None,              \* no current file
    RenameReplaces,    \* os.rename replaces an existing target (POSIX), or fails (Windows)
    TransientFailures, \* a rename may fail for a reason that does not stop the next one
    InitContents,      \* contents a file may have before the first run
    EditContents,      \* contents the user may give a file between runs
    MaxLines,          \* longest file, in lines
    MaxRuns,           \* runs of the script
    MaxCrashes,        \* times the process is killed mid-run
    MaxEdits           \* user edits between runs

Values == {"secret", "***"}

\* A line: m is "regex.match(line) and match.group(3) in macros_to_replace".
Line == [m : BOOLEAN, v : Values, nl : BOOLEAN]

\* What readlines returns: only the last line may lack its newline.
LineSeqs == {ls \in UNION {[1..n -> Line] : n \in 0..MaxLines} :
                \A i \in 1..(Len(ls) - 1) : ls[i].nl}

\* The bytes of a file: its lines, and whether they decode as UTF-8.
Content == [lines : LineSeqs, utf8 : BOOLEAN]

ASSUME /\ Absent \notin Content /\ None \notin Files
       /\ InitContents \subseteq Content /\ EditContents \subseteq Content

VARIABLES
    disk,      \* disk[f]: the content at path f, or Absent
    bak,       \* bak[f]: the content at path f + ".bak", or Absent
    writable,  \* the directory lets the process rename and create files
    phase,     \* where the script is: "idle" between runs, else in the walk
    pending,   \* files of the current walk not yet handed to process_file
    cur,       \* the file process_file is committing
    modified,  \* modified_lines of cur
    runs, crashes, edits,
    intended,  \* history: the content the user last gave each file
    renamed,   \* history: cur's backup rename of line 71 has succeeded
    faulted    \* history: this run met a write failure or a transient rename failure

vars == <<disk, bak, writable, phase, pending, cur, modified,
          runs, crashes, edits, intended, renamed, faulted>>

-----------------------------------------------------------------------------
(* The line rewrite, lines 52-65.                                          *)

\* Mutant: the new line is built without its '\n', so it runs into the next.
RedactLineNoNewline(l) == IF l.m THEN [l EXCEPT !.v = "***", !.nl = FALSE] ELSE l

\* new_line = f'{match.group(1)}"***"\n'
RedactLine(l) == IF l.m THEN [l EXCEPT !.v = "***", !.nl = TRUE] ELSE l

\* Mutant: every matching line counts as a change (no line != new_line test).
LineChangedOnMatch(l) == l.m

\* a matching line counts as a change only when line != new_line (line 62)
LineChanged(l) == l.m /\ RedactLine(l) # l

Redact(c) == [c EXCEPT !.lines = [i \in DOMAIN c.lines |-> RedactLine(c.lines[i])]]

FileChanged(c) == \E i \in DOMAIN c.lines : LineChanged(c.lines[i])

\* Line 37 reads as UTF-8; the fallback of line 42 reads with
\* sys.getdefaultencoding(), which is 'utf-8' in Python 3, so it decodes
\* exactly what the first attempt decodes.
Decodes(c) == c.utf8

\* What writelines leaves on disk when it stops early: a prefix of the new
\* lines, possibly with the last one cut before its newline or before its
\* closing quote (then the regex no longer matches it).
CutLine(l) == {[l EXCEPT !.nl = FALSE], [l EXCEPT !.m = FALSE, !.nl = FALSE]}
Torn(c) ==
    LET pre(k) == [i \in 1..k |-> c.lines[i]] IN
    {[c EXCEPT !.lines = pre(k)] : k \in 0..(Len(c.lines) - 1)}
    \cup
    UNION {{[c EXCEPT !.lines = Append(pre(k), x)] : x \in CutLine(c.lines[k + 1])}
             : k \in 0..(Len(c.lines) - 1)}

\* Mutant: os.replace, which replaces an existing target on every platform.
RenameOKReplacing(dst) == writable

\* Mutant: a rename that never replaces its target, as on Windows.
RenameOKNoReplace(dst) == writable /\ dst = Absent

\* os.rename(src, dst): fails without write permission on the directory,
\* on Windows when dst exists, and (when modelled) for a transient reason.
RenameOK(dst) == writable /\ (RenameReplaces \/ dst = Absent)
RenameMayFail(dst) == ~RenameOK(dst) \/ TransientFailures

-----------------------------------------------------------------------------
Init ==
    /\ disk \in [Files -> InitContents]
    /\ bak \in [Files -> InitContents \cup {Absent}]
    /\ writable \in BOOLEAN
    /\ phase = "idle"
    /\ pending = {}
    /\ cur = None
    /\ modified = None
    /\ runs = 0 /\ crashes = 0 /\ edits = 0
    /\ intended = disk
    /\ renamed = FALSE
    /\ faulted = FALSE

\* Lines 97-108: os.walk lists the .c/.h files that exist now.
StartRun ==
    /\ phase = "idle"
    /\ runs < MaxRuns
    /\ phase' = "walk"
    /\ pending' = {f \in Files : disk[f] # Absent}
    /\ runs' = runs + 1
    /\ faulted' = FALSE
    /\ UNCHANGED <<disk, bak, writable, cur, modified, crashes, edits, intended, renamed>>

\* Lines 36-49: neither read decodes the file; process_file returns False.
ReadFails(f) ==
    /\ phase = "walk" /\ f \in pending
    /\ ~Decodes(disk[f])
    /\ pending' = pending \ {f}
    /\ UNCHANGED <<disk, bak, writable, phase, cur, modified, runs, crashes, edits, intended, renamed, faulted>>

\* Lines 52-67, 89-91: no line changed; nothing is written.
ReadUnchanged(f) ==
    /\ phase = "walk" /\ f \in pending
    /\ Decodes(disk[f])
    /\ ~FileChanged(disk[f])
    /\ pending' = pending \ {f}
    /\ UNCHANGED <<disk, bak, writable, phase, cur, modified, runs, crashes, edits, intended, renamed, faulted>>

\* Lines 52-67: some line changed; the commit of lines 68-88 begins.
ReadChanged(f) ==
    /\ phase = "walk" /\ f \in pending
    /\ Decodes(disk[f])
    /\ FileChanged(disk[f])
    /\ pending' = pending \ {f}
    /\ phase' = "rename"
    /\ cur' = f
    /\ modified' = [Redact(disk[f]) EXCEPT !.utf8 = TRUE]   \* written as UTF-8 (line 75)
    /\ renamed' = FALSE
    /\ UNCHANGED <<disk, bak, writable, runs, crashes, edits, intended, faulted>>

\* Lines 70-71: os.rename(filepath, backup_filepath) succeeds.
BackupRenamed ==
    /\ phase = "rename"
    /\ RenameOK(bak[cur])
    /\ bak' = [bak EXCEPT ![cur] = disk[cur]]
    /\ disk' = [disk EXCEPT ![cur] = Absent]
    /\ phase' = "write"
    /\ renamed' = TRUE
    /\ UNCHANGED <<writable, pending, cur, modified, runs, crashes, edits, intended, faulted>>

\* Lines 71, 79: the rename raises; control goes to the except clause.
BackupFails ==
    /\ phase = "rename"
    /\ RenameMayFail(bak[cur])
    /\ phase' = "restore"
    /\ faulted' = (faulted \/ RenameOK(bak[cur]))
    /\ UNCHANGED <<disk, bak, writable, pending, cur, modified, runs, crashes, edits, intended, renamed>>

\* Lines 75-78: open(filepath, 'w') and writelines complete; return True.
WriteDone ==
    /\ phase = "write"
    /\ disk' = [disk EXCEPT ![cur] = modified]
    /\ phase' = "walk"
    /\ cur' = None
    /\ modified' = None
    /\ UNCHANGED <<bak, writable, pending, runs, crashes, edits, intended, renamed, faulted>>

\* Lines 75-76, 79: open fails (no file) or writelines stops early (the disk
\* is full): a prefix of the new lines is on disk.
WriteFails ==
    /\ phase = "write"
    /\ \E c \in {Absent} \cup Torn(modified) : disk' = [disk EXCEPT ![cur] = c]
    /\ phase' = "restore"
    /\ faulted' = TRUE
    /\ UNCHANGED <<bak, writable, pending, cur, modified, runs, crashes, edits, intended, renamed>>

\* Lines 82-88: os.path.exists(backup_filepath) is False; return False.
NoBackupToRestore ==
    /\ phase = "restore"
    /\ bak[cur] = Absent
    /\ phase' = "walk" /\ cur' = None /\ modified' = None
    /\ UNCHANGED <<disk, bak, writable, pending, runs, crashes, edits, intended, renamed, faulted>>

\* Lines 82-85: whatever <file>.bak holds is renamed back to <file>.
BackupRestored ==
    /\ phase = "restore"
    /\ bak[cur] # Absent
    /\ RenameOK(disk[cur])
    /\ disk' = [disk EXCEPT ![cur] = bak[cur]]
    /\ bak' = [bak EXCEPT ![cur] = Absent]
    /\ phase' = "walk" /\ cur' = None /\ modified' = None
    /\ UNCHANGED <<writable, pending, runs, crashes, edits, intended, renamed, faulted>>

\* Lines 86-88: the restoring rename raises too; return False.
RestoreFails ==
    /\ phase = "restore"
    /\ bak[cur] # Absent
    /\ RenameMayFail(disk[cur])
    /\ phase' = "walk" /\ cur' = None /\ modified' = None
    /\ faulted' = (faulted \/ RenameOK(disk[cur]))
    /\ UNCHANGED <<disk, bak, writable, pending, runs, crashes, edits, intended, renamed>>

\* Line 110: the walk is exhausted and the script exits.
FinishRun ==
    /\ phase = "walk" /\ pending = {}
    /\ phase' = "idle"
    /\ UNCHANGED <<disk, bak, writable, pending, cur, modified, runs, crashes, edits, intended, renamed, faulted>>

\* The process is killed (KeyboardInterrupt is not caught by the
\* `except Exception` clauses).  Killed after the backup rename, the file
\* is missing (before open, line 75) or holds a prefix of the new lines.
Crash ==
    /\ phase # "idle"
    /\ crashes < MaxCrashes
    /\ \/ phase # "write" /\ UNCHANGED disk
       \/ phase = "write" /\ \E c \in {Absent} \cup Torn(modified) : disk' = [disk EXCEPT ![cur] = c]
    /\ phase' = "idle" /\ pending' = {} /\ cur' = None /\ modified' = None
    /\ crashes' = crashes + 1
    /\ UNCHANGED <<bak, writable, runs, edits, intended, renamed, faulted>>

\* Between runs the user gives a file new content (recreating it if absent).
EditFile(f, c) ==
    /\ phase = "idle"
    /\ edits < MaxEdits
    /\ disk' = [disk EXCEPT ![f] = c]
    /\ intended' = [intended EXCEPT ![f] = c]
    /\ edits' = edits + 1
    /\ UNCHANGED <<bak, writable, phase, pending, cur, modified, runs, crashes, renamed, faulted>>

\* Between runs the directory's permissions change.
SetPermissions ==
    /\ phase = "idle"
    /\ writable' = ~writable
    /\ UNCHANGED <<disk, bak, phase, pending, cur, modified, runs, crashes, edits, intended, renamed, faulted>>

Next ==
    \/ StartRun
    \/ \E f \in Files : ReadFails(f) \/ ReadUnchanged(f) \/ ReadChanged(f)
    \/ BackupRenamed \/ BackupFails
    \/ WriteDone \/ WriteFails
    \/ NoBackupToRestore \/ BackupRestored \/ RestoreFails
    \/ FinishRun \/ Crash
    \/ \E f \in Files, c \in EditContents : EditFile(f, c)
    \/ SetPermissions

Spec == Init /\ [][Next]_vars

-----------------------------------------------------------------------------
\* Every file and backup is a sequence of lines as readlines splits them:
\* a redacted line written back keeps its newline (line 60), so writelines
\* never runs two lines into one, and a torn write cuts only the last.
TypeOK ==
    /\ disk \in [Files -> Content \cup {Absent}]
    /\ bak \in [Files -> Content \cup {Absent}]
    /\ writable \in BOOLEAN
    /\ phase \in {"idle", "walk", "rename", "write", "restore"}
    /\ pending \subseteq Files
    /\ cur \in Files \cup {None}
    /\ modified \in Content \cup {None}
    /\ (phase \in {"rename", "write", "restore"}) <=> cur # None
    /\ intended \in [Files -> Content]
    /\ faulted \in BOOLEAN

\* What the user would accept back for f: the content they gave it, or its
\* redaction.
Good(f) == {intended[f], Redact(intended[f])}

\* Spec sections 4.3 and 7: whatever fails or is interrupted, the file or
\* its .bak still holds the user's content or its redaction; the
\* backup-then-write of process_file never leaves both lost.
Recoverable == \A f \in Files : disk[f] \in Good(f) \/ bak[f] \in Good(f)

\* Spec sections 1 and 4.3: a run of the script that completes in a
\* writable directory, with no write failure and no transient rename
\* failure, leaves no decodable file holding a listed macro's value: every
\* one equals its redaction.  process_file's rename of line 71 must succeed
\* for every file that needs a change, whatever .bak an earlier run, or
\* the user, left beside it.
CleanRunRedactsAll ==
    [][FinishRun /\ writable /\ ~faulted
         => \A f \in Files : disk[f] # Absent /\ Decodes(disk[f])
                                => disk[f] = Redact(disk[f])]_vars

\* The file and backup the user sees when process_file's steps are taken
\* as one: while cur's content sits in <file>.bak after the rename, that is
\* still the file, and the older backup the rename replaced is gone.
AbsFile == [f \in Files |-> IF cur = f /\ renamed THEN bak[f] ELSE disk[f]]
AbsBackup == [f \in Files |-> IF cur = f /\ renamed THEN Absent ELSE bak[f]]

Abs == INSTANCE BackupCommit
           WITH file <- AbsFile, backup <- AbsBackup,
                Contents <- Content, Rewrite <- Redact

\* Spec sections 4.3 and 5: process_file's rename, write and restore, with
\* any one of its calls failing, look like one atomic commit of the
\* redaction (old content to <file>.bak) or no change at all; an unchanged
\* file's backup is never touched.
ImplementsBackupCommit == Abs!Spec
=============================================================================
