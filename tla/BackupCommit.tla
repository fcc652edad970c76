----------------------------- MODULE BackupCommit -----------------------------
(***************************************************************************)
(* What a backup-safe rewriter promises (spec sections 4.3 and 5), per     *)
(* file: the file is either left alone, or it is replaced in one step by   *)
(* its rewrite while its old content moves to the backup.  The one other   *)
(* thing a rewrite may do to the backup is drop an older one it replaces.  *)
(* The user may give a file any content between runs.  A file that needs  *)
(* no rewrite is never committed, so its backup is never touched.          *)
(***************************************************************************)
CONSTANTS
    Files,
    Contents,     \* contents a file may hold
    Absent,       \* no file at the path
    Rewrite(_)    \* the transformation the rewriter applies

VARIABLES
    file,    \* file[f]: the content at f
    backup   \* backup[f]: the content of f's backup, or Absent

Init ==
    /\ file \in [Files -> Contents]
    /\ backup \in [Files -> Contents \cup {Absent}]

\* The rewrite of f is committed: new content in place, old in the backup.
Commit(f) ==
    /\ file[f] # Absent
    /\ Rewrite(file[f]) # file[f]
    /\ file' = [file EXCEPT ![f] = Rewrite(file[f])]
    /\ backup' = [backup EXCEPT ![f] = file[f]]

\* A rewrite of f that needed a change replaced f's older backup and then
\* gave up, leaving f as it was.
DropBackup(f) ==
    /\ file[f] # Absent
    /\ Rewrite(file[f]) # file[f]
    /\ backup' = [backup EXCEPT ![f] = Absent]
    /\ UNCHANGED file

\* The user edits f.
Edit(f, c) ==
    /\ file' = [file EXCEPT ![f] = c]
    /\ UNCHANGED backup

Next == \E f \in Files : Commit(f) \/ DropBackup(f) \/ \E c \in Contents : Edit(f, c)

Spec == Init /\ [][Next]_<<file, backup>>
=============================================================================
