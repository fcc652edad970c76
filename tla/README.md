# TLA+ models of the onesdk maintenance scripts and examples

This directory holds TLA+ models of the Python code in the repository. That
code is the maintenance scripts under `src/scripts/` and the raw-HTTP example
server. TLC checks the models. The C SDK itself is not part of this source
tree. Everything here is translated from the Python source. `PROJECT.json`
maps every definition to the lines it models.

## The system's parts

| Part | Source | What it does | State it changes |
|---|---|---|---|
| Sensitive macro redaction | `scripts/replace_sensitive.py` | walks `examples/` and `tests/`. For each `.c`/`.h` file whose `#define` of a listed macro is not yet `"***"`, it renames the file to `<file>.bak`, writes the redacted lines, and on an exception renames the backup back. | the files and their `.bak` siblings |
| License header insertion | `scripts/add_license_header.py` | walks a directory. Each C/C++ file without the copyright marker is opened `r+` and the header plus the old text is written over it in place. | the files |
| Windows support for CMake | `scripts/update_windows_support.py` | inserts a platform-detection block after `project(...)`, a `set(PLATFORM_LIBS ...)` block before the first `target_link_libraries`, and appends `${PLATFORM_LIBS})` after each link call | `CMakeLists.txt` |
| Link syntax repair | `scripts/fix_cmake_syntax.py` | merges a link call ending in `})` with a following `${PLATFORM_LIBS})` line | `CMakeLists.txt` |
| Version repair | `scripts/fix_cmake_versions.py` | rewrites `cmake_minimum_required(VERSION 3.x)`, for one digit x, to 3.10 | `CMakeLists.txt` |
| HTTP echo server | `examples/raw_http_chat/simple_http_server.py` | single-threaded `HTTPServer`. A POST reads `Content-Length` bytes and echoes them. | none (the socket) |
| Build probes | `scripts/test_windows_build.py`, `scripts/test_cmake_config.py` | run cmake, git and compilers and report a verdict. The first leaves `build_test/` behind on failure. | the `build_test` directory |

The scripts do not call one another. They interact through the files they
share:
- The three CMake scripts are run by hand, in any order, on the same
  `CMakeLists.txt`. `fix_cmake_syntax.py` exists to repair what
  `update_windows_support.py` writes.
- `replace_sensitive.py` meets its own earlier runs through the `.bak`
  files it leaves.
- Any script may be killed part-way through a write and run again.

What makes them hard:
- None of the writes is atomic. `open('w')` truncates the file, and
  `r+` with `seek(0)` overwrites it in place.
- A rename behaves differently on POSIX and on Windows.
- `KeyboardInterrupt` is not caught by `except Exception`.
- The regexes and `rstrip` have edge cases.

## Modules

### SensitiveRedaction (replace_sensitive.py): modelled

State:
- `disk[f]`: the content at `f`.
- `bak[f]`: the content at `f.bak`. Either may be `Absent`.
- `writable`: directory permissions.
- `phase`, `pending`, `cur`, `modified`: the walk, and `process_file`'s
  position in its commit.
- Bounded counters.
- `intended`: history, the content the user last gave each file.
- `renamed`, `faulted`: history. `renamed` says that the current file's
  backup rename succeeded. `faulted` says that this run met a write
  failure or a transient rename failure.

A content is a sequence of lines, each abstracted to three fields:
- `m`: whether the regex of line 31 matches it with a listed macro;
- `v`: the quoted value;
- `nl`: whether it ends in a newline.

There is also a UTF-8 flag. Each file-system call is its own action, so
that a failure of one call, or a kill between two, is a state:
- `ReadFails`, `ReadUnchanged` and `ReadChanged` cover the read and the
  line loop.
- `BackupRenamed` / `BackupFails` cover `os.rename` to `.bak`.
- `WriteDone` / `WriteFails` cover `open('w')` and `writelines`. A failure
  may leave a torn prefix.
- `NoBackupToRestore`, `BackupRestored` and `RestoreFails` cover the
  except clause.
- `FinishRun` ends the walk. `Crash` models a kill, which tears the file
  if it happens inside the write.

Between runs, `EditFile` and `SetPermissions` model the user. The constant
`RenameReplaces` selects POSIX or Windows rename semantics.
`TransientFailures` lets a rename fail for a reason that does not persist.
`CleanRunRedactsAll` is an action property about `FinishRun`. It says that
a run in a writable directory, with no write failure and no transient
rename failure, leaves every decodable file equal to its redaction.
The read fallback of line 42 uses `sys.getdefaultencoding()`, which is
UTF-8 in Python 3. The model therefore decodes exactly what UTF-8 decodes.

### LicenseHeader (add_license_header.py): modelled

State:
- `disk[f]`: a sequence of symbols, plus a UTF-8 flag.
- `readOnly`: files that `open(..., 'r+')` refuses.
- `phase`, `pending`: the walk.
- `exit`: how the last run ended.
- Counters.
- `original`: history.

The header is three symbols: the text before the marker completes, the
part that completes the marker, and the rest. A partial write can
therefore leave a header with or without its marker.

Actions:
- `OpenRaises` and `ReadRaises` are the uncaught exceptions that end the
  script.
- `SkipLicensed` and `AddHeader` are the two branches of line 27.
- `KilledInWrite` is a kill that leaves the first k symbols of the new text
  over the old.
- `StartRun` / `FinishRun` begin and end the walk.

### CMakeRewrite (the three CMake scripts): modelled

A text is a sequence of characters over a small alphabet. `( ) $ { } \n` and
space are themselves. Each keyword the scripts look for is one character,
and each block the scripts insert is one character whose own parentheses
are balanced.

The scripts' string operations are operators:
- `SplitLines` and `JoinLines`;
- `RStrip(s, cs)`, which strips a *set* of characters, as Python does;
- `Strip`;
- the regex matches `ProjectMatchEnd` and `LinkMatchEnd`. The latter
  models the greedy `\s*$` under `re.MULTILINE` backtracking to the last
  position where `$` holds.

`UpdateCMakeLists`, `FixLinkSyntax` and `FixVersion` are the three
functions. Each script run is one action that applies its function to the
file: `RunUpdateWindowsSupport`, `RunFixCMakeSyntax`, `RunFixCMakeVersions`.
`last` records which script wrote the file last.

`KilledInWrite` is a kill inside the `with open(file_path, 'w')` block of
whichever script would write. A script writes only when it does not return
early (`WriteBacks`). `open('w')` has already truncated the file, and a
`CMakeLists.txt` is far smaller than the 8 KiB write buffer, so the killed
write leaves the file empty.

The directory walks are folded into the per-file run, because each file is
read and written on its own.

### BackupCommit: the abstract rewriter, and SensitiveRedaction's refinement

`BackupCommit` is what spec sections 4.3 and 5 promise of a backup-safe
rewriter, file by file. It has two variables, `file` and `backup`, and
three actions:
- `Commit(f)` replaces the file by `Rewrite(file)` in one step and moves
  the old content to the backup. It is enabled only if the rewrite changes
  something.
- `DropBackup(f)` loses an older backup while the file stays as it was.
- `Edit(f, c)` is the user editing the file.

`SensitiveRedaction` defines `Abs == INSTANCE BackupCommit WITH ...`, with
`Rewrite <- Redact`. The mapping says what the user sees while
`process_file` is between its steps:
- After the backup rename (history flag `renamed`), `<file>.bak` is still
  "the file".
- The older backup that the rename replaced is gone.

`ImplementsBackupCommit == Abs!Spec` is checked as a PROPERTY.

### HttpServer (simple_http_server.py): modelled

State:
- `cstate[c]`: each client's progress.
- `req[c]`: the request the client sent, abstracted to four fields: the
  method; whether its Content-Length header is a number, missing or
  invalid, together with the number; the body bytes actually sent; and
  whether those bytes are UTF-8.
- `sent[c]`: the client has sent its request line, headers and body bytes.
- `eof[c]`: the client has called `shutdown(SHUT_WR)`.
- `backlog`: the listen queue, in FIFO order.
- `conn`, `step`: the one server thread.

Actions:
- `Accept` is `serve_forever` taking the next connection. The handler
  then blocks reading the request line and headers.
- `ReadHeaders` is that read completing once the client has sent them.
  `NoRequest` is the read returning empty because the client shut down
  first; the connection is closed with no response. Both are the
  standard library's `handle_one_request`, which the handler class of
  line 4 inherits.
- `DoGET` is lines 5-15.
- `LengthRaises` is line 24 raising. socketserver's `handle_error` then
  closes the connection with no response.
- `StartBody` is the handler entering `rfile.read`.
- `BodyAnswered` and `BodyRaises` are the read returning, after which the
  decode of line 26 either succeeds or raises.
- `Connect`, `SendRequest` and `Shutdown` are the clients. A client may
  connect and never send anything.

`rfile.read(n)` returns once n bytes are there or at EOF. `read(-1)` waits
for EOF. Neither read has a timeout. The handler keeps the default `HTTP/1.0`, so every connection is
closed after one request.

### Not modelled

- **The build probes** (`test_windows_build.py`, `test_cmake_config.py`).
  They are test scripts. Each runs cmake, git or a compiler as an external
  process and prints a verdict from its exit status. Their only own state
  is the `build_test` directory. A model would only enumerate the tools'
  outcomes.

## Runs

| Run | Expect | What it shows |
|---|---|---|
| `redact_windows` | pass | Under Windows rename semantics, the run has write failures, restore failures, a kill, stale backups from earlier runs, one user edit and permission changes, over three runs. Every file or its `.bak` still holds the user's content or its redaction (`Recoverable`). Files keep the line structure readlines gives (`TypeOK`). 640,510 states. |
| `redact_posix_refines` | pass | On POSIX with no kill, with write failures, permission changes and an edit, `process_file` implements `BackupCommit` (`ImplementsBackupCommit`). A run that completes with no write failure, in a writable directory, redacts every decodable file, whatever `.bak` files are left from earlier runs (`CleanRunRedactsAll`). 81,150 states. |
| `redact_windows_refines` | violation | On Windows, a `writelines` that fails partway is not undone. The restoring rename fails because the torn file exists, so the torn file stays at the path. |
| `redact_windows_stale` | violation | On Windows, a run in which no call fails for a transient reason still leaves a file unredacted when a `.bak` of it exists. The backup rename raises `FileExistsError`, and the except clause reports it and moves on. Every later run does the same. |
| `redact_posix_crash` | violation | On POSIX, a kill inside `writelines` leaves a torn file whose last line lacks its newline. The next run sees a change and renames the torn file over the good `.bak`, so the original is lost. |
| `redact_stale_backup` | violation | The backup rename fails while a `.bak` from an earlier run exists. The except clause then restores that older content over the user's current file. |
| `license_double` | violation | A kill early in the in-place write leaves the start of the header without its marker. The next run does not see the marker and writes a whole header in front of the fragment. |
| `license_crash` | violation | A kill during the in-place write destroys the start of the original text, and there is no backup. |
| `cmake` | pass | The scripts run up to six times, in every order, on four example files, and any run that writes may be killed inside its write. One of the files is a subdirectory file without `project()`. `${PLATFORM_LIBS}` is used only after it is set (`PlatformLibsSetBeforeUse`). Running a script again right after it ran changes nothing (`RerunChangesNothing`, the spec's idempotence). 173 states. |
| `cmake_fix_truncates` | violation | From a link call ending in a variable, with or without a final newline. Without one, `rstrip('})')` also removes the `}` of `${ONESDK_LIBS}`, giving `target_link_libraries(demo ${ONESDK_LIBS ${PLATFORM_LIBS})`. The real scripts give the same output. With one, the greedy `\s*$` of line 79 takes the final newline, so `${PLATFORM_LIBS})` lands after a blank line that `fix_cmake_syntax.py` does not merge. |
| `http` | pass | Three clients may send nothing, send any kind of request, or shut down early. Only `serve_forever` is weakly fair. Every connected client is answered or has its connection closed, unless the server is blocked on a client that still owes it its headers or body bytes (`ServedUnlessClientStalls`). 465,341 states. |
| `http_stall` | violation | A client that connects and stops sending, before its headers or inside its body, holds the only server thread. A well-formed GET queued behind it is never answered. |

Each property of a passing run has a mutant in `PROJECT.json`. A mutant is
a plausible bug in a mapped definition, and TLC finds the property
violated when the mutant is used. For example:
- a redacted line built without `\n` breaks `TypeOK`;
- using `os.replace` breaks `Recoverable` on Windows;
- keying the guard of `update_windows_support.py` on the detection block
  breaks `RerunChangesNothing`.

## Bounds and why they suffice

**Redaction.** The passing runs have three files (symmetric), so one walk can commit a file, fail on another and be killed on the third; the violation runs use two, for short traces. Files have at most two lines each,
three runs, one kill and one edit. Every failure path of `process_file` is
reached, both with and without a stale `.bak`. The two-line contents let a
torn write cut a file between lines or inside its last line. The initial
contents cover three cases: a file with a secret, a file already redacted,
and a non-UTF-8 file.

**License.** The model has three files and three runs, with up to two
kills, enough to kill a file and then rerun the script on it. The initial
texts cover several cases: body only, already licensed, and not UTF-8.

**CMake.** The model has six runs, so each script can run twice after each
other script, and a script can run again on a file a kill emptied. There
are four initial texts:
- one link call ending in a variable with no final newline;
- the same with a final newline;
- a call ending in a plain name followed by more text;
- a subdirectory file with no `project()` call.

## Fairness

**The scripts.** None. They are one-shot programs run by hand, so nothing
obliges a rerun. Their properties are safety properties, including the
refinement. The runs set `CHECK_DEADLOCK FALSE` because a state where the
run bound is reached and the script has exited really is final.

**The HTTP server.** `Spec` includes `WF_vars(ServerNext)`. `serve_forever`
is a loop on a thread that runs as long as the process does, so a server
step that stays enabled is eventually taken. The clients get no fairness:
- a real client may wait forever without closing;
- it may never connect.

Liveness is therefore stated only about what the server owes. Symmetry is
not used in the HTTP runs because they check liveness. The HTTP runs also
set `CHECK_DEADLOCK FALSE`: once every client is done, nothing is left to
do.

## Plan for the next sittings

1. **Larger instances.** Four clients in HttpServer would show whether the
   backlog order matters beyond three. The three-client run already takes
   over a minute with its liveness property.
2. **The license script's pass run.** Every property of `LicenseHeader`
   found so far is violated by the code (`license_crash`,
   `license_double`), so the module has no passing run yet.
