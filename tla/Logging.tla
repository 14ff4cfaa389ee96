------------------------------- MODULE Logging -------------------------------
(***************************************************************************)
(* The log that all recorders share, and the launcher that looks there for *)
(* the reason why the recorder it started went away.                       *)
(*                                                                         *)
(* Each process has the file open that was undo.log when it last looked.   *)
(* To write a line it takes the lock of the sidecar file, opens undo.log   *)
(* again if that is another file by now, moves the file to undo.log.1 if   *)
(* it has grown too large, and appends, a piece of the line at a time.  A  *)
(* process may die at any point of this; the kernel then drops its lock,   *)
(* and what it had staged stays under its temporary name.  A line that was *)
(* begun and not finished stays torn, and the next one continues it.       *)
(* Process ids are used again.                                             *)
(*                                                                         *)
(* A panic hook that cannot have the lock at once writes no line, which    *)
(* changes nothing here.  Inode numbers are not used again.                *)
(***************************************************************************)
EXTENDS Naturals, Sequences, FiniteSets, FiniteSetsExt, SequencesExt

CONSTANTS
    Writer,      \* process ids
    NoFile,
    MaxBytes,    \* MAX_LOG_BYTES: lines after which a file is moved away
    MaxLines,    \* bound: lines written
    MaxInodes,   \* bound: files created
    MaxLives,    \* bound: processes started
    MaxDeaths    \* bound: processes that are killed, calls that fail

ASSUME LogConstants ==
    /\ {MaxBytes, MaxLines, MaxInodes, MaxLives, MaxDeaths} \subseteq Nat
    /\ NoFile \notin Nat \cup Writer

VARIABLES
    active,      \* the file undo.log names
    archive,     \* the file undo.log.1 names
    staged,      \* the file under each process's temporary name
    leftover,    \* files under temporary names of earlier rotations
    inodes,      \* how many files were created
    lines,       \* what is in each file: indices of written
    written,     \* every line written so far: its process, its life, its level
                 \* ("head" as long as " [pid] ERROR " is not all there), and
                 \* whether it is whole, with its newline
    fd,          \* the file each process has open
    step,        \* where each process is
    life,        \* how often each pid was given out
    lock,        \* who holds the sidecar's lock
    launch,      \* the launcher: its cursor, its child, what it reported
    deaths

files == <<active, archive, staged, leftover, inodes, lines>>
logVars == <<files, written, fd, step, life, lock, launch, deaths>>

Nobody == NoFile
NoCursor == [file |-> NoFile, offset |-> 0]
Running(p) == step[p] # "off"
Started == MapThenSumSet(LAMBDA p : life[p], Writer)

\* open_append_0600 creates the file where there is none.
Opened == IF active = NoFile THEN inodes + 1 ELSE active
OpenAppend(p) ==
    /\ Opened <= MaxInodes
    /\ fd' = [fd EXCEPT ![p] = Opened]
    /\ active' = Opened
    /\ inodes' = Max({inodes, Opened})
    /\ UNCHANGED <<archive, staged, leftover, lines>>

LogInit ==
    /\ active = NoFile /\ archive = NoFile
    /\ staged = [p \in Writer |-> NoFile]
    /\ leftover = {}
    /\ inodes = 0
    /\ lines = [i \in 1..MaxInodes |-> <<>>]
    /\ written = <<>>
    /\ fd = [p \in Writer |-> NoFile]
    /\ step = [p \in Writer |-> "off"]
    /\ life = [p \in Writer |-> 0]
    /\ lock = Nobody
    /\ launch = [at |-> "idle", cursor |-> NoCursor, free |-> {},
                 child |-> Nobody, life |-> 0, reason |-> {}, there |-> {}, torn |-> {}]
    /\ deaths = 0

----------------------------------------------------------------------------
(* A process and its log (Logger). *)

Goes(p, at) == step' = [step EXCEPT ![p] = at]

\* logging::init, for a process started elsewhere.
Start(p) ==
    /\ ~Running(p)
    /\ Started < MaxLives
    /\ launch.child # p
    /\ OpenAppend(p)
    /\ Goes(p, "idle")
    /\ life' = [life EXCEPT ![p] = @ + 1]
    /\ launch' = [launch EXCEPT !.free = @ \ {p}]
    /\ UNCHANGED <<written, lock, deaths>>

\* AdvisoryLockGuard::acquire.
Acquire(p) ==
    /\ step[p] = "idle"
    /\ lock = Nobody
    /\ Len(written) < MaxLines
    /\ lock' = p
    /\ Goes(p, "locked")
    /\ UNCHANGED <<files, written, fd, life, launch, deaths>>

\* Bug: the file is not looked up again.
KeepOpenFile(p) ==
    /\ step[p] = "locked"
    /\ Goes(p, "refreshed")
    /\ UNCHANGED <<files, written, fd, life, lock, launch, deaths>>

\* refresh_active_file.
Refresh(p) ==
    /\ step[p] = "locked"
    /\ IF fd[p] = active THEN UNCHANGED <<files, fd>> ELSE OpenAppend(p)
    /\ Goes(p, "refreshed")
    /\ UNCHANGED <<written, life, lock, launch, deaths>>

\* rotate_if_needed_with: nothing to do, or no file can be staged (always so
\* when MaxInodes are there).
Stays(p) ==
    /\ step[p] = "refreshed"
    /\ IF Len(lines[fd[p]]) < MaxBytes \/ inodes = MaxInodes THEN UNCHANGED deaths
       ELSE deaths < MaxDeaths /\ deaths' = deaths + 1
    /\ Goes(p, "writing")
    /\ UNCHANGED <<files, written, fd, life, lock, launch>>

\* stage_rotation_file.
Stage(p) ==
    /\ step[p] = "refreshed"
    /\ Len(lines[fd[p]]) >= MaxBytes
    /\ inodes < MaxInodes
    /\ inodes' = inodes + 1
    /\ staged' = [staged EXCEPT ![p] = inodes + 1]
    /\ Goes(p, "staged")
    /\ UNCHANGED <<active, archive, leftover, lines, written, fd, life, lock, launch, deaths>>

\* atomic_exchange, and the new file is the open one.
Exchange(p) ==
    /\ step[p] = "staged"
    /\ active' = staged[p]
    /\ fd' = [fd EXCEPT ![p] = staged[p]]
    /\ staged' = [staged EXCEPT ![p] = active]
    /\ Goes(p, "exchanged")
    /\ UNCHANGED <<archive, leftover, inodes, lines, written, life, lock, launch, deaths>>

\* The exchange fails: the staged file is removed.
Unstage(p) ==
    /\ step[p] = "staged"
    /\ deaths < MaxDeaths
    /\ deaths' = deaths + 1
    /\ staged' = [staged EXCEPT ![p] = NoFile]
    /\ Goes(p, "writing")
    /\ UNCHANGED <<active, archive, leftover, inodes, lines, written, fd, life, lock, launch>>

\* The displaced file replaces the archive, or keeps its temporary name.
Archive(p) ==
    /\ step[p] = "exchanged"
    /\ staged' = [staged EXCEPT ![p] = NoFile]
    /\ \/ /\ archive' = staged[p]
          /\ UNCHANGED <<leftover, deaths>>
       \/ /\ deaths < MaxDeaths
          /\ deaths' = deaths + 1
          /\ leftover' = leftover \cup {staged[p]}
          /\ UNCHANGED archive
    /\ Goes(p, "writing")
    /\ UNCHANGED <<active, inodes, lines, written, fd, life, lock, launch>>

\* writeln! to a file without a buffer: one write for each piece of the line
\* (O_APPEND), so that others can read less than all of it, until the newline.
BeginLine(p, level) ==
    /\ step[p] = "writing"
    /\ written' = Append(written,
           [pid |-> p, life |-> life[p], level |-> level, whole |-> FALSE])
    /\ lines' = [lines EXCEPT ![fd[p]] = Append(@, Len(written'))]
    /\ Goes(p, "half")
    /\ UNCHANGED <<active, archive, staged, leftover, inodes, fd, life, lock, launch, deaths>>

\* The last piece is written, and the lock is released: under the lock, the
\* line begun is the last of all.
FinishLine(p, level) ==
    /\ step[p] = "half"
    /\ written[Len(written)].level \in {"head", level}
    /\ written' = [written EXCEPT ![Len(written)] = [@ EXCEPT !.level = level, !.whole = TRUE]]
    /\ lock' = Nobody
    /\ Goes(p, "idle")
    /\ UNCHANGED <<files, fd, life, launch, deaths>>

\* undo.log cannot be opened, or a write fails (no space is left): the line is
\* given up where it is, and the process goes on.
GiveUp(p) ==
    /\ step[p] \in {"locked", "writing", "half"}
    /\ deaths < MaxDeaths
    /\ deaths' = deaths + 1
    /\ lock' = Nobody
    /\ Goes(p, "idle")
    /\ UNCHANGED <<files, written, fd, life, launch>>

Dies(p) ==
    /\ Goes(p, "off")
    /\ fd' = [fd EXCEPT ![p] = NoFile]
    /\ leftover' = leftover \cup ({staged[p]} \ {NoFile})
    /\ staged' = [staged EXCEPT ![p] = NoFile]
    /\ lock' = IF lock = p THEN Nobody ELSE lock
    /\ UNCHANGED <<active, archive, inodes, lines, written, life, launch>>

Exit(p) == step[p] = "idle" /\ Dies(p) /\ UNCHANGED deaths
Kill(p) == Running(p) /\ deaths < MaxDeaths /\ deaths' = deaths + 1 /\ Dies(p)

----------------------------------------------------------------------------
(* The launcher (ensure_recording). *)

\* startup_log_cursor, before the recorder is started.
TakeCursor ==
    /\ launch.at = "idle"
    /\ launch' = [launch EXCEPT !.at = "cursor", !.cursor =
           IF active = NoFile THEN NoCursor
           ELSE [file |-> active, offset |-> Len(lines[active])],
           !.free = {p \in Writer : ~Running(p)}]
    /\ UNCHANGED <<files, written, fd, step, life, lock, deaths>>

\* The kernel hands out pids in order: the next one is not that of a process
\* that was running a moment ago.
Spawn(p) ==
    /\ launch.at = "cursor"
    /\ p \in launch.free
    /\ Started < MaxLives
    /\ life' = [life EXCEPT ![p] = @ + 1]
    /\ launch' = [launch EXCEPT !.at = "waiting", !.free = {}, !.child = p, !.life = life[p] + 1]
    /\ OpenAppend(p)
    /\ Goes(p, "idle")
    /\ UNCHANGED <<written, lock, deaths>>

\* Bug: the offset is used whichever file is there.
OffsetAlways == launch.cursor.offset
\* The offset is that of the file the cursor was taken from.
Offset ==
    IF active = launch.cursor.file /\ Len(lines[active]) >= launch.cursor.offset
    THEN launch.cursor.offset ELSE 0

Errors(ids, pid) == {i \in ids : written[i].pid = pid /\ written[i].level = "error"}

\* is_structured_log_line: the line before it ends with a newline, and its own
\* head is complete.  Any other continues what is before it.
Structured(read, k) == written[read[k - 1]].whole /\ written[read[k]].level # "head"
Continues(read, j, k) == \A i \in j + 1 .. k : ~Structured(read, i)

\* latest_process_error: from the first " [pid] ERROR " of the message that has
\* the last one, with all that continues it.
LatestError(read, pid) ==
    LET found == {k \in DOMAIN read : read[k] \in Errors(ToSet(read), pid)}
        from == Min({j \in found : Continues(read, j, Max(found))})
    IN IF found = {} THEN {}
       ELSE {read[k] : k \in {k \in DOMAIN read : k >= from /\ Continues(read, from, k)}}

\* startup_error_from_log.  A message of nothing but blanks is no reason: that
\* of a line cut just there.  there is what an onlooker would have found: the
\* errors of that very process.
LookForReason ==
    /\ launch.at = "waiting"
    /\ ~Running(launch.child)
    /\ LET read == SubSeq(lines[active], Offset + 1, Len(lines[active]))
           error == LatestError(read, launch.child)
           torn == {i \in error : ~written[i].whole}
       IN \E reason \in {error, {}} :
          /\ reason = {} => error = {} \/ \E i \in torn : error = {i}
          /\ launch' = [launch EXCEPT !.at = "done", !.reason = reason, !.torn = torn,
                 !.there = {i \in Errors(ToSet(lines[active]), launch.child) :
                                written[i].life = launch.life}]
    /\ UNCHANGED <<files, written, fd, step, life, lock, deaths>>

LogNext ==
    \/ \E p \in Writer :
        \/ Start(p) \/ Acquire(p) \/ Refresh(p) \/ Stays(p) \/ Stage(p) \/ Exchange(p)
        \/ Unstage(p) \/ Archive(p) \/ Exit(p) \/ Kill(p) \/ Spawn(p)
        \/ GiveUp(p)
        \/ \E level \in {"head", "info", "error"} : BeginLine(p, level)
        \/ \E level \in {"info", "error"} : FinishLine(p, level)
    \/ TakeCursor \/ LookForReason

LogSpec == LogInit /\ [][LogNext]_logVars

----------------------------------------------------------------------------
Linked == ({active, archive} \cup leftover \cup {staged[p] : p \in Writer}) \ {NoFile}
LinesIn(fs) == UNION {ToSet(lines[f]) : f \in fs \ {NoFile}}

LogTypeOK ==
    /\ Linked \subseteq 1..inodes
    /\ inodes \in 0..MaxInodes
    /\ lock \in Writer \cup {Nobody}
    /\ \A p \in Writer : fd[p] = NoFile \/ fd[p] \in 1..inodes
    /\ LinesIn(1..inodes) = DOMAIN written
    /\ deaths \in 0..MaxDeaths

(* With several processes writing, rotating and dying, undo.log is always *)
(* there once it has been created, and the only lines that are gone are   *)
(* older than everything in undo.log and undo.log.1 (Logger).             *)
NewestLinesKept ==
    /\ inodes > 0 => active # NoFile
    /\ \A i \in DOMAIN written \ LinesIn(Linked) :
          \A k \in LinesIn({active, archive}) : i < k

(* What `undo start` reports begins with an error of the recorder it      *)
(* started, of no earlier process with the same pid, and has the last one *)
(* that is in undo.log, rotated or not (startup_error_from_log).  It has  *)
(* anything else in it, or is missing, only where a line was torn by a    *)
(* kill or a failed write, or was being written just then.                *)
ReasonIsTheRecorders ==
    launch.at = "done" =>
        IF launch.there = {} THEN launch.reason = {}
        ELSE LET last == Max(launch.there) IN
             /\ last \in launch.reason \/ (launch.reason = {} /\ last \in launch.torn)
             /\ launch.reason # {} =>
                    \E i \in launch.reason \cap launch.there : \A k \in launch.reason : i <= k
             /\ launch.reason \ {last} # {} => launch.reason \cap launch.torn # {}
==============================================================================
