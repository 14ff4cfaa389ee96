------------------------------- MODULE Recorder -------------------------------
(***************************************************************************)
(* The recorder of one project: the `undo start` process that scans the    *)
(* tree, then turns filesystem notifications into file_events rows while   *)
(* the user goes on changing files.                                        *)
(*                                                                         *)
(* A notification says that something happened to a path, not what: the    *)
(* recorder stats and reads the file later, when the user may have changed *)
(* it again, when the project's filesystem may be gone, and behind a       *)
(* debouncer that puts off all but the first of a burst of writes.  The    *)
(* question is whether the recorded history still ends up saying what is   *)
(* on disk.                                                                *)
(*                                                                         *)
(* Every write gives a file a new stamp (its mtime and size); renaming     *)
(* keeps it.  Only regular files that are not ignored are modelled, and    *)
(* renames of single files: the recorder is sent nothing for the files     *)
(* inside a renamed directory.                                             *)
(*                                                                         *)
(* Two filesystems take turns at the root of the project.  One is there,   *)
(* or will be again; the other lies on a shelf until it is mounted there   *)
(* instead, empty or with files of its own.                                *)
(***************************************************************************)
EXTENDS Naturals, Sequences, SequencesExt, FiniteSets

CONSTANTS
    Path,       \* paths of regular files
    Content,    \* file contents
    None,       \* no content: the file does not exist
    MaxChanges, \* bound: changes the user makes
    MaxFaults   \* bound: outages, crashes, stops and failing handlers

ASSUME NoneAssumption == None \notin Content
ASSUME BoundAssumption == MaxChanges \in Nat /\ MaxFaults \in Nat

VARIABLES
    disk,       \* the files at the root, or there before it went away
    shelf,      \* the files of the other filesystem
    mount,      \* the root: "here", or "away": unmounted or hanging
    changes,    \* changes made so far, the source of stamps
    faults,     \* faults so far
    watching,   \* notifications are being delivered
    queue,      \* the channel from the watcher to the recorder
    rows,       \* file_state: latest_hash, exists_now, mtime_nanos and size
    recorded,   \* the state of each path according to its latest event
    pc,         \* where the recorder is
    op,         \* its local variables
    paused,     \* watch_events: paused
    hot,        \* Debouncer.last_event: paths processed in the last 500 ms
    pending,    \* Debouncer.pending: suppressed paths to be read again
    due,        \* pending paths whose deadline has passed
    missed,     \* history: paths whose latest change no one will report
    reborn,     \* history: paths a scan marked existing without an event
    removed,    \* history: paths the user has removed or renamed away
    guessed     \* history: paths that may be recorded as deleted by a guess

world == <<disk, shelf, mount, changes, faults>>
channel == <<watching, queue>>
history == <<rows, recorded, reborn, guessed>>
debouncer == <<hot, pending, due>>
vars == <<world, channel, history, debouncer, pc, op, paused,
          missed, removed>>

ContentOrNone == Content \cup {None}
Stamp == 0 .. MaxChanges
File == [content : ContentOrNone, stamp : Stamp]
NoFile == [content |-> None, stamp |-> 0]

Row == [hash : ContentOrNone, live : BOOLEAN, stamp : Stamp]
NoRow == [hash |-> None, live |-> FALSE, stamp |-> 0]

\* "name": Modify(Name) with one path; "both": with two; "exchange": with two,
\* one of them a restore temporary, which leaves path as the only real one.
Note == [kind : {"create", "modify", "remove", "name", "exchange"}, path : Path]
          \cup [kind : {"both"}, path : Path, old : Path]
Paths(n) == IF n.kind = "both" THEN {n.path, n.old} ELSE {n.path}

Location == {"down", "stopped", "walk", "scan", "ready", "top", "flush", "work", "drain"}
Op == [kind   : {"none", "create", "modify", "rename"},
       path   : SUBSET Path,        \* the path being captured
       old    : SUBSET Path,        \* rename: the old path
       stamp  : Stamp,              \* the metadata the handler was given
       trusted : BOOLEAN,           \* scan: trust_deletions
       next   : Location,           \* where to go on afterwards
       todo   : SUBSET Path,        \* scan: files still to be read
       walked : SUBSET Path,        \* scan: files the walk met
       found  : [Path -> File]]     \* scan: files read
NoOp == [kind |-> "none", path |-> {}, old |-> {}, stamp |-> 0, trusted |-> FALSE,
         next |-> "down", todo |-> {}, walked |-> {}, found |-> [q \in Path |-> NoFile]]

TypeOK ==
    /\ disk \in [Path -> File] /\ shelf \in [Path -> File]
    /\ mount \in {"here", "away"}
    /\ changes \in 0 .. MaxChanges /\ faults \in 0 .. MaxFaults
    /\ watching \in BOOLEAN /\ paused \in BOOLEAN
    /\ queue \in Seq(Note)
    /\ rows \in [Path -> Row]
    /\ recorded \in [Path -> ContentOrNone]
    /\ pc \in Location /\ op \in Op
    /\ hot \subseteq Path /\ pending \subseteq Path /\ due \subseteq pending
    /\ {missed, reborn, removed, guessed} \subseteq SUBSET Path

Init ==
    /\ disk = [q \in Path |-> NoFile] /\ shelf = disk
    /\ mount = "here"
    /\ changes = 0 /\ faults = 0
    /\ watching = FALSE /\ paused = FALSE
    /\ queue = <<>>
    /\ rows = [q \in Path |-> NoRow]
    /\ recorded = [q \in Path |-> None]
    /\ pc = "down" /\ op = NoOp
    /\ hot = {} /\ pending = {} /\ due = {}
    /\ missed = {} /\ reborn = {} /\ removed = {} /\ guessed = {}

-----------------------------------------------------------------------------
(* The user and the filesystem                                             *)

Single(kind, q) == [kind |-> kind, path |-> q]

\* The watcher turns a change of the given paths into these notifications.
Report(paths, notes) ==
    /\ changes < MaxChanges
    /\ mount = "here"
    /\ changes' = changes + 1
    /\ queue' = IF watching THEN queue \o notes ELSE queue
    /\ missed' = IF watching THEN missed \ paths ELSE missed \cup paths
    /\ UNCHANGED <<shelf, mount, faults, watching, history, debouncer, pc, op, paused>>

Exists(q) == disk[q].content # None

Write(q, c) ==
    /\ Report({q}, <<Single(IF Exists(q) THEN "modify" ELSE "create", q)>>)
    /\ disk' = [disk EXCEPT ![q] = [content |-> c, stamp |-> changes']]
    /\ UNCHANGED removed

Unlink(q) ==
    /\ Exists(q)
    /\ Report({q}, <<Single("remove", q)>>)
    /\ disk' = [disk EXCEPT ![q] = NoFile]
    /\ removed' = removed \cup {q}

\* Linux reports a rename as From, To and Both, macOS as one event per name.
Rename(a, b, both) ==
    /\ Exists(a) /\ a # b
    /\ Report({a, b}, <<Single("name", a), Single("name", b)>>
                        \o IF both THEN <<[kind |-> "both", path |-> b, old |-> a]>> ELSE <<>>)
    /\ disk' = [disk EXCEPT ![b] = disk[a], ![a] = NoFile]
    /\ removed' = removed \cup {a}

\* RestoreFs::write over an existing file: an exchange with a temporary.
Restore(q, c) ==
    /\ Exists(q)
    /\ Report({q}, <<Single("name", q), Single("exchange", q)>>)
    /\ disk' = [disk EXCEPT ![q] = [content |-> c, stamp |-> changes']]
    /\ UNCHANGED removed

Fault ==
    /\ faults < MaxFaults
    /\ faults' = faults + 1

\* Unmounting ends the watch for good; a filesystem that hangs keeps it.
LoseMount ==
    /\ Fault
    /\ mount = "here"
    /\ mount' = "away"
    /\ watching' \in {watching, FALSE}
    /\ UNCHANGED <<disk, shelf, changes, queue, history, debouncer, pc, op, paused,
                   missed, removed>>

\* Something is mounted at the root: the same filesystem, or the other one,
\* whose files are others without anybody being told.
MountReturns ==
    /\ mount = "away"
    /\ mount' = "here"
    /\ \/ UNCHANGED <<disk, shelf, missed>>
       \/ /\ ~watching
          /\ disk' = shelf /\ shelf' = disk
          /\ missed' = missed \cup {q \in Path : disk[q] # shelf[q]}
    /\ UNCHANGED <<changes, faults, channel, history, debouncer, pc, op, paused, removed>>

-----------------------------------------------------------------------------
(* What the recorder sees, and what it writes to the database              *)

\* stat and read of a path.  A timeout answers like a missing file.
Seen(q) == IF mount = "here" THEN disk[q] ELSE NoFile
Present == {q \in Path : Seen(q).content # None}
Shelved == {q \in Path : shelf[q].content # None}
RootAccessible == mount # "away"

\* Paths that are skipped because the filesystem they are on is not there.
Skipped(paths) == IF mount = "here" THEN {} ELSE paths

Goto(location) == pc' = location

\* The event and the row of a file that exists, in one transaction.
RecordContent(q, c, stamp) ==
    /\ recorded' = [recorded EXCEPT ![q] = c]
    /\ rows' = [rows EXCEPT ![q] = [hash |-> c, live |-> TRUE, stamp |-> stamp]]
    /\ reborn' = reborn \ {q}
    /\ UNCHANGED guessed

\* handle_delete: nothing unless the row says the file exists.  It is a guess
\* while the filesystem of the file is not there.
Delete(q) ==
    IF rows[q].live
    THEN /\ recorded' = [recorded EXCEPT ![q] = None]
         /\ rows' = [rows EXCEPT ![q].live = FALSE]
         /\ reborn' = reborn \ {q}
         /\ guessed' = guessed \cup ({q} \cap (Skipped(Path) \cup Shelved))
    ELSE UNCHANGED history

-----------------------------------------------------------------------------
(* Start, and scanning: cmd_start, initial_scan_with_limit                 *)

\* Files that a scan which met the given ones takes for deleted without their
\* being so: it passed them over, or they are on the other filesystem.
Mistaken(met) ==
    IF met = {} \/ ~op.trusted THEN {}
    ELSE {q \in (Present \cup Shelved) \ met : rows[q].live}

\* initial_scan trusts deletions.
Start ==
    /\ pc \in {"down", "stopped"}
    /\ RootAccessible
    /\ Goto("walk")
    /\ op' = [NoOp EXCEPT !.next = "ready", !.trusted = TRUE]
    /\ UNCHANGED <<world, channel, history, debouncer, paused, missed, removed>>

Walk ==
    /\ pc = "walk"
    /\ Goto("scan")
    /\ op' = [op EXCEPT !.walked = Present, !.todo = Present]
    /\ missed' = missed \cap (Present \cup Skipped(Path))
    /\ guessed' = guessed \cup Mistaken(Present)
    /\ UNCHANGED <<world, channel, rows, recorded, reborn, debouncer, paused,
                   removed>>

\* The filesystem goes away in the middle of the walk: directories that can no
\* longer be read are passed over (Err(_) => continue).
InterruptedWalk ==
    /\ pc = "walk"
    /\ Fault
    /\ mount = "here"
    /\ mount' = "away"
    /\ \E met \in SUBSET Present :
         /\ op' = [op EXCEPT !.walked = met, !.todo = met]
         /\ missed' = missed \cup (Present \ met)
         /\ guessed' = guessed \cup Mistaken(met)
    /\ Goto("scan")
    /\ UNCHANGED <<disk, shelf, changes, channel, rows, recorded, reborn, debouncer, paused,
                   removed>>

\* Paths with a notification in the channel.
Queued == UNION {Paths(n) : n \in ToSet(queue)}

\* Notifications that outlived the watch: acting on one of them can undo what
\* a scan has found since, and no later one will put it right.
Stale == IF watching THEN {} ELSE Queued

\* scan_one
ReadFile(q) ==
    /\ pc = "scan"
    /\ q \in op.todo
    /\ op' = [op EXCEPT !.todo = @ \ {q}, !.found[q] = Seen(q)]
    /\ missed' = missed \ (({q} \cap Present) \ Stale)
    /\ UNCHANGED <<world, channel, history, debouncer, pc, paused, removed>>

Gone == {q \in Path : rows[q].live /\ q \notin op.walked}
Read == {q \in Path : op.found[q].content # None}

\* Bug: only an empty tree is taken for a mount anomaly.
BelieveMissing == IF op.walked = {} THEN {} ELSE Gone

\* The rows whose files are recorded as deleted: none on a mount anomaly.
Deletions == IF op.walked = {} \/ ~op.trusted THEN {} ELSE Gone

\* The scan's transaction.  A file whose content equals latest_hash is marked
\* existing without an event, even if its row said it was deleted.
CommitScan ==
    /\ pc = "scan" /\ op.todo = {}
    /\ rows' = [q \in Path |->
                  IF q \in Read
                  THEN [hash |-> op.found[q].content, live |-> TRUE, stamp |-> op.found[q].stamp]
                  ELSE [rows[q] EXCEPT !.live = @ /\ q \notin Deletions]]
    /\ LET changed == {q \in Read : op.found[q].content # rows[q].hash} IN
         /\ recorded' = [q \in Path |->
                           CASE q \in changed -> op.found[q].content
                             [] q \in Deletions -> None
                             [] OTHER -> recorded[q]]
         /\ reborn' = (reborn \cup {q \in Read : ~rows[q].live})
                        \ (changed \cup Deletions)
    /\ missed' = missed \cup (Gone \ Deletions)
                   \cup Skipped(Gone \cup (op.walked \ Read))
    /\ Goto(op.next)
    /\ paused' = FALSE
    /\ op' = NoOp
    /\ UNCHANGED <<world, channel, debouncer, removed, guessed>>

\* watch_directory and watch_events.  The marker has said "ready" since the
\* scan; pruning and the integrity check came in between.
BeginWatch ==
    /\ pc = "ready"
    /\ IF RootAccessible
       THEN Goto("top") /\ watching' = TRUE /\ UNCHANGED missed
       ELSE Goto("down") /\ missed' = Path /\ UNCHANGED watching
    /\ UNCHANGED <<world, queue, history, debouncer, op, paused, removed>>

-----------------------------------------------------------------------------
(* The loop of watch_events                                                *)

\* Debouncer::forget
Forget(paths) ==
    /\ hot' = hot \ paths
    /\ pending' = pending \ paths
    /\ due' = due \ paths

\* The periodic check finds the root gone.  A new Debouncer forgets all.
Pause ==
    /\ pc = "top" /\ ~RootAccessible /\ ~paused
    /\ paused' = TRUE
    /\ missed' = missed \cup pending
    /\ Forget(Path)
    /\ Goto("flush")
    /\ op' = [NoOp EXCEPT !.next = "flush"]
    /\ UNCHANGED <<world, channel, history, removed>>

\* A later check finds it again.  reconcile_after_resume trusts deletions if
\* the root has, before the walk, the device number of the start.  Numbers are
\* handed out anew by every mount: the same filesystem may get another one,
\* and the other filesystem the old one; without an answer they differ.
Resume ==
    /\ pc = "top" /\ RootAccessible /\ paused
    /\ Goto("walk")
    /\ \E trusted \in BOOLEAN :
          op' = [NoOp EXCEPT !.next = "flush", !.trusted = trusted]
    /\ UNCHANGED <<world, channel, history, debouncer, paused, missed, removed>>

HealthCheck == Pause \/ Resume

\* Bug: deferred reads are never taken up.
TakeNothing(force) == {}

\* Debouncer::take_pending
TakePending(force) == IF force THEN pending ELSE due

\* flush_pending, called in every round unless paused; path by path.
BeginFlush ==
    /\ pc = "top"
    /\ Goto("flush")
    /\ LET batch == IF paused THEN {} ELSE TakePending(FALSE) IN
         /\ op' = [NoOp EXCEPT !.todo = batch, !.next = "flush"]
         /\ pending' = pending \ batch
         /\ due' = due \ batch
    /\ UNCHANGED <<world, channel, history, hot, paused, missed, removed>>

\* Stopped by a signal: deferred reads are taken up whether due or not, unless
\* recording is paused.
BeginDrain ==
    /\ pc = "top"
    /\ Fault
    /\ Goto("drain")
    /\ LET batch == IF paused THEN {} ELSE TakePending(TRUE) IN
         op' = [NoOp EXCEPT !.todo = batch, !.next = "drain"]
    /\ Forget(Path)
    /\ UNCHANGED <<disk, shelf, mount, changes, channel, history, paused, missed,
                   removed>>

\* One deferred read, as a Modify(Any) event that the debouncer lets pass.
FlushOne(q) ==
    /\ pc \in {"flush", "drain"}
    /\ q \in op.todo
    /\ IF Seen(q).content = None
       THEN /\ Forget({q})
            /\ op' = [op EXCEPT !.todo = @ \ {q}]
            /\ missed' = missed \cup Skipped({q})
            /\ UNCHANGED pc
       ELSE /\ Goto("work")
            /\ op' = [op EXCEPT !.todo = @ \ {q}, !.kind = "modify", !.path = {q},
                                !.stamp = Seen(q).stamp]
            /\ hot' = hot \cup {q}
            /\ pending' = pending \ {q}
            /\ due' = due \ {q}
            /\ UNCHANGED missed
    /\ UNCHANGED <<world, channel, history, paused, removed>>

\* Nothing is left: the process ends, with what is still in the channel.
EndDrain ==
    /\ pc = "drain" /\ op.todo = {}
    /\ Goto("stopped")
    /\ op' = NoOp
    /\ watching' = FALSE
    /\ queue' = <<>>
    /\ missed' = missed \cup Queued
    /\ paused' = FALSE
    /\ UNCHANGED <<world, history, debouncer, removed>>

Timeout ==
    /\ pc = "flush" /\ op.todo = {}
    /\ queue = <<>>
    /\ Goto("top")
    /\ UNCHANGED <<world, channel, history, debouncer, op, paused, missed, removed>>

-----------------------------------------------------------------------------
(* process_event                                                           *)

\* Hand the path to handle_create, handle_modify or handle_rename.
Capture(kind, q, old) ==
    /\ Goto("work")
    /\ op' = [NoOp EXCEPT !.kind = kind, !.path = {q}, !.old = old,
                          !.stamp = Seen(q).stamp, !.next = "top"]
    /\ UNCHANGED <<history, missed>>

\* The handler is done with the notification.
Done == Goto("top") /\ UNCHANGED op

\* Bug: within 500 ms of an event the next one is dropped, not deferred.
DropTrailing(q) == UNCHANGED debouncer

\* Debouncer::should_process says no: read the file again once it is quiet.
Defer(q) == pending' = pending \cup {q} /\ due' = due \ {q} /\ UNCHANGED hot

\* Create, and Modify(Data | Any)
Touched(n) ==
    \/ /\ Seen(n.path).content = None
       /\ Done
       /\ missed' = missed \cup Skipped({n.path})
       /\ UNCHANGED <<history, debouncer>>
    \/ /\ Seen(n.path).content # None /\ n.path \in hot
       /\ Done /\ Defer(n.path)
       /\ UNCHANGED <<history, missed>>
    \/ /\ Seen(n.path).content # None /\ n.path \notin hot
       /\ Capture(n.kind, n.path, {})
       /\ hot' = hot \cup {n.path}
       /\ pending' = pending \ {n.path}
       /\ due' = due \ {n.path}

\* Remove
Removed(n) ==
    /\ Done
    /\ IF RootAccessible
       THEN Delete(n.path) /\ Forget({n.path})
       ELSE UNCHANGED <<history, debouncer>>
    /\ missed' = missed \cup Skipped({n.path})

\* Modify(Name) with one path: unlike Remove, nothing asks for the root.
Named(n) ==
    /\ Forget({n.path})
    /\ IF Seen(n.path).content # None
       THEN Capture("modify", n.path, {})
       ELSE /\ Done /\ Delete(n.path)
            /\ missed' = missed \cup Skipped({n.path})

\* Modify(Name) with a restore temporary: reconcile_paths on the other name.
Exchanged(n) ==
    IF Seen(n.path).content # None
    THEN Forget({n.path}) /\ Capture("modify", n.path, {})
    ELSE /\ Done /\ Forget({n.path})
         /\ IF RootAccessible THEN Delete(n.path) ELSE UNCHANGED history
         /\ missed' = missed \cup Skipped({n.path})

\* Modify(Name) with two paths
Renamed(n) ==
    /\ Forget(Paths(n))
    /\ IF Seen(n.path).content # None
       THEN Capture("rename", n.path, {n.old})
       ELSE /\ Done
            /\ missed' = missed \cup Skipped(Paths(n))
            /\ UNCHANGED history

ProcessEvent(n) ==
    CASE n.kind \in {"create", "modify"} -> Touched(n)
      [] n.kind = "remove" -> Removed(n)
      [] n.kind = "name" -> Named(n)
      [] n.kind = "exchange" -> Exchanged(n)
      [] n.kind = "both" -> Renamed(n)

Receive ==
    /\ pc = "flush" /\ op.todo = {}
    /\ queue # <<>>
    /\ queue' = Tail(queue)
    /\ IF paused
       THEN /\ Done
            /\ missed' = missed \cup Paths(Head(queue))
            /\ UNCHANGED <<history, debouncer>>
       ELSE ProcessEvent(Head(queue))
    /\ UNCHANGED <<world, watching, paused, removed>>

EndWork == Goto(op.next) /\ op' = [NoOp EXCEPT !.next = op.next, !.todo = op.todo]

\* handle_create and handle_modify: the file is read now, after the stat whose
\* stamp is stored with it.  An unchanged stamp or content is no event.
RecordFile(q) ==
    LET content == Seen(q).content
        unchangedStat == op.kind = "modify" /\ rows[q].live /\ rows[q].stamp = op.stamp
        unchangedContent == rows[q].live /\ rows[q].hash = content
    IN
    /\ pc = "work" /\ op.kind \in {"create", "modify"} /\ op.path = {q}
    /\ \/ /\ unchangedStat \/ content = None
          /\ UNCHANGED history
       \/ /\ ~unchangedStat /\ content # None /\ unchangedContent
          /\ rows' = [rows EXCEPT ![q].stamp = op.stamp]
          /\ UNCHANGED <<recorded, reborn, guessed>>
       \/ /\ ~unchangedStat /\ content # None /\ ~unchangedContent
          /\ RecordContent(q, content, op.stamp)
    /\ missed' = missed \cup (IF unchangedStat THEN {} ELSE Skipped({q}))
    /\ EndWork
    /\ UNCHANGED <<world, channel, debouncer, paused, removed>>

\* Bug: the rename's transaction does not mark the old path deleted.
RenamedRowsKeepOld(old, new, row) == [rows EXCEPT ![new] = row]

RenamedRows(old, new, row) == [rows EXCEPT ![old].live = FALSE, ![new] = row]

\* handle_rename: RENAMED on the new path, and the old one marked deleted.  A
\* pair already recorded leaves the same rows and the same latest states.
RecordRename(old, new) ==
    LET content == Seen(new).content IN
    /\ pc = "work" /\ op.kind = "rename" /\ op.path = {new} /\ op.old = {old}
    /\ IF content = None
       THEN UNCHANGED history
       ELSE /\ recorded' = [recorded EXCEPT ![old] = None, ![new] = content]
            /\ rows' = RenamedRows(old, new, [hash |-> content, live |-> TRUE,
                                                  stamp |-> op.stamp])
            /\ reborn' = reborn \ {old, new}
            /\ UNCHANGED guessed
    /\ missed' = missed \cup Skipped({old, new})
    /\ EndWork
    /\ UNCHANGED <<world, channel, debouncer, paused, removed>>

-----------------------------------------------------------------------------
(* Time, failures and crashes                                              *)

\* 500 ms after an event its path is let pass again.
Cool(q) ==
    /\ q \in hot
    /\ hot' = hot \ {q}
    /\ UNCHANGED <<world, channel, history, pending, due, pc, op, paused,
                   missed, removed>>

\* 500 ms after its last suppressed event a pending path is due.
QuietPasses(q) ==
    /\ q \in pending \ due
    /\ due' = due \cup {q}
    /\ UNCHANGED <<world, channel, history, hot, pending, pc, op, paused,
                   missed, removed>>

\* guard_event catches an error or a panic of a handler; the loop goes on.  A
\* failing catch-up scan is logged, and recording resumes all the same.
HandlerFails ==
    /\ Fault
    /\ \/ /\ pc = "work"
          /\ missed' = missed \cup op.path \cup op.old
          /\ EndWork
          /\ UNCHANGED paused
       \/ /\ pc = "scan" /\ op.next = "flush"
          /\ missed' = Path
          /\ Goto("flush") /\ op' = NoOp
          /\ paused' = FALSE
    /\ UNCHANGED <<disk, shelf, mount, changes, channel, history, debouncer,
                   removed>>

\* The process dies, or startup fails: everything in memory is lost.
Crash ==
    /\ Fault
    /\ pc \notin {"down", "stopped"}
    /\ Goto("down")
    /\ op' = NoOp
    /\ watching' = FALSE
    /\ queue' = <<>>
    /\ paused' = FALSE
    /\ Forget(Path)
    /\ missed' = Path
    /\ UNCHANGED <<disk, shelf, mount, changes, history, removed>>

-----------------------------------------------------------------------------

User ==
    \/ \E q \in Path, c \in Content : Write(q, c)
    \/ \E q \in Path, c \in Content : Restore(q, c)
    \/ \E q \in Path : Unlink(q)
    \/ \E a, b \in Path, both \in BOOLEAN : Rename(a, b, both)

Scan == Walk \/ (\E q \in Path : ReadFile(q)) \/ CommitScan \/ BeginWatch
Loop == BeginFlush \/ (\E q \in Path : FlushOne(q)) \/ Receive \/ Timeout \/ EndDrain
Work == (\E q \in Path : RecordFile(q)) \/ (\E old, new \in Path : RecordRename(old, new))
Recording == Scan \/ Loop \/ Work
Failure == LoseMount \/ InterruptedWalk \/ HandlerFails \/ Crash \/ BeginDrain

Next ==
    \/ User
    \/ Start
    \/ Recording
    \/ HealthCheck
    \/ \E q \in Path : Cool(q) \/ QuietPasses(q)
    \/ MountReturns
    \/ Failure

\* The recorder's thread keeps running and clocks advance.  The health check
\* falls due every five seconds, so a root that stays lost, or stays back, is
\* noticed in some round.  Nobody has to start the recorder, to change a file
\* or to bring a filesystem back.
Fairness ==
    /\ WF_vars(Recording)
    /\ SF_vars(HealthCheck)
    /\ \A q \in Path : WF_vars(QuietPasses(q))

Spec == Init /\ [][Next]_vars /\ Fairness

-----------------------------------------------------------------------------
(* Properties                                                              *)

Settled(q) == recorded[q] = disk[q].content

\* The paths the recorder still has to look at.
Outstanding ==
    Queued \cup pending
      \cup op.path \cup op.old \cup op.todo
      \cup (IF pc = "walk" THEN Path ELSE {})
      \cup (IF pc = "scan" THEN Read \cup Gone ELSE {})

\* Files with the size and mtime of their row but other bytes.  A handler stores
\* the stat it was given with the bytes it reads afterwards; if renames put
\* another file in between and the first one back, handle_modify takes its
\* fast path and never reads the file again.
Lookalikes ==
    {q \in Path : rows[q].live /\ rows[q].stamp = disk[q].stamp
                     /\ rows[q].hash # disk[q].content}

\* No change is lost between the channel, the debouncer, the scan and the
\* database: a path whose history does not end with what is on disk is still
\* to be looked at, or its last change was one that nobody reported, or its
\* stat hides the change.  So a stopped recorder has recorded every change it
\* was told of in time (the trailing reads of Debouncer, flush_pending and the
\* drain at the end).
NothingForgotten ==
    \A q \in Path \ (missed \cup reborn \cup Outstanding \cup Lookalikes) : Settled(q)

\* file_state and file_events agree on what exists and on its content, except
\* for files a scan brought back without an event (the transactions of the
\* handlers and of the scan, and handle_rename's two rows).
HistoryMatchesRows ==
    \A q \in Path \ reborn : recorded[q] = IF rows[q].live THEN rows[q].hash ELSE None

\* A file is recorded as deleted only if it has been removed or renamed away,
\* also when its filesystem goes away, comes back as another device or gives
\* way to a filesystem with other files, except for the guesses the code
\* makes: a Name event looked at when the filesystem of its file is not there,
\* a walk cut short, and a scan that trusts deletions although another
\* filesystem that is not empty is there.  A scan at the start always does; one
\* after a pause only if the device number is the old one (trust_deletions,
\* the empty tree guard and root_is_accessible).
DeletionsAreReal ==
    \A q \in Path : rows[q].hash # None /\ ~rows[q].live => q \in removed \cup guessed

\* Once the recorder stays up and the filesystem stays there, every reported
\* change is recorded: a burst of writes cannot starve the last one.
Running == pc \notin {"down", "stopped", "drain"} /\ mount = "here"
Converges ==
    <>[]Running => <>[](\A q \in Path \ (missed \cup reborn \cup Lookalikes) : Settled(q))

\* A paused recorder whose filesystem is back for good resumes.
Resumes == <>[]Running => <>[]~paused

\* daemon.rs: "Ensure continuous history is active before opening a Run" waits
\* for the marker to say "ready".  From then on a change should be reported.
ReadyMarker == pc \in {"ready", "top", "flush", "work"}
ReadyMeansWatched == [][ReadyMarker /\ disk' # disk => missed' \subseteq missed]_vars

\* watcher.rs, symlink_metadata_timeout: a stat that times out is treated like
\* "skip this event", so an outage deletes nothing.
OutagesDeleteNothing ==
    \A q \in Path : rows[q].hash # None /\ ~rows[q].live => q \in removed

=============================================================================
