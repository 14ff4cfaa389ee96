------------------------------- MODULE Topology -------------------------------
(***************************************************************************)
(* Which project a command works on when recording moves between nested    *)
(* folders.                                                                *)
(*                                                                         *)
(* Folders lie in each other, and every folder that was ever recorded is a *)
(* project with a history of its own.  At most one recorder is meant to    *)
(* watch a tree, but it may be stopped and started again further up or     *)
(* down while Runs are active.  A command is given a folder only: it asks  *)
(* the markers of the recorders and the table of projects for the root and *)
(* the project to work on, in several steps, while recorders come and go   *)
(* and files change.                                                       *)
(*                                                                         *)
(* Every folder directly holds one file, which is named after it and never *)
(* goes away.                                                              *)
(***************************************************************************)
EXTENDS Naturals, FiniteSets

CONSTANTS
    Folder,        \* folders, and the file each of them directly holds
    Inside(_, _),  \* the first folder is the second or lies in it
    Run,           \* rows of sessions, all of them of the window mode
    Proc,          \* commands
    None,
    MaxChanges,    \* bound: changes of files
    MaxCommands,   \* bound: commands entered
    MaxRecorders   \* bound: starts of recorders

Around(c) == {d \in Folder : Inside(c, d)}
Tree(d) == {f \in Folder : Inside(f, d)}

ASSUME NestingAssumption ==
    /\ None \notin Folder \cup Run
    /\ \A c \in Folder : c \in Around(c)
    /\ \A c, d, e \in Folder : Inside(c, d) /\ Inside(d, e) => Inside(c, e)
    /\ \A c \in Folder : \A d, e \in Around(c) : Inside(d, e) \/ Inside(e, d)
    /\ IsFiniteSet(Folder)

ASSUME TopologyBounds == MaxChanges \in Nat /\ MaxCommands \in Nat /\ MaxRecorders \in Nat

VARIABLES
    projects,  \* folders with a row in watched_projects
    recorder,  \* none, locked (marker, no row yet), starting, ready
    tracked,   \* per project: files that exist according to file_state
    pending,   \* per project: files whose state its history does not have yet
    runs,      \* the Runs
    cmd,       \* the commands
    changes, starts, commands,  \* so far
    vanished   \* history: files recorded as deleted, which none ever was

fileVars == <<tracked, pending, changes, vanished>>
topologyVars == <<projects, recorder, fileVars, runs, cmd, starts, commands>>

(* A Run owes the files that changed since it started and were not         *)
(* recorded since; early, those its project's history had when it started, *)
(* but without a change made before; missed, what it owed when it was      *)
(* completed.  Changes during the starting or completing command are not   *)
(* counted.                                                                *)
Unused == [state |-> "unused", project |-> None, root |-> None, cwd |-> None,
           by |-> None, owed |-> {}, early |-> {}, missed |-> {}]

(* A command: its folder, the root recording was ensured for, its root and *)
(* project, the Run it was given, started or chose, and the files that     *)
(* changed since it was entered.                                           *)
Idle == [kind |-> "none", pc |-> "idle", cwd |-> None, ensured |-> None, root |-> None,
         project |-> None, run |-> None, since |-> {}]

Active == {r \in Run : runs[r].state = "active"}

-------------------------------------------------------------------------------
(* Resolution.                                                             *)

\* most_specific_parent, find_project_for_path: None if there is none.
Innermost(S) ==
    IF S = {} THEN None ELSE CHOOSE d \in S : \A e \in S : Inside(d, e)

\* active_daemons: whoever holds the lock of its marker.
LiveRoots == {d \in Folder : recorder[d] # "none"}

\* Bug: read-only commands follow a recorder that is not ready.
AnyRoots == LiveRoots

\* ready_recording_roots.
ReadyRoots == {d \in Folder : recorder[d] = "ready" /\ d \in projects}

FindProject(d) == Innermost(projects \cap Around(d))

\* recording_root_for_path.
RecordingRoot(c) ==
    IF ReadyRoots \cap Around(c) # {} THEN Innermost(ReadyRoots \cap Around(c))
    ELSE IF FindProject(c) # None THEN FindProject(c)
    ELSE c

\* resolve_project.
ResolveProject(c) == FindProject(RecordingRoot(c))

\* Bug: only the project recording belongs to now.
ContextOfRecorder(c, project) == {project}

\* run_context_project_ids.
Context(c, project) == {project} \cup (projects \cap Around(c))

-------------------------------------------------------------------------------
(* What a scan or a recorder puts into the history of project q.           *)

Recorded(q, S) ==
    runs' = [r \in Run |->
               IF runs[r].project = q /\ runs[r].state = "active"
               THEN [runs[r] EXCEPT !.owed = @ \ S] ELSE runs[r]]

\* initial_scan of folder d for project q: what file_state has and the walk
\* did not see is recorded as deleted.
ScanInto(q, d) ==
    LET unseen == tracked[q] \ Tree(d) IN
    /\ Recorded(q, pending[q] \cap Tree(d))
    /\ pending' = [pending EXCEPT ![q] = (@ \ Tree(d)) \cup unseen]
    /\ tracked' = [tracked EXCEPT ![q] = Tree(d)]
    /\ vanished' = vanished \cup unseen
    /\ UNCHANGED changes

Change(f) ==
    /\ changes < MaxChanges
    /\ changes' = changes + 1
    /\ pending' = [q \in Folder |-> IF f \in Tree(q) THEN pending[q] \cup {f} ELSE pending[q]]
    /\ runs' = [r \in Run |->
                  IF r \in Active /\ f \in Tree(runs[r].project)
                  THEN [runs[r] EXCEPT !.owed = @ \cup {f}] ELSE runs[r]]
    /\ cmd' = [p \in Proc |->
                 IF cmd[p].pc = "idle" THEN cmd[p]
                 ELSE [cmd[p] EXCEPT !.since = @ \cup {f}]]
    /\ UNCHANGED <<projects, recorder, tracked, starts, commands, vanished>>

-------------------------------------------------------------------------------
(* Recorders, of a user or of a command that needs one.                    *)

\* cmd_start up to its marker.
RecorderLock(d) ==
    /\ recorder[d] = "none"
    /\ starts < MaxRecorders
    /\ starts' = starts + 1
    /\ recorder' = [recorder EXCEPT ![d] = "locked"]

UserStarts(d) ==
    /\ RecorderLock(d)
    /\ UNCHANGED <<projects, fileVars, runs, cmd, commands>>

Overlapped(d) == \E e \in LiveRoots \ {d} : Inside(d, e) \/ Inside(e, d)

\* check_no_overlap, then get_or_create_project.
RecorderRow(d) ==
    /\ recorder[d] = "locked"
    /\ ~Overlapped(d)
    /\ recorder' = [recorder EXCEPT ![d] = "starting"]
    /\ projects' = projects \cup {d}
    /\ UNCHANGED <<fileVars, runs, cmd, starts, commands>>

RecorderReady(d) ==
    /\ recorder[d] = "starting"
    /\ recorder' = [recorder EXCEPT ![d] = "ready"]
    /\ ScanInto(d, d)
    /\ UNCHANGED <<projects, cmd, starts, commands>>

RecorderRecords(d, f) ==
    /\ recorder[d] = "ready"
    /\ f \in pending[d]
    /\ Recorded(d, {f})
    /\ pending' = [pending EXCEPT ![d] = @ \ {f}]
    /\ tracked' = [tracked EXCEPT ![d] = @ \cup {f}]
    /\ UNCHANGED <<projects, recorder, changes, vanished, cmd, starts, commands>>

\* Stopped, killed, or refused because of an overlap.
RecorderEnds(d) ==
    /\ recorder[d] # "none"
    /\ recorder' = [recorder EXCEPT ![d] = "none"]
    /\ UNCHANGED <<projects, fileVars, runs, cmd, starts, commands>>

-------------------------------------------------------------------------------
(* Commands.                                                               *)

Stands(p, where) == cmd[p].pc = where
Goto(p, where) == cmd' = [cmd EXCEPT ![p].pc = where]
Quit(p) == cmd' = [cmd EXCEPT ![p] = Idle]

ReadOnly == {"session start", "session stop"}

\* A command is entered in a folder; `undo run stop` may be given a Run.
Enter(p, kind, c, r) ==
    /\ Stands(p, "idle")
    /\ commands < MaxCommands
    /\ commands' = commands + 1
    /\ r # None => kind = "run stop"
    /\ cmd' = [cmd EXCEPT ![p] =
                 [Idle EXCEPT !.kind = kind, !.cwd = c, !.run = r,
                              !.pc = IF kind \in ReadOnly THEN "look" ELSE "ensure"]]
    /\ UNCHANGED <<projects, recorder, fileVars, runs, starts>>

\* ensure_recording_for_path: a recorder around the folder, ready or not.
EnsureFindsLive(p) ==
    LET around == LiveRoots \cap Around(cmd[p].cwd) IN
    /\ Stands(p, "ensure")
    /\ around # {}
    /\ cmd' = [cmd EXCEPT ![p].ensured = Innermost(around), ![p].pc = "project"]
    /\ UNCHANGED <<projects, recorder, fileVars, runs, starts, commands>>

EnsureResolves(p) ==
    /\ Stands(p, "ensure")
    /\ LiveRoots \cap Around(cmd[p].cwd) = {}
    /\ cmd' = [cmd EXCEPT ![p].ensured = RecordingRoot(cmd[p].cwd), ![p].pc = "spawn"]
    /\ UNCHANGED <<projects, recorder, fileVars, runs, starts, commands>>

\* ensure_recording: start one unless the root has one by now.
EnsureSpawns(p) ==
    /\ Stands(p, "spawn")
    /\ IF recorder[cmd[p].ensured] # "none"
       THEN Goto(p, "project") /\ UNCHANGED <<recorder, starts>>
       ELSE RecorderLock(cmd[p].ensured) /\ Goto(p, "wait")
    /\ UNCHANGED <<projects, fileVars, runs, commands>>

\* wait_for_recorder_start: ready, or its end or ten seconds without.
EnsureWaits(p) ==
    /\ Stands(p, "wait")
    /\ \/ recorder[cmd[p].ensured] = "ready" /\ Goto(p, "project")
       \/ recorder[cmd[p].ensured] # "ready" /\ Quit(p)
    /\ UNCHANGED <<projects, recorder, fileVars, runs, starts, commands>>

AfterSync(p) ==
    CASE cmd[p].kind \in {"run start", "run"} /\ cmd[p].run = None -> "begin"
      [] cmd[p].kind = "run stop" -> "choose"
      [] OTHER -> "complete"

\* Bug: Runs are started without a scan, as `undo session start` does it.
AfterProjectOfStop(p) == IF cmd[p].kind = "run stop" THEN "sync" ELSE AfterSync(p)

\* prepare_project_boundary, cmd_run_stop, StartedRun::complete.
AfterProject(p) == "sync"

\* find_project for the root that was ensured, which is the command's.  A
\* StartedRun keeps the root and the project it began with, whatever root
\* recording belongs to now.
LoadProject(p) ==
    LET q == FindProject(cmd[p].ensured) IN
    /\ Stands(p, "project")
    /\ IF cmd[p].project # None
       THEN cmd' = [cmd EXCEPT ![p].ensured = None, ![p].pc = AfterProject(p)]
       ELSE IF q = None THEN Quit(p)
       ELSE cmd' = [cmd EXCEPT ![p].project = q, ![p].root = cmd[p].ensured,
                               ![p].ensured = None, ![p].pc = AfterProject(p)]
    /\ UNCHANGED <<projects, recorder, fileVars, runs, starts, commands>>

\* resolve_project for the commands that start no recorder.
LookUp(p) ==
    LET q == ResolveProject(cmd[p].cwd) IN
    /\ Stands(p, "look")
    /\ IF q = None THEN Quit(p)
       ELSE cmd' = [cmd EXCEPT ![p].project = q, ![p].root = q,
                               ![p].pc = IF cmd[p].kind = "session start"
                                         THEN "begin" ELSE "choose"]
    /\ UNCHANGED <<projects, recorder, fileVars, runs, starts, commands>>

\* sync_project.
SyncProject(p) ==
    /\ Stands(p, "sync")
    /\ ScanInto(cmd[p].project, cmd[p].root)
    /\ Goto(p, AfterSync(p))
    /\ UNCHANGED <<projects, recorder, starts, commands>>

\* start_run: one window Run of a project at a time.
StartRun(p, r) ==
    LET q == cmd[p].project IN
    /\ Stands(p, "begin")
    /\ runs[r] = Unused
    /\ \A other \in Active : runs[other].project # q
    /\ runs' = [runs EXCEPT ![r] =
                  [Unused EXCEPT !.state = "active", !.project = q, !.by = cmd[p].kind,
                                 !.root = cmd[p].root, !.cwd = cmd[p].cwd,
                                 !.early = (pending[q] \cap tracked[q]) \ cmd[p].since]]
    /\ IF cmd[p].kind = "run"
       THEN cmd' = [cmd EXCEPT ![p].run = r, ![p].pc = "child"]
       ELSE Quit(p)
    /\ UNCHANGED <<projects, recorder, fileVars, starts, commands>>

Refused(p) ==
    /\ Stands(p, "begin")
    /\ \E other \in Active : runs[other].project = cmd[p].project
    /\ Quit(p)
    /\ UNCHANGED <<projects, recorder, fileVars, runs, starts, commands>>

\* The child of `undo run` has ended: StartedRun::complete, in the root the
\* Run was started with.
ChildExits(p) ==
    /\ Stands(p, "child")
    /\ cmd' = [cmd EXCEPT ![p].cwd = runs[cmd[p].run].root, ![p].since = {},
                          ![p].pc = "ensure"]
    /\ UNCHANGED <<projects, recorder, fileVars, runs, starts, commands>>

-------------------------------------------------------------------------------
(* Completion.                                                             *)

Completed(p, r) ==
    runs' = [runs EXCEPT ![r].state = "done", ![r].by = cmd[p].kind,
                         ![r].missed = runs[r].owed \ cmd[p].since]

\* complete_failed_launch: the child never ran; no synchronization.
LaunchFails(p) ==
    /\ Stands(p, "child")
    /\ IF cmd[p].run \in Active
       THEN runs' = [runs EXCEPT ![cmd[p].run].state = "done",
                                 ![cmd[p].run].by = "launch failed"]
       ELSE UNCHANGED runs
    /\ Quit(p)
    /\ UNCHANGED <<projects, recorder, fileVars, starts, commands>>

\* Bug: synchronize the project the folder resolves to, as `session stop` did.
SyncsResolved(p, r) == cmd[p].project

\* stop_session_in synchronizes the project of the Run.
SessionSyncs(p, r) == runs[r].project

\* active_run_for_context: the Run that was named, or the only active one.
Choices(p) ==
    LET ids == Context(cmd[p].cwd, cmd[p].project) IN
    IF cmd[p].run # None THEN {r \in {cmd[p].run} : runs[r].project \in ids}
    ELSE {r \in Active : runs[r].project \in ids}

Choose(p, r) ==
    /\ Stands(p, "choose")
    /\ Choices(p) = {r}
    /\ IF cmd[p].kind = "session stop"
       THEN cmd' = [cmd EXCEPT ![p].run = r, ![p].project = SessionSyncs(p, r),
                               ![p].root = SessionSyncs(p, r), ![p].pc = "sync"]
       ELSE cmd' = [cmd EXCEPT ![p].run = r, ![p].pc = "complete"]
    /\ UNCHANGED <<projects, recorder, fileVars, runs, starts, commands>>

\* "No active Run.", or several, which are never guessed.
NoChoice(p) ==
    /\ Stands(p, "choose")
    /\ Cardinality(Choices(p)) # 1
    /\ Quit(p)
    /\ UNCHANGED <<projects, recorder, fileVars, runs, starts, commands>>

\* complete_run, which leaves a completed Run as it is.
Complete(p) ==
    LET r == cmd[p].run IN
    /\ Stands(p, "complete")
    /\ IF r \in Active THEN Completed(p, r) ELSE UNCHANGED runs
    /\ Quit(p)
    /\ UNCHANGED <<projects, recorder, fileVars, starts, commands>>

-------------------------------------------------------------------------------
TopologyInit ==
    /\ projects \in SUBSET Folder
    /\ recorder = [d \in Folder |-> "none"]
    /\ tracked = [q \in Folder |-> IF q \in projects THEN Tree(q) ELSE {}]
    /\ pending = [q \in Folder |-> IF q \in projects THEN {} ELSE Tree(q)]
    /\ runs = [r \in Run |-> Unused]
    /\ cmd = [p \in Proc |-> Idle]
    /\ changes = 0 /\ starts = 0 /\ commands = 0 /\ vanished = {}

Kinds == {"run start", "run", "run stop", "session start", "session stop"}

Command(p) ==
    \/ \E kind \in Kinds, c \in Folder, r \in Run \cup {None} : Enter(p, kind, c, r)
    \/ EnsureFindsLive(p) \/ EnsureResolves(p) \/ EnsureSpawns(p) \/ EnsureWaits(p)
    \/ LoadProject(p) \/ LookUp(p) \/ SyncProject(p) \/ Refused(p)
    \/ ChildExits(p) \/ LaunchFails(p) \/ NoChoice(p) \/ Complete(p)
    \/ \E r \in Run : StartRun(p, r) \/ Choose(p, r)

TopologyNext ==
    \/ \E f \in Folder : Change(f)
    \/ \E d \in Folder :
          \/ UserStarts(d) \/ RecorderRow(d) \/ RecorderReady(d) \/ RecorderEnds(d)
          \/ \E f \in Folder : RecorderRecords(d, f)
    \/ \E p \in Proc : Command(p)

TopologySpec == TopologyInit /\ [][TopologyNext]_topologyVars

-------------------------------------------------------------------------------
(* Properties.                                                             *)

\* A Run completed by `undo session stop` has every change that was made in its
\* project from its start to that moment, and one completed by the end of the
\* command of `undo run` every change below the root it was started with, which
\* is its project's unless its start met a recorder that had its lock and not
\* yet its row; wherever recording has moved in between (#104).
CompletionCovers ==
    \A r \in Run :
        /\ runs[r].by = "session stop" => runs[r].missed = {}
        /\ runs[r].by = "run" => runs[r].missed \cap Tree(runs[r].root) = {}

\* No change made before `undo run start` or `undo run` was entered is left to
\* be recorded inside the Run, but for files that the project's history takes
\* for deleted when it starts (see NothingVanishes).
StartsClean ==
    \A r \in Run : runs[r].by \in {"run start", "run"} => runs[r].early = {}

\* Whatever recorder is active now, a Run can be listed, shown and stopped from
\* the folder it was started in (#85).
RunsStayFindable ==
    \A r \in Run : runs[r] # Unused =>
        runs[r].project \in Context(runs[r].cwd, ResolveProject(runs[r].cwd))

\* A read-only command in a folder of a known project finds a project, also
\* while a recorder around the folder starts (#87).
ReadersFindProject ==
    \A c \in Folder : projects \cap Around(c) # {} => ResolveProject(c) # None

\* The root and the project of a Run are one, unless its command met a
\* recorder that had its lock and not yet its row.
Whole(r) == runs[r].root = runs[r].project

\* "Complete a Run after synchronizing its latest filesystem changes."
RunStopCovers ==
    \A r \in Run : runs[r].by = "run stop" /\ Whole(r) => runs[r].missed = {}

\* No file is recorded as deleted that is there.
NothingVanishes == vanished = {}
================================================================================
