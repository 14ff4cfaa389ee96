------------------------------ MODULE DaemonLock ------------------------------
(***************************************************************************)
(* One recorder per folder tree: marker files and their locks.             *)
(*                                                                         *)
(* A recorder of a folder keeps pids/<hash of folder>.pid open and locked  *)
(* exclusively as long as it runs; the file says its pid, folder and       *)
(* whether it is ready.  Whoever wants to know whether a recorder is alive *)
(* opens the marker and asks for a shared lock; for a moment it holds it.  *)
(* A lock belongs to the file, not to its name: a recorder removes the     *)
(* name when it ends, and `undo stop` removes the name of one it believes  *)
(* dead, at any moment of another one's start.                             *)
(*                                                                         *)
(* Processes: `undo start`, `undo stop`, commands that ensure a recorder   *)
(* (they spawn `undo start` and watch its marker), and recorders of an old *)
(* version, which lock nothing.  Any of them may be killed anywhere, and   *)
(* pids are used again.                                                    *)
(***************************************************************************)
EXTENDS Naturals, FiniteSets

CONSTANTS
    Proc,      \* pids, each of one command; also the files they create
    Legacy,    \* pids of recorders of an old version
    Root,      \* folders
    None,
    Overlap(_, _), \* one folder is the other or lies in it
    Inside(_, _),  \* the first folder is the second or lies in it
    Commands,  \* what the processes may be told to do
    MaxKills,  \* bound: processes killed
    MaxReuse   \* bound: pids given to unrelated programs

ASSUME PidAssumption == None \notin Proc \cup Root /\ Legacy \subseteq Proc
ASSUME KillAssumption == MaxKills \in Nat /\ MaxReuse \in Nat

ASSUME FolderAssumption ==
    \A q, r \in Root : Overlap(r, r) /\ (Overlap(q, r) => Overlap(r, q))

Kinds == {"start", "stop", "ensure", "legacy", "child"}
Command == [kind : Kinds, root : Root, force : BOOLEAN, rest : SUBSET Root]

\* One folder has one old recorder at most.
ASSUME CommandAssumption ==
    \A commands \in Commands :
        /\ commands \in [Proc -> Command]
        /\ \A p, q \in Proc : commands[p].kind = "legacy" =>
              /\ p \in Legacy
              /\ commands[q].kind = "legacy" /\ commands[p].root = commands[q].root => p = q

VARIABLES
    entry,    \* pids/: the file each folder's marker names, None if missing
    content,  \* what each file says
    ex, sh,   \* who holds which file's lock, exclusively or shared
    cmd,      \* the command of each process
    life,     \* "unborn", "running", "gone", or "other": the pid is reused
    pc,       \* where each command is
    fd,       \* the file each start has open
    seen,     \* the marker a stop has read; the child of an ensure
    asked,    \* recorders that were told to terminate
    projects, \* folders with a row in watched_projects
    outcome,  \* how each command ended
    unread,   \* history: recorders another start took for none, their marker
              \* being rewritten
    strangers,\* history: unrelated programs that were sent SIGTERM
    budget    \* kills and reuses so far

fileVars == <<entry, content, ex, sh>>
procVars == <<cmd, life, pc, fd, seen, asked, outcome>>
histVars == <<unread, strangers>>
vars == <<fileVars, procVars, projects, histVars, budget>>

Empty == [pid |-> None, root |-> None, state |-> "empty"]

\* is_daemon_alive: the file under this name is locked exclusively.
Alive(r) == entry[r] # None /\ ex[entry[r]] # None
Says(r) == content[entry[r]]

\* live_daemons skips a marker it cannot parse.
LiveRoots == {r \in Root : Alive(r) /\ Says(r) # Empty}

\* legacy_recorder_at: two lines, no lock, and a pid that may be running.
LegacyAt(r) ==
    /\ entry[r] # None
    /\ Says(r).state = "old"
    /\ ex[entry[r]] = None
    /\ life[Says(r).pid] \in {"running", "other"}

\* check_no_legacy_overlap.
LegacyOverlap(r) == \E q \in Root : LegacyAt(q) /\ Overlap(r, q)

-------------------------------------------------------------------------------
(* Locks.                                                                  *)

\* A probe that finds no exclusive lock holds the shared one until its next
\* step.
Probing(p, roots) ==
    sh' = [i \in Proc |->
             IF \E r \in roots : entry[r] = i /\ ex[i] = None
             THEN sh[i] \cup {p} ELSE sh[i] \ {p}]

Closed(p) == sh' = [i \in Proc |-> sh[i] \ {p}]

Goto(p, where) == pc' = [pc EXCEPT ![p] = where]

\* A process ends: the kernel drops its locks.
Dies(p, how) ==
    /\ ex' = [i \in Proc |-> IF ex[i] = p THEN None ELSE ex[i]]
    /\ Closed(p)
    /\ life' = [life EXCEPT ![p] = "gone"]
    /\ outcome' = [outcome EXCEPT ![p] = how]

Ends(p, how) == Dies(p, how) /\ Goto(p, "done")

At(p, kind, where) == life[p] = "running" /\ cmd[p].kind = kind /\ pc[p] = where

-------------------------------------------------------------------------------
(* undo start.                                                             *)

StartCheck(p) ==
    /\ At(p, "start", "check")
    /\ IF LegacyOverlap(cmd[p].root)
       THEN /\ Ends(p, "legacy")
       ELSE /\ Goto(p, "open")
            /\ UNCHANGED <<ex, sh, life, outcome>>
    /\ UNCHANGED <<entry, content, cmd, fd, seen, asked, projects, histVars, budget>>

\* open(O_CREAT) without O_TRUNC.
StartOpen(p) ==
    LET r == cmd[p].root IN
    /\ At(p, "start", "open")
    /\ IF entry[r] = None
       THEN /\ entry' = [entry EXCEPT ![r] = p]
            /\ fd' = [fd EXCEPT ![p] = p]
       ELSE /\ fd' = [fd EXCEPT ![p] = entry[r]]
            /\ UNCHANGED entry
    /\ Goto(p, "lock")
    /\ UNCHANGED <<content, ex, sh, cmd, life, seen, asked, outcome, projects,
                   histVars, budget>>

Lockable(i) == ex[i] = None /\ sh[i] = {}

\* try_lock_exclusive: refused by any lock, shared ones included.
StartLock(p) ==
    LET i == fd[p] IN
    /\ At(p, "start", "lock")
    /\ IF Lockable(i)
       THEN /\ ex' = [ex EXCEPT ![i] = p]
            /\ Goto(p, "clear")
            /\ UNCHANGED <<sh, life, outcome>>
       ELSE Ends(p, IF ex[i] = None THEN "refused by a probe" ELSE "already recording")
    /\ UNCHANGED <<entry, content, cmd, fd, seen, asked, projects, histVars, budget>>

\* write_pid_state empties the file and then writes it, twice in a start.
StartClear(p) ==
    /\ \/ At(p, "start", "clear") /\ Goto(p, "write")
       \/ At(p, "start", "scanned") /\ Goto(p, "announce")
    /\ content' = [content EXCEPT ![fd[p]] = Empty]
    /\ UNCHANGED <<entry, ex, sh, cmd, life, fd, seen, asked, outcome, projects,
                   histVars, budget>>

StartWrite(p) ==
    /\ \/ /\ At(p, "start", "write")
          /\ Goto(p, IF cmd[p].force THEN "project" ELSE "overlap")
          /\ content' = [content EXCEPT ![fd[p]] =
                            [pid |-> p, root |-> cmd[p].root, state |-> "starting"]]
       \/ /\ At(p, "start", "announce")
          /\ Goto(p, "watch")
          /\ content' = [content EXCEPT ![fd[p]] =
                            [pid |-> p, root |-> cmd[p].root, state |-> "ready"]]
    /\ UNCHANGED <<entry, ex, sh, cmd, life, fd, seen, asked, outcome, projects,
                   histVars, budget>>

\* Bug: only parents of the folder are looked for.
ParentsInTheWay(p) ==
    {r \in LiveRoots : Says(r).pid # p /\ Inside(cmd[p].root, Says(r).root)}

\* check_no_overlap looks at every marker, its own pid's excepted.
OthersInTheWay(p) ==
    {r \in LiveRoots : Says(r).pid # p /\ Overlap(cmd[p].root, Says(r).root)}

StartOverlap(p) ==
    /\ At(p, "start", "overlap")
    /\ IF LegacyOverlap(cmd[p].root) \/ OthersInTheWay(p) # {}
       THEN Ends(p, "overlaps") /\ UNCHANGED unread
       ELSE /\ Goto(p, "project")
            /\ Probing(p, Root)
            /\ unread' = unread \cup
                   {ex[entry[r]] : r \in {q \in Root : Alive(q) /\ Says(q) = Empty}}
            /\ UNCHANGED <<ex, life, outcome>>
    /\ UNCHANGED <<entry, content, cmd, fd, seen, asked, projects, strangers, budget>>

\* get_or_create_project, then the handlers of signals, then the scan.
StartScan(p) ==
    /\ At(p, "start", "project")
    /\ projects' = projects \cup {cmd[p].root}
    /\ Closed(p)
    /\ Goto(p, "scanned")
    /\ UNCHANGED <<entry, content, ex, cmd, life, fd, seen, asked, outcome, histVars,
                   budget>>

\* Bug: no handler of SIGTERM.
ShutdownByTerminal(p) == At(p, "start", "watch") /\ p \notin asked /\ Goto(p, "remove")

\* The loop ends after SIGTERM, if a stop has sent it, or SIGINT from the
\* terminal.
Shutdown(p) == At(p, "start", "watch") /\ Goto(p, "remove")

StartShutdown(p) ==
    /\ Shutdown(p)
    /\ UNCHANGED <<fileVars, cmd, life, fd, seen, asked, outcome, projects, histVars,
                   budget>>

\* What is removed is the name, whatever file it names by now.
Remove(r) == entry' = [entry EXCEPT ![r] = None]

\* A start that opened the file before its name was removed locks it later.
StartRemove(p) ==
    /\ At(p, "start", "remove")
    /\ Remove(cmd[p].root)
    /\ Goto(p, "end")
    /\ UNCHANGED <<content, ex, sh, cmd, life, fd, seen, asked, outcome, projects,
                   histVars, budget>>

StartEnd(p) ==
    /\ At(p, "start", "end")
    /\ Ends(p, "ended")
    /\ UNCHANGED <<entry, content, cmd, fd, seen, asked, projects, histVars, budget>>

-------------------------------------------------------------------------------
(* undo stop.                                                              *)

\* One marker has been dealt with; `stop --all` goes on with the next of those
\* it found, whatever came of this one.
StopNext(p, how) ==
    IF cmd[p].rest = {}
    THEN Ends(p, how) /\ UNCHANGED cmd
    ELSE /\ \E r \in cmd[p].rest :
              cmd' = [cmd EXCEPT ![p].root = r, ![p].rest = @ \ {r}]
         /\ Goto(p, "check")
         /\ Closed(p)
         /\ UNCHANGED <<ex, life, outcome>>

StopRead(p) ==
    LET r == cmd[p].root IN
    /\ At(p, "stop", "check")
    /\ \/ entry[r] = None /\ StopNext(p, "nothing to stop") /\ UNCHANGED seen
       \/ LegacyAt(r) /\ StopNext(p, "legacy") /\ UNCHANGED seen
       \/ /\ entry[r] # None /\ ~LegacyAt(r)
          /\ Says(r) = Empty
          /\ StopNext(p, "invalid marker")
          /\ UNCHANGED seen
       \/ /\ entry[r] # None /\ ~LegacyAt(r)
          /\ Says(r) # Empty
          /\ seen' = [seen EXCEPT ![p] = Says(r).pid]
          /\ Goto(p, "probe")
          /\ UNCHANGED <<ex, sh, life, outcome, cmd>>
    /\ UNCHANGED <<entry, content, fd, asked, projects, histVars, budget>>

\* Where a start does not handle SIGTERM yet and dies of it.
Defenceless == {"check", "open", "lock", "clear", "write", "overlap", "project"}

\* kill(pid, SIGTERM).
Signal(q) ==
    LET dies == life[q] = "running" /\ pc[q] \in Defenceless IN
    /\ strangers' = IF life[q] = "other" THEN strangers \cup {q} ELSE strangers
    /\ asked' = IF life[q] = "running" /\ ~dies THEN asked \cup {q} ELSE asked
    /\ IF dies THEN Dies(q, "terminated")
       ELSE UNCHANGED <<ex, sh, life, outcome>>

StopProbe(p) ==
    LET r == cmd[p].root IN
    /\ At(p, "stop", "probe")
    /\ \/ /\ Alive(r)
          /\ Signal(seen[p])
          /\ pc' = [q \in Proc |-> IF q = p THEN "wait"
                                   ELSE IF life'[q] = "gone" THEN "done" ELSE pc[q]]
       \/ /\ ~Alive(r)
          /\ Probing(p, {r})
          /\ Goto(p, "stale")
          /\ UNCHANGED <<ex, life, outcome, asked, strangers>>
    /\ UNCHANGED <<entry, content, cmd, fd, seen, projects, unread, budget>>

\* The last of the probes: the recorder has ended, or 6 seconds have passed.
StopWait(p) ==
    LET r == cmd[p].root IN
    /\ At(p, "stop", "wait")
    /\ IF Alive(r)
       THEN StopNext(p, "did not stop")
       ELSE /\ Probing(p, {r})
            /\ Goto(p, "stopped")
            /\ UNCHANGED <<cmd, ex, life, outcome>>
    /\ UNCHANGED <<entry, content, fd, seen, asked, projects, histVars, budget>>

StopRemove(p) ==
    /\ \/ At(p, "stop", "stale") /\ StopNext(p, "stale")
       \/ At(p, "stop", "stopped") /\ StopNext(p, "stopped")
    /\ Remove(cmd[p].root)
    /\ UNCHANGED <<content, fd, seen, asked, projects, histVars, budget>>

-------------------------------------------------------------------------------
(* Commands that ensure that a folder is recorded.                         *)

\* most_specific_parent.
Innermost(r, folders) ==
    {q \in folders : Inside(r, q) /\ \A f \in folders : Inside(r, f) => Inside(q, f)}

\* ready_recording_roots: a recorder that is starting has no say.
ReadyRoots ==
    {Says(r).root : r \in {q \in LiveRoots : Says(q).state \in {"ready", "old"}}}
        \cap projects

\* recording_root_for_path: a recorder's folder, else a project's, else itself.
RecordingRoot(r) ==
    IF Innermost(r, ReadyRoots) # {} THEN Innermost(r, ReadyRoots)
    ELSE IF Innermost(r, projects) # {} THEN Innermost(r, projects)
    ELSE {r}

\* ensure_recording_for_path: any live recorder above will do.
EnsureResolve(p) ==
    LET r == cmd[p].root IN
    /\ At(p, "ensure", "check")
    /\ \/ LegacyOverlap(r) /\ Ends(p, "legacy")
       \/ /\ ~LegacyOverlap(r)
          /\ \E q \in LiveRoots : Inside(r, Says(q).root)
          /\ Ends(p, "recorded")
       \/ /\ ~LegacyOverlap(r)
          /\ \A q \in LiveRoots : ~Inside(r, Says(q).root)
          /\ Probing(p, Root)
          /\ Goto(p, "root")
          /\ UNCHANGED <<ex, life, outcome>>
    /\ UNCHANGED <<entry, content, cmd, fd, seen, asked, projects, histVars, budget>>

EnsureRoot(p) ==
    /\ At(p, "ensure", "root")
    /\ \E q \in RecordingRoot(cmd[p].root) : cmd' = [cmd EXCEPT ![p].root = q]
    /\ Probing(p, Root)
    /\ Goto(p, "spawn")
    /\ UNCHANGED <<entry, content, ex, life, outcome, fd, seen, asked, projects,
                   histVars, budget>>

Spawned(r) == [kind |-> "start", root |-> r, force |-> FALSE, rest |-> {}]

\* ensure_recording: looks again, then runs `undo start` in the folder.
EnsureSpawn(p) ==
    LET r == cmd[p].root IN
    /\ At(p, "ensure", "spawn")
    /\ \/ LegacyOverlap(r) /\ Ends(p, "legacy") /\ UNCHANGED <<cmd, seen>>
       \/ ~LegacyOverlap(r) /\ Alive(r) /\ Ends(p, "recorded") /\ UNCHANGED <<cmd, seen>>
       \/ /\ ~LegacyOverlap(r) /\ ~Alive(r)
          /\ \E q \in Proc :
                /\ life[q] = "unborn"
                /\ life' = [life EXCEPT ![q] = "running"]
                /\ cmd' = [cmd EXCEPT ![q] = Spawned(r)]
                /\ pc' = [pc EXCEPT ![q] = "check", ![p] = "poll"]
                /\ seen' = [seen EXCEPT ![p] = q]
          /\ Closed(p)
          /\ UNCHANGED <<ex, outcome>>
    /\ UNCHANGED <<entry, content, fd, asked, projects, histVars, budget>>

\* wait_for_recorder_start: 200 times, between which the probe is closed.
EnsurePoll(p) ==
    LET r == cmd[p].root IN
    /\ At(p, "ensure", "poll")
    /\ IF Alive(r) /\ Says(r).state = "ready"
       THEN Ends(p, "started")
       ELSE /\ Probing(p, {r})
            /\ Goto(p, "look")
            /\ UNCHANGED <<ex, life, outcome>>
    /\ UNCHANGED <<entry, content, cmd, fd, seen, asked, projects, histVars, budget>>

EnsureLook(p) ==
    /\ At(p, "ensure", "look")
    /\ IF life[seen[p]] = "running"
       THEN Goto(p, "poll") /\ Closed(p) /\ UNCHANGED <<ex, life, outcome>>
       ELSE Ends(p, "exited during startup")
    /\ UNCHANGED <<entry, content, cmd, fd, seen, asked, projects, histVars, budget>>

EnsureTimeout(p) ==
    /\ At(p, "ensure", "poll")
    /\ Ends(p, "timeout")
    /\ UNCHANGED <<entry, content, cmd, fd, seen, asked, projects, histVars, budget>>

-------------------------------------------------------------------------------
(* The rest of the world.                                                  *)

Kill(p) ==
    /\ budget.kills < MaxKills
    /\ budget' = [budget EXCEPT !.kills = @ + 1]
    /\ life[p] = "running"
    /\ Ends(p, "killed")
    /\ asked' = asked \ {p}
    /\ UNCHANGED <<entry, content, cmd, fd, seen, projects, histVars>>

\* The pid of a recorder that is gone is given to an unrelated program.
Reuse(p) ==
    /\ budget.reuse < MaxReuse
    /\ budget' = [budget EXCEPT !.reuse = @ + 1]
    /\ life[p] = "gone" /\ \E i \in Proc : content[i].pid = p
    /\ life' = [life EXCEPT ![p] = "other"]
    /\ UNCHANGED <<fileVars, cmd, pc, fd, seen, asked, outcome, projects, histVars>>

\* Ctrl-C in the terminal of an old recorder.
LegacyEnd(p) ==
    /\ At(p, "legacy", "watch")
    /\ Remove(cmd[p].root)
    /\ Ends(p, "ended")
    /\ UNCHANGED <<content, cmd, fd, seen, asked, projects, histVars, budget>>

-------------------------------------------------------------------------------
OldMarker(p, commands) == [pid |-> p, root |-> commands[p].root, state |-> "old"]

\* Commands say what each pid does: an old recorder is already running, a
\* pid without a command is free for a child.
Init ==
    /\ cmd \in Commands
    /\ entry = [r \in Root |->
                  IF \E p \in Legacy : cmd[p].kind = "legacy" /\ cmd[p].root = r
                  THEN CHOOSE p \in Legacy : cmd[p].kind = "legacy" /\ cmd[p].root = r
                  ELSE None]
    /\ content = [p \in Proc |-> IF cmd[p].kind = "legacy" THEN OldMarker(p, cmd)
                                 ELSE Empty]
    /\ ex = [i \in Proc |-> None]
    /\ sh = [i \in Proc |-> {}]
    /\ life = [p \in Proc |-> IF cmd[p].kind = "child" THEN "unborn" ELSE "running"]
    /\ pc = [p \in Proc |-> IF cmd[p].kind = "legacy" THEN "watch" ELSE "check"]
    /\ fd = [p \in Proc |-> None]
    /\ seen = [p \in Proc |-> None]
    /\ asked = {}
    /\ projects = {}
    /\ outcome = [p \in Proc |-> "none"]
    /\ unread = {}
    /\ strangers = {}
    /\ budget = [kills |-> 0, reuse |-> 0]

Start(p) ==
    \/ StartCheck(p) \/ StartOpen(p) \/ StartLock(p) \/ StartClear(p)
    \/ StartWrite(p) \/ StartOverlap(p) \/ StartScan(p)
    \/ StartRemove(p) \/ StartEnd(p)

Next ==
    \E p \in Proc :
        \/ Start(p) \/ StartShutdown(p)
        \/ StopRead(p) \/ StopProbe(p) \/ StopWait(p) \/ StopRemove(p)
        \/ EnsureResolve(p) \/ EnsureRoot(p) \/ EnsureSpawn(p) \/ EnsurePoll(p)
        \/ EnsureLook(p) \/ EnsureTimeout(p)
        \/ Kill(p) \/ Reuse(p) \/ LegacyEnd(p)

\* A start keeps running, and its loop looks at the flag of its handlers.
Fairness ==
    \A p \in Proc : WF_vars(Start(p)) /\ WF_vars(StartShutdown(p) /\ p \in asked)

Spec == Init /\ [][Next]_vars
FairSpec == Spec /\ Fairness

-------------------------------------------------------------------------------
(* Properties.                                                             *)

TypeOK ==
    /\ entry \in [Root -> Proc \cup {None}]
    /\ \A i \in Proc : /\ content[i].root \in Root \cup {None}
                       /\ ex[i] \in Proc \cup {None}
                       /\ ex[i] # None => life[ex[i]] = "running" /\ sh[i] = {}
                       /\ \A p \in sh[i] : life[p] = "running"
    /\ \A p \in Proc : /\ fd[p] \in Proc \cup {None}
                       /\ life[p] \in {"unborn", "running", "gone", "other"}
                       /\ life[p] = "gone" => pc[p] = "done"
    /\ asked \subseteq Proc /\ unread \subseteq Proc /\ strangers \subseteq Proc
    /\ projects \subseteq Root

\* A start that has passed its checks and not ended its loop.
Recording(p) ==
    /\ life[p] = "running" /\ cmd[p].kind = "start"
    /\ pc[p] \in {"project", "scanned", "announce", "watch"}

Marked(p) == entry[cmd[p].root] = fd[p]

\* Two recorders of overlapping folders, neither of them forced.
Doubled ==
    {pair \in Proc \X Proc :
        LET p == pair[1]
            q == pair[2] IN
        /\ p # q
        /\ Recording(p) /\ Recording(q)
        /\ ~cmd[p].force /\ ~cmd[q].force
        /\ Overlap(cmd[p].root, cmd[q].root)}

\* Of two recorders of overlapping folders, neither forced, one has lost its
\* marker or was overlooked while its marker was being rewritten.  So locking
\* one's own marker before looking at the others' is enough as long as names
\* stay and markers can be read.  (cmd_start, check_no_overlap.)
OverlapExplained ==
    \A pair \in Doubled : \E p \in {pair[1], pair[2]} : ~Marked(p) \/ p \in unread

\* Two recorders of overlapping folders never run at the same time unless
\* forced.  (daemon.rs:470)
OneRecorderPerTree == Doubled = {}

\* As long as an old recorder runs its marker stays as it is, and nobody
\* records an overlapping folder beside it, forced or not.
LegacyRespected ==
    \A p \in Legacy :
        (cmd[p].kind = "legacy" /\ life[p] = "running") =>
            /\ entry[cmd[p].root] = p /\ content[p] = OldMarker(p, cmd)
            /\ p \notin asked
            /\ \A q \in Proc : Recording(q) => ~Overlap(cmd[p].root, cmd[q].root)

\* SIGTERM goes to recorders only.  (daemon.rs:676)
OnlyRecordersSignalled == strangers = {}

\* A start that is refused the lock finds a recorder alive.  (daemon.rs:518)
RefusedByRecorder == \A p \in Proc : outcome[p] # "refused by a probe"

\* A recorder that was told to terminate ends.
AskedEnd == \A p \in Proc : p \in asked ~> life[p] # "running"

===============================================================================
