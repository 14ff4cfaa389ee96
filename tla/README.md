# Undo: TLA+ models, model checking and proofs

Undo records every change to the files of a project and can put earlier
versions back. It is several processes over one data directory (`~/.undo`): a
recorder per project, commands that read, prune or restore, hooks of coding
agents, a web UI with four workers. They share a SQLite database, a directory
of snapshots, a log, marker and lock files, and the user's own files, which the
user changes at any moment. This directory models how these processes
interleave, fail and stop, and what their readers make of the history, and
checks and proves that the history stays truthful, that what is read from it is
what the files were, and that nothing the user had is lost.

Run a check with `tlc -config Store.cfg MCSnapshotStore.tla`, a proof with
`tlapm SnapshotStore_proofs.tla`. `PROJECT.json` names, for every definition,
the source lines it stands for.

## 1. Inventory

| Component (source) | State | Operations | Talks to | Hard behaviour | Correct when | Module |
|---|---|---|---|---|---|---|
| Snapshot store (`snapshots.rs`) | `snapshots/<project>/<sha256>.gz`, `snapshot-store.lock` | save, durable save, load, publication guard, GC guard | everyone who records, plans or prunes | published but not yet referred to; kill or power failure while publishing | a snapshot that is referred to exists and is whole | `SnapshotStore`, `Durability` |
| Retention (`retention.rs`) | none of its own | prune: drop old events, mark, sweep, size backstop, backups, temporary files | database, snapshots | concurrent with capture and planning | removes only what nothing refers to | `SnapshotStore` |
| Recorder (`watcher.rs`) | debouncer, paused flag, mount identity | initial scan, create / modify / remove / rename handlers, flush, health check, reconcile, drain | notifications, database, snapshots | bursts, stale notifications, roots that are unmounted, hang or give way to another filesystem, failing handlers | the history ends with what is on disk | `Recorder` |
| File state and events (`db.rs`) | `file_events`, `file_state` | insert, upsert, mark deleted, queries, live hashes; schema upgrades | all | several writers; values read before the transaction; several versions of the program | rows and events agree; an upgrade loses nothing | `History`, `Migration` |
| Recoveries (`recoveries.rs`) | `recoveries`, `recovery_entries` | create from Run, time, event, task; select; apply; expire | restore resolution, restore file system | several appliers, expiry, crash half-way | a settled plan stays settled; apply changes only what was checked | `Recovery`, `Restoring` |
| Restore resolution (`restore.rs`) | none | state of a path at a time or event, plans, previews, apply | database, restore file system | time versus id order, renames, pruned events | the state found is what the file was | `Restoring`, `Previews` |
| Restore file system (`restore_fs.rs`) | the user's files, `backups/`, temporary names | write (exchange or link), delete (quarantine), undo, backup | the user | a file that changes between check and exchange; failures anywhere | nothing taken from a path is lost | `Recovery` over `Vault` |
| Daemon (`daemon.rs`) | `pids/<hash>.pid` and its lock | start, stop, ensure recording, overlap check, status | recorder, Runs, log | start against stop, two starts, reused pids | one recorder per tree; ready means recording | `DaemonLock`, `Topology` |
| Runs and sessions (`runs.rs`, `sessions.rs`, `db.rs`) | `sessions`, `run_intents`, `checkpoints`, `run_boundaries`, `session_events` | start, complete, intents, checkpoints, boundaries, claims, ownership | recorder, recoveries | overlapping Runs, late events, recording that moves between nested folders | an event belongs to the Runs whose boundary it lies in | `Runs`, `Topology` |
| Agent events (`agent_events.rs`) | `integration_events` | run_started, change_started, ... | Runs | duplicates, retries after a crash | at most one effect per key | `AgentEvents` |
| Agent hooks (`agent_hooks.rs`) | external ids | payloads of three agents to boundaries | agent events, recorder | hook order, parallel tools | a boundary covers its tool call | `AgentEvents` |
| Activity (`activity.rs`, `recover.rs`, `groups.rs`) | none | bursts, panic, groups by folder | database, recoveries | limits and boundaries | a burst is undone to just before it | `Activity`, `Groups` |
| Ask (`ask.rs`) | none | match a request to groups or tasks, make a plan | recoveries | keep clauses, shared files | what is to be kept is kept | `Groups` |
| Web UI (`webui.rs`, `webui_data.rs`, `ui/`) | token | timeline, diffs, previews, recoveries; four workers | recoveries, Runs | overlapping Runs in one list; boundaries; concurrent workers | every change is shown once and undone to just before it | `Timeline`, `Previews`, `Recovery` |
| Ignore rules (`ignore.rs`) | rules cached per process | is a path recorded | recorder, commands | scan and notification ask differently; stale rules | all ways agree | `Ignoring` |
| Logging (`logging.rs`) | `undo.log`, `undo.log.1`, its lock | write, rotate, find a recorder's error | daemon | rotation by several processes, lines written in pieces, kills | the newest lines are kept | `Logging` |
| Update and setup (`update.rs`, `agent_setup.rs`, `install.sh`) | the executable, `undo.old`; agents' configuration files | update; merge hooks | the user, the agents | killed, failing or overlapping between renames | an executable remains; hooks neither lost nor doubled | `SelfUpdate`, `HookSetup` |
| Integrity (`integrity.rs`), command line (`main.rs`, `cli.rs`, `diff.rs`, `duration.rs`) | none | reports, parsing, printing, which project and which versions | - | - | - | `Durability`, `Topology`, `Previews` |

`PROJECT.json` lists under `hazards` what is hard to test here, each at its
line, with the properties that cover it, and says of those no property covers
that they do go wrong.

## 2. Modules

| Module | What it models |
|---|---|
| `SnapshotStore` | snapshots, events, rows and plans, and every process that publishes, refers to or sweeps a snapshot |
| `Durability` | the snapshot files and the database when processes are killed and the power fails |
| `Recorder` | one recorder, the notifications it gets, the user and the filesystem underneath |
| `Vault` | abstract: what restoring promises to the owner of the files |
| `Recovery` | saved plans and the processes that apply them, over the system calls of `RestoreFs` |
| `Runs` | who is said to have made which recorded changes: Runs, boundaries, claims, intents, checkpoints; one action per transaction |
| `AgentEvents` | the calls of agents, hooks and people over `Runs`, with their answers and retries |
| `DaemonLock` | marker files and their locks between recorders, stops and commands that ensure a recorder |
| `Topology` | which project a command works on while recording moves between nested folders |
| `History` | the events and rows that changes, scans, outages, clock steps and prunes leave, next to what the files were |
| `Restoring` | what `restore.rs` and `recoveries.rs` read from the events, and the plans they make |
| `Activity`, `Groups`, `Timeline`, `Previews` | the other readers of the events: bursts and panic, groups and requests, the web timeline, previews and comparisons |
| `Migration` | opening and upgrading the database from several processes |
| `Logging` | writing, rotating and searching the shared log |
| `Ignoring` | which files scans, notifications and reports take |
| `HookSetup`, `SelfUpdate` | an agent's configuration file, and the executable, while they are replaced |
| `..._proofs` | the theorems of a module and their proofs: `SnapshotStore`, `Recorder`, `Recovery`, `AgentEvents` (with `Runs`), `DaemonLock`, `Topology`; `History_proofs` has those of the history and all its readers, `SharedFiles_proofs` those of `Durability`, `SelfUpdate`, `Logging`, `Migration`, `Ignoring` and `HookSetup` |
| `MC...` | bounds, symmetry and inputs for TLC; `MCHistory` composes the readers, `MCSharedFiles` puts the parts without common state beside each other |

### SnapshotStore

`snaps` are the files in the snapshot directory; `refs` the hashes that
`file_events` rows hold, with the column they stand in and whether the event is
older than the retention cutoff; `rows` is `file_state`; `recs` the targets of
planned Recoveries; `lock` what each process holds of `snapshot-store.lock`.
A process is at a location `pc[p]` of one operation, with its locals in
`op[p]`. The operations are a capture (`handle_create`, `handle_modify`), a
rename, a deletion, a scan (`initial_scan_with_limit`), a plan of either kind
(with and without the publication guard) and a prune. The steps between which
others run are those of the code: reading the row, taking the shared lock,
publishing, committing; for a prune the exclusive lock, dropping events,
marking, sweeping file by file, and the backstop, which marks again. `Stop`
ends any operation anywhere: an error, a panic or a kill, which the kernel
answers by dropping the lock.

Values read before the guard (`op.seen`) are used after it, as in the code.
`RetentionPasses` moves every event behind the cutoff; it waits for operations
in flight, because the window (days) is longer than any of them.

`readopted` is a history variable: hashes that a scan took over from a row
already marked deleted. Their snapshots may have been pruned before, the one
exception `ReferencedSnapshotsKept` makes; `ExistingFilesPinned` would be the
property without it, and is false (section 5).

### Recorder

`disk`, `shelf` and `mount` are the world; the user's `Write`, `Unlink`, `Rename` and an
`undo` command's `Restore` change it and put notifications in `queue` while
`watching`. The recorder's `pc` follows `cmd_start` and `watch_events`: walk,
scan (each file read on its own), the scan's transaction, the ready marker, the
watch, then the loop: health check, flush of due paths, one notification or a
timeout, and a drain at shutdown. `hot`, `pending` and `due` are the debouncer.
A handler reads the file when it gets to it, never when the notification was
made. `rows` is `file_state`; `recorded` is what the last event of each path
says.

The handlers take a file's stat first and read it later (`handle_create`,
`handle_modify`), so a row can hold the old modification time next to newer
bytes. If renames then bring a file with that very stat to the path again, the
fast path of `handle_modify` (`watcher.rs:1076`) takes it for recorded and
skips it. The next change of the path repairs the row. `Lookalikes` are the
paths in that state, and `NothingForgotten` and `Converges` except them; it
takes three paths and five changes, more than the run has, and was found when
`NothingForgotten` was being proved. A scan's stat and read are one step here.

Two filesystems take turns at the root. The mount is `"here"` or `"away"`
(every stat fails or times out), and when it comes back it may be the one that
left or the other one (`shelf`), empty or with files of its own, with the old
device number or a new one. It is exchanged only while it is away and the watch
has ended; every file in which the two differ is then `missed`, since nobody
reported the difference. `op.trusted` is `trust_deletions`: set at every start,
and after a pause only for a root that has the old device number. Faults are
outages, walks that are cut short, handlers that fail, crashes and stops.

History variables say where the code itself gives up, and no property needs
more than that: `missed` (the last change came when nobody watched, or its
handler failed), `reborn` (a scan marked a row existing without an event),
`guessed` (a deletion recorded by the single-path Name branch, after a walk that
was cut short, or by a trusting scan of the other, non-empty filesystem: such a
scan takes every file it does not meet for deleted), `removed` (paths the user did remove).

Left out: ignored, binary and oversized files, the scan limit, the polling
fallback, directories (a directory rename sends no notification for the files
inside, so nothing could be checked about them but that they are missed), two
writes with one modification time, one walk that meets files of two filesystems,
and a watch that outlives a filesystem mounted over the one it is on.

### Recovery and Vault

`disk` says what is at each path and, for the proof obligation below, which
applier put it there. `plans` is the `recoveries` table with its entries.
Each applier (`undo apply` or a web UI worker) goes through `apply_recovery_in`:
status check, `preflight_entries`, the two passes of
`apply_restore_plan_with_fs`, and per entry the system calls of
`RestoreFs::write` or `delete`: stage, exchange or link or quarantine, look at
what was displaced, undo or back up, discard. Between any two of them the user
may edit, another applier run, a plan expire, a prune remove snapshots nothing
pins. `IoError` fails any call, `Crash` kills the process.

Reading all entries in `Preflight` and in `Verify` is one step: each entry is
read once and nothing is written, and a later pass reads it again, so splitting
the read adds no behaviour that survives the next pass. Whatever an applier
leaves under a temporary name (`<name>.undo.partial`) is `leftovers`.

`Vault` says what restoring promises: the user may change anything; the tool
may put something at one path at a time, and what it took away, unless it had
put it there itself, it keeps. `Recovery` implements it with
`own <- ` the paths whose content an applier put there and `kept <- ` backups,
leftovers and whatever an applier has displaced and not yet backed up.

Left out: a program that writes through a handle it opened before the file was
displaced, permission bits, symlink and path confinement checks, and the
ageing of backups.

### Runs and AgentEvents

`Runs` is the database side. `events` keeps of each event only its paths;
`MaxEventId` is the fence every start, end, boundary, intent and checkpoint
reads, and may go back when a prune drops the newest events. `runs` is
`sessions`, `boundaries` is `run_boundaries` by Run and external change id,
`claims` is `session_events`. Each action is one `BEGIN IMMEDIATE` transaction
that changes something; calls that find their work done or fail are in
`AgentEvents`. `Members` is what a Run is said to have changed,
`Ownership` decides whether a whole file may be put back for it.

`AgentEvents` is the side of the callers. A client has a script: steps, how it
sends them (`event` for `undo event`, `hook`, `cli` for `undo run` and
`undo run stop`), a mode, an external Run id, and whether it names its intents
(`named`: the `label` of `intent_completed` is optional). Each call is a process in
`calls` with a location: `sync`, the walk or the reconciled paths still ahead;
`apply`, the Run found and the transaction still ahead; `record`, the work done
and the answer to be saved. `Resend` repeats an event whose answer was lost or
which is still running (`hasty`); `responses` is `integration_events`. A client
changes files only where its script says it is working; others do at any time.
`authors` remembers whose changes an event holds, so that `WorkIsAttributed`
can compare what was done with what is claimed; `excused` remembers clients
whose Run somebody else ended, whose start another Run forbade, whose intent
found someone else's in its Run, or was completed by someone who left the label
out (which completes whatever intent is active).

`Orderly` says what scripts there are: the steps their kind of sender has, each
once, an opening step followed by the one that closes it, changes in reported
Runs only, and nothing after the end of a Run. This is the order in which the
examples of `docs/agent-integration-spec.md` and `docs/agents/` send them and
hooks come; a client that has more than one change or intent is
several clients here, since the code names them apart and asks of each call
only its Run.

What is merged: a look-up that its transaction repeats is part of the
transaction; `SaveAnswer` is the second look-up, the insert and, when the key
is taken, the third look-up, since the key is unique. What is split: a scan
commits its events together, here path by path, which allows more orders. The
sync always succeeds (failing scans are in `Recorder`), and records a path once
(concurrent scans of one path are in `SnapshotStore`). Left out:
project-level checkpoints, v1 events without a `run_id`, one key with two
payloads; `session stop` is in `Topology`.

### DaemonLock and Topology

`DaemonLock` is about markers. `entry` is the directory `pids/`, which file
each folder's marker names; `content` what each file says; `ex` and `sh` who
holds its lock, so that a lock can outlive the name it was taken under, which
is what the races are about. `cmd` and `pc` follow `cmd_start`, `stop_one_daemon`
(also from `stop --all`), `ensure_recording` with the child it spawns and
`wait_for_recorder_start`; `life` says whether a pid runs, is gone or belongs
to another program. Reading a marker and probing its lock are separate steps;
the probe holds a shared lock for a moment, which another start can run into.

`Topology` is about what a command finds. `recorder` says for each folder
whether a recorder has its lock, its row, is ready; `projects` are the rows of
`watched_projects`; `tracked` and `pending` what each project's history says
and lacks. A command (`undo run`, `run start`, `run stop`, `session start`,
`session stop`) resolves a root, ensures a recorder, resolves a project, brings
it up to date, and starts or completes a Run, in separate steps. The command of
`undo run` keeps the root and the project its Run was started with; at the end
it ensures recording, drops the root that was ensured (`cmd.ensured`), and scans
its own root into its own project. `owed`,
`early` and `missed` of a Run are history variables: the changes it should have
and those that fell outside it.

### History and its readers

`History` reduces the recorder to what it commits and keeps in `past[id]` what
the files were after each event; no reader looks at `past`. Changes, outages
with the scan that ends them, clock steps in both directions, and prunes may
come in any order. `Restoring`, `Activity`, `Groups`, `Timeline` and `Previews`
are pure: each query and planner of the code is an operator over `log`, `rows`,
`runs` and `files`, and the properties compare its answer with `past` in every
reachable history. Contents are pairs of lines, so that a task's patch can
conflict in one line and apply in another. What a word of a request matches is
a parameter (`Matches`, `Names`, `Parts`); the string algorithms are not
modelled.

Some histories cannot be read back, and the properties say which: `Unrecorded`
(a scan found a change and made no event), `Misleading` (the first event left
after a prune does not show that the file was absent before it), and, for
times, a clock that stepped back.

### Migration, Logging, Durability, HookSetup, SelfUpdate, Ignoring

These have no state in common; `MCSharedFiles` picks one of them at the start
of a behaviour and leaves the others at rest.

- `Migration`: each process that opens the database takes the steps of
  `apply_schema` one transaction at a time, from any layout an earlier version
  left; a process that has finished works on while another one is still at it.
- `Logging`: writers hold the file they opened, look again under the lock,
  rotate with an exchange of names, append. A line goes out in several writes; a
  kill or a failed write between two of them leaves a torn line, which the next
  one continues. A launcher notes where the log
  ends, spawns, and looks for an error after its recorder has gone.
- `Durability`: `shown` is what the processes see, `could` what a power failure
  may leave, `db` the commits SQLite has not synced yet.
- `HookSetup`: setups, the user and other programs read and replace one
  configuration file.
- `SelfUpdate`: two updates of one executable, on systems where
  `current_exe` follows a rename and where it does not. Every step may fail, the
  one that takes the old executable back included (`stranded`).
- `Ignoring`: one predicate, asked by a walk that prunes folders and begins with
  the root itself (`RootIgnored`: the matcher climbs to the folders above it),
  by notifications, by renames and by an agent's report, from rules cached per
  process.

## 3. Runs

Deadlock is checked in `Store` and `Recorder`. The other systems may stop: once
the bounded commands, edits, plans and scripts are used up, nothing is left to
do.

| Run | Question | Bounds | Result |
|---|---|---|---|
| `Store` | can any order of two processes' operations lose a snapshot that is referred to | 2 processes; 2 paths with 1 content, or 1 path with 2 contents and at most 3 references | holds |
| `Recorder` | does the history stay truthful through outages, crashes, stops and failing handlers, and does the recorder catch up | 2 paths, 2 contents, 3 changes, 2 faults | holds |
| `Recovery` | do two appliers, the user and any failure lose nothing, and is a settled plan final | 2 appliers; 1 plan of 1 file with 3 edits and 2 faults, or 2 plans of 2 files, one possibly a selection of the other | holds |
| `AgentEvents` | does what clients reported end up under their Runs, whatever interleaves, dies or is repeated | 10 pairs of clients, 2 paths, 2 Runs, 2 events, 2 changes, 1 trouble | holds |
| `DaemonMarkers` | do two recorders of one tree come about, and does one that was told to stop | 3 commands of 14 combinations, 2 nested folders, 1 kill, 1 reused pid | holds |
| `HistoryRestore` | is what restore, undo, comparisons and previews read what the files were | 2 files, 3 contents of 2 lines, 3 events, 3 seconds, 1 step back, 1 outage | holds |
| `HistoryViews` | the same for Runs, requests, bursts and the timeline | 2 files, 2 contents, 1 Run, 3 events, 3 seconds | holds |
| `SharedFiles` | do upgrades, the log, snapshot files, configuration, executable and ignore rules survive sharing, kills and power failures | 2 processes each; see `SharedFiles.cfg` | holds |
| `Topology` | do Runs keep their changes and stay findable while recording moves | 2 nested folders, 2 commands, 2 recorder starts, 1 change, 1 Run | holds |
| `RecoveryDoubleApply` | does an apply that succeeds leave its plan applied | 2 appliers, 1 path | violated: the other one marks it conflicted |
| `TopologyRunStop` | does `undo run stop` bring the Run's own project up to date | 1 command at a time, else as `Topology` | violated: it is the project of the folder |
| `IgnoreSpellings` | does `!build/**` keep the files below `build/` recorded | 5 files, 5 rule files, 3 roots | violated: the scan prunes `build` and records deletions |

**Why the bounds are enough to be interesting.** The races of the store need
two processes (one that prunes, one that refers), and two contents for a
version and its predecessor or two paths for a rename; its theorems hold
without any bound. The recorder needs two paths for renames and exchanges,
three changes so that a path can be created, changed and renamed back while a
notification of the first change is still queued, and two faults for an outage
and a crash in it, or for a swap of filesystems and a swap back, the second of
which brings files that are not those recorded since. To put back the wrong thing an applier needs three
edits: one the plan is made from, one between its last check and the exchange,
one before it undoes the exchange; it needs a second entry to fail after the
first one. Attribution needs two changes, one by the client and one by another,
and two paths so that one event is on a path that was not announced; one
trouble at a time. Markers need two folders of which one contains the other and
three commands, since the known double start takes a stop between two starts.
`HistoryViews` has one Run, so that
claims never collide in it; the theorems about it (`RunUndone`,
`TimelineComplete`) hold for any number, and what their proof needs of two Runs
at once (`RunsInv`) was explored with two. A history needs three events: one to be restored, one to be undone and one that
comes after, is pruned before, or shares its second; a rename makes two
changes of one event. The burst limits of the code (8 events, 5 paths, 2
deletions, gaps of 10 seconds) are scaled down to 3 events, 2 paths and 2 deletions, so
that they are crossed. A log file of one line is rotated at every write, so that
three files of the log are as many as four lines need; three processes started in
all are two lives of one pid, the least for a reused one, and another writer. Of
the pairs of clients, one has a client that leaves the label out, beside another
intent of its Run. The three roots for the ignore rules are a plain one, one
below a folder that a rule may name, and one below a built-in name that ends
like a secret. Two updates and three
releases let one overtake the other. Three processes at once are explored only
for markers.

**Fairness.** The store has none: `flock` promises no fairness, so a prune may
wait for ever, and no liveness is claimed. The recorder's thread keeps running
(`WF` of its steps) and time passes for the debouncer (`WF` of `QuietPasses`);
the health check is due every five seconds whatever else is queued, but a root
that comes and goes may be looked at only while it is away, hence `SF` and
conclusions about a filesystem that stays (`<>[]Running`). Nobody has to start
a recorder, change a file or mount a filesystem. In `DaemonLock` a
start keeps running until it records, gives up or is killed, and a recorder that
was asked to stop comes to look at the flag (`WF` of its own steps), which is
the scheduler's; nobody has to enter a command. All the other
modules claim safety only: nothing obliges an integration to repeat an event, a
user to open the database again, or an update to be retried.

## 4. Properties

- `ReferencedSnapshotsKept`, `CapturedContentKept`: the guarantee of the
  publication lock and of mark and sweep. `SnapshotsSurvive`: a kill tears no
  snapshot, a power failure takes none that a durable save returned.
- `NothingForgotten`: a path whose history does not end with what is on disk is
  still queued, pending or being worked on, or its change was one nobody
  reported. `Converges`: a recorder that stays up records the last content.
  `HistoryMatchesRows`: rows and events never disagree, renames included.
  `DeletionsAreReal`: an outage is not taken for a deletion, nor another
  filesystem for one where everything was deleted, except by the code's guesses:
  a Name event looked at while the file's filesystem is not there, a walk that
  was cut short, and a scan that trusts deletions on another filesystem that is
  not empty (any scan at a start; after a pause only with an equal device
  number).
- `LosesNothing` (`Vault`): restoring never destroys the only copy.
  `SettledForGood`: applied and conflicted are final.
- `WorkIsAttributed`: work between two calls that succeeded is claimed by the
  Run, whatever else happened (a wrapped Run that someone else ended, and an
  intent that someone without a label completed, have only what was done before
  that, which their own end does not notice);
  `ClaimsAnnounced` is the other direction. `WindowsAlone`, `OneExclusiveOwner`: no two Runs are both told that
  a change or a file is theirs alone. `EndedIsFinal`: an ended Run gains
  nothing. `RetriesSucceed`, `OneAnswerPerKey`: what idempotency keys promise; an
  `intent_completed` without its label, completed by a call that died before its
  answer was saved, is the one event refused when it is repeated.
- `LegacyRespected`: an old recorder, which locks nothing, is neither signalled
  nor doubled. `OverlapExplained`: two unforced recorders of one tree come about only where
  a marker was removed or half-written; `AskedEnd`: a recorder told to stop
  ends.
- `CompletionCovers`, `StartsClean`: a Run has the changes made from its start to
  its end and no earlier ones: one ended by `session stop` those in its whole
  project, one of `undo run` those below the root it was started with, and
  earlier ones can be in it only of files the history takes for deleted when it
  starts; `RunsStayFindable`,
  `ReadersFindProject`: it can be listed and stopped from where it was started.
- `StatesAreTrue`, `TimeTravelIsExact`: the state read at an event or a time is
  what the files were, and a restore to it gives exactly that;
  `FallbackFromBefore`: a fallback gives what the deletion before the target
  took, not a later one; `IntentUndone`: undoing a task puts its lines back and
  keeps everyone else's; `PreviewIsTrue`: what the user is told before is what
  happens.
- `RunUndone`, `DamageUndone`, `EditsUndone`: undoing a Run, a burst or an item
  gives the files just before it; `AskKeepsGroups`: nothing a keep clause names
  is touched; `TimelineComplete`: every event is shown once; `NetChangeIsTrue`:
  what an item says of a file is what it did to it.
- `HistoryIsKept`, `UpgradeIsComplete`; `NewestLinesKept`,
  `ReasonIsTheRecorders` (but for torn lines); `SetupMerges`; `ExecutableKept`
  (but for a kill between the renames or a take-back that failed); `WaysAgree`
  (but for a root the rules are about): see the comments in their modules.

Type invariants (`TypeOK`, `RunsTypeOK`, `LogTypeOK`, ...) stand in every
module with state; the routine runs check behaviour, not types. Those of
`SnapshotStore`, `Recorder`, `Recovery`, `Runs`, `DaemonLock`, `Topology` and
`History` are theorems (`TypeCorrect`), and the types of `Durability`,
`SelfUpdate`, `Logging`, `Migration` and `Ignoring` are the first part of the
invariants in `SharedFiles_proofs`. Properties that are stated and not in a run
are proved (`LegacyRespected`), weaker parts of one that is
(`DeletesOnlyNewer`, `Resumes`, `OnlyRecordersSignalled`, `RefusedByRecorder`),
or false in the code as it is; the next section names those.

## 5. Where code and documents disagree, and other observations

Three runs show a disagreement with a document or comment (`findings` in
`PROJECT.json`).

1. `docs/recovery.md:79`: applying again after success is a no-op. Of two
   appliers one can report success while the plan ends as conflicted, and a
   second apply is then refused (`RecoveryDoubleApply`).
2. `docs/cli.md:86`: `undo run stop` completes a Run after synchronizing its
   changes. It synchronizes the project the folder resolves to now; after
   recording has moved that is not the Run's (`TopologyRunStop`). `session
   stop` had the same defect and was repaired.
3. `ignore.rs:440`: both spellings of opting a built-in folder in work. With
   `!build/**` a file is recorded when it changes and recorded as deleted by
   the next scan (`IgnoreSpellings`).

The following hold in no module as one might wish; each is stated as a property
in its module that TLC refutes, or is an exception in one that holds.

- Snapshots. `docs/storage.md:67` promises a planned Recovery's targets for 24
  hours; only intent plans are saved under the publication guard
  (`PlannedTargetsKept`). A scan that finds a deleted file back with its old
  content marks the row existing without saving the snapshot
  (`ExistingFilesPinned`). A snapshot of a scan that a power failure tears is
  never replaced, since the next save finds the name taken
  (`RescanRepairs`; `docs/storage.md:179` says scans can be repeated). A scan's
  unsynced rename may replace the durable file of the same content.
- Recorder. The marker says `ready` before the watch is installed
  (`ReadyMeansWatched`). The single-path Name branch records a deletion when
  the stat times out (`OutagesDeleteNothing`). A scan of a tree that lost all
  its files records no deletions, takes back a deleted file with equal content
  without an event, and records MODIFIED for one that had been gone. The comment at
  `watcher.rs:191` says that the guard of the scan at a start "protects against
  starting against an empty/wrong mount". It does for an empty one: that scan
  trusts deletions, so a wrong filesystem with any file in it has every other
  file of the project recorded as deleted. After a pause the device number is
  compared first, which a filesystem mounted between the comparison and the
  walk, or one that was given the old number, gets past.
- Agents. `docs/agent-integration-spec.md:119` makes the label of
  `intent_completed` optional. Without it the event completes whatever intent is
  active, another integration's too; and when its first call died between the
  transaction and the saved answer, the repeated one finds no active intent and
  is refused (`db.rs:1949`), after all else was as it should be.
- History. A rename onto a file of equal content records no DELETED, so after a
  prune a plan to an earlier boundary deletes that file. After a clock step a
  prune leaves holes, and the boundary of a group of edits is that of its first
  event by time, not by id. The panic window and the event limit can cut a
  burst. `undo diff --checkpoint` compares by the checkpoint's second and
  `restore --checkpoint` by its event, so the two can differ within a second;
  of a file deleted twice `undo diff` shows the version asked for but suggests
  `restore-deleted`, which brings back the latest one.
- Requests. A task named only in the keep clause is taken back
  (`AskKeepsTasks`). The web UI's undo of an item ignores the old names of its
  renames (`ItemUndone`).
- Recorders. A marker that `stop` removes late, or that is read while it is
  rewritten, allows two recorders of one tree (`OneRecorderPerTree`).
- Projects. While a nested recorder has its lock and not yet its row, a command
  scans the nested folder into the project around it and records every other
  file of it as deleted (`NothingVanishes`). A session of hooks that goes on
  after recording moved starts a second Run; a wrapped Run's completion fails
  when recording has moved to a nested folder.
- Shared files. Two upgrades at once can fail with "duplicate column"; the next
  open succeeds. A setup overwrites what the user saved between its read and
  its rename. An update killed between setting the executable aside and
  installing leaves only `undo.old`, and so does one that fails to install and
  then to rename it back, which `update.rs:102` does not report; overlapping
  updates can leave none at the name. `logging.rs:141` says "One write per line",
  but `writeln!` on a file makes several: a line torn between them is continued
  by the next process's, and what `undo start` then shows can be mixed of two
  errors, or nothing. In a project below a folder that a rule names (`build/` in
  `~/build/p`), or named like a secret (`p.key`), scans meet nothing, while
  notifications go on recording (`watcher.rs:446`, `ignore.rs:149`). Rules that newly ignore a file make the next scan record it as DELETED,
  and commands follow newer rules than the recorder that is running.

Seen and not modelled: `docs/storage.md:150` says backups are made before
overwriting; the code exchanges first and copies the displaced file afterwards,
which is what makes the backup exact (`LosesNothing` counts the displaced file
as kept). `docs/concepts.md` speaks of one active Run per project, which is true
of window Runs only; `docs/agent-integration-spec.md` says the payload of a
repeated event is not compared, and `get_integration_response` rejects a
different one.

## 6. Proofs

Proved by TLAPS for all values of the constants; see the comments in the
modules for the arguments.

**SnapshotStore_proofs.** `Invariance` proves `Spec => []IInv`; `TypeCorrect`,
`ReferencesKept`, `CapturedKept` and `PublishedKept` follow. Assumed: only
`NoneAssumption` (`None \notin Hash`). The safety property is not inductive: at
the sweep one must know that what is pinned now was in the live set read by
`Mark`. `IInv` adds, for each process, how its lock follows from its location,
the shape of its locals, and two facts that carry the argument:
`ChangeCovered` - a row that differs from what an operation read before it had
the guard was changed by a commit whose event is still young, so both the old
and the new hash are pinned by an event no prune drops - and `SweepSeesPins` -
during a sweep everything pinned is in the sweeper's live set, because nobody
can publish or refer to a new hash while it holds the exclusive lock, and
deletions and planless commits refer only to hashes already pinned. `Exclusion`
is the lock. Each action has a lemma; the preservation proof has a step per
action and a sub-step per conjunct it can disturb.

**Recovery_proofs.** `TypeCorrect`, `SettledStays` and `ImplementsVault`, for
any number of appliers, plans, paths and contents. Assumed: paths are natural
numbers (their order), `None` and `Other` are not contents, and the bounds are
natural numbers. The invariant adds to `TypeOK` what an applier's location says
of its locals (`Fits`: a plan is chosen, an entry is ahead, at most one thing
is displaced and it is something) and `BackedUp`: a displaced file is removed
only once the backup holds its content. `BackedUp` and the shape of `temp` are
what the refinement needs: every step of an applier either keeps at least what
was kept (`KeepStep`) or changes one path, keeping what it took unless an
applier had put it there (`PutStep`). `KeptGrows` reduces both to the one
applier that moves. `LeastNatural` rests on the library's well-foundedness of
the natural numbers.

**Recorder_proofs.** `TypeCorrect`, `RowsAgree`, `DeletionsReal` and
`ChangesKept`, for any paths, contents, changes and faults. Assumed: `None` is
not a content, the bounds are natural numbers. That no change is forgotten
depends on whether the file exists. A file that does is read again as long as
its path is anywhere in the channel, the debouncer, a handler or the scan
(`PresentKept`); one that does not is settled only by a notification that can
record a deletion, or by a scan (`AbsentKept`). Both would fail if an old
notification could delete a file that is there again, so the invariant says
that such a notification is always followed by a later one about the path
(`Notes`), what a handler or a scan holds is still so or will be looked at
again (`Working`, `Scanning`), whatever has a row was on one of the two
filesystems and is there still or was removed (`Known`), what is said to be gone
was removed, or is guessed where a scan that trusts deletions meets the other
filesystem (`Deleting`), and which variables are empty at which location (`Shape`).

**AgentEvents_proofs.** First the transactions of `Runs` by themselves:
`TypeCorrect`, `AnnouncedClaims`, `WindowsKeptApart`, `ExclusiveOwners`,
`EndedRunsFinal`. Assumed: Run ids are natural numbers, `NoExternal` is not an
external id. Prune makes fences go back: a Run may start at a fence below the
end of one that is over. What keeps the two apart is that the ids in between
are gone and are never given out again, so `SpansApart` compares spans by the
events that are left in them; `FencesPast`, `NotStarted`, `EndedClosed`,
`ActiveAlone`, `BoundariesInside` and `ClaimsInSpan` are what it and
`ClaimsAnnounced` need. Then the callers: every step of every call, whatever
its script, is one transaction of `Runs` or leaves its tables alone
(`ImplementsRuns`), so that all of the above holds for them (`RunsKept`); and
one key has one answer (`AnswersUnique`). Assumed here: clients name their own
changes and announce at least one path, scripts are about external ids.

`WorkAttributed` and `RetriesAnswered` add that scripts are orderly
(`OrderAssumption`), and nothing about how many clients, paths or Runs there
are. Their invariant, `WorkInv`, follows what a client did from its files to
events to its Run. Work is done at a step, and at no other time, so what is
still unrecorded or was recorded of it belongs to a step the client has reached
(`Tagged`). A call that is past its synchronization has recorded all of it that
it is about (`Swept`): the fence it is about to read lies behind the work, and
the fence its opening step read lies in front (`Brackets` for changes,
`Intended` and `Finished` for intents, `Wrapping` for wrapped Runs, `Covers` for
checkpoints). That a fence may go back when the newest events are pruned does
no harm: an event that is pruned is no longer in the claim, and ids are not
given out again. A step that was answered, now or by the first of two calls
under the key, has left its effect (`Done`), also when the caller died before
the answer was saved, because each transaction finds its own work done when it
is repeated. `Lasting` and `Welcome` are what keeps an integration from being
refused: its Run goes on until it ends it, unless it is excused. An intent that
somebody without a label may have completed is not followed further (`Cut`).

**DaemonLock_proofs.** `TypeCorrect`, `DoublesExplained` and
`OldRecordersRespected`, for any processes, process ids and folders. Assumed:
overlapping is reflexive and symmetric, commands are typed, a folder has one
old recorder at most. Locks are on files and markers are names of files, so the
invariant follows both: who holds a lock runs (`Locks`), a process that is gone
has stopped where it was (`Lives`), a name is of a file somebody created
(`Files`), a start that has come as far as its lock holds it until it ends, and
its marker says so unless it was lost (`Holding`), every pair of recorders that
overlap is explained (`AllExplained`), and an old recorder has its marker as
long as it runs (`OldMarkers`).

**SharedFiles_proofs.** Six unrelated systems. `SnapshotsKept`: what is
settled is on the disk in every state a power failure may leave (`Settled`), a
publisher past its rename has a file (`Publishing`), only a power failure tears
(`PowerOn`). `UpdateKeepsExecutable`: one of the installed and the set-aside
file is whole as long as one update is on its way (`OneUpdate`), and if only the
set-aside one is there and no update is at work, one was killed or could not
take it back.
`UpgradeStaysComplete`, `CheckpointsKept`: what a process has passed is there
(`Progress`), a Run claims nothing but what it owns, and all of it at the
current version (`Claimed`), and names are unique (`NamesAreUnique`).
`NewestLinesStay`: who is past the lock alone moves files and has the newest
one open (`Handles`), files hold written lines (`Contents`), and what is gone
is older than what is kept, which is in order (`Ordered`). `ReasonsTrue`: lives
of one pid only grow (`Lives`), a file only grows after the launcher's cursor
(`CursorStands`), and what the child's pid wrote before the cursor is of an
earlier life, what it wrote after it is the child's (`AtCursor`, `AtWaiting`);
a torn line is followed with the line that goes on in it.
`WaysStayAgreed`: a recorder whose rules nobody touched goes by those in the
file (`SameRules`). `SetupStaysMerged`: what the user last left is in the file
and in what every setup has read that the user has not overtaken
(`Untouched`), and Undo's hooks are one per event (`OneHook`); a merge puts the
group with `k - 1` staying groups before it at place `k`, and `PlacesFill` shows
that no group is dropped (`PreservedKeeps`). Assumed: the constants of each module, bounds that are natural
numbers and values that stand for none.

**Topology_proofs.** `TypeCorrect`, `RunsFound`, `ReadersServed`,
`StartsAreClean` and `CompletionsCover`, for any number of Runs and commands.
Assumed: folders are finite and form a forest (each is around itself, nesting
is transitive, and of two folders around a third one is around the other). The
invariant says that a Run belongs to a project around the folder it was started
in (`Placed`), that what it owes is what its project has still to record
(`Owing`), and for each
command what its location says of its locals and of the Run it holds (`Keeps`,
`Standing`, `Within`, `Holding`). `Synced` carries the two properties: what is
in a project's history, but not in its present state (`Stale`), when a command
starts or completes its Run was changed after the command's own
synchronization.

**History_proofs.** For any finite sets of files and Runs, any contents, number
of events, clock steps, outages and prunes: `BoundariesTrue`,
`TimeTravelExact`, `FallbacksTrue`, `PreviewsTrue`, `RunsUndone`,
`TasksUndone`, `AskingKeepsGroups`, `EditGroupsUndone`, `NetChangesTrue`,
`DamageIsUndone`, `TimelineIsComplete`, and `RunsApart`. Assumed: `None` is no
path, content, number or row, `Unknown` is none of these, and what
`RestoringConstants`, `ActivityConstants` and `GroupsConstants` say of folders,
limits and words. One inductive invariant, `HistoryInv`, relates the tables to
`past`, what the files were:

- `Bounded`, `Gapless`: ids that anything refers to were given out, and above
  the greatest pruned id none is missing; without it an event after a boundary
  would not tell what the boundary was.
- `Shows`, `TookAway`: an event shows what its paths are after it, and a
  deletion took away what was once there.
- `Stays`: an event leaves all other paths alone, unless a scan changed one
  silently and no event left is about it.
- `Tells`: the content before an event is the one the event names, unless the
  event is `Misleading` or follows a silent change.
- `Linked`, `Remembered`, `Rowed`: the row of a path is its last boundary, and
  its file while the recorder is up.
- `Timely`: as long as the clock has not stepped back, times grow with ids.

From it follows `BoundaryIs`: what the resolver finds at a boundary is what the
path was there. `TimeIsBoundary` and `LandsBefore` reduce a time to a boundary,
and each property of a planner to `BoundaryIs` at the boundary it picks. About
Runs one more invariant is needed, `RunsInv`: claims lie between a Run's ends,
an ended window Run claims all that is left there (`Claiming`), and no event is
within it and another Run (`Apart`). The order of lists is not by recursion: an
item's place is its rank, the number of items before it, and `RanksFill` and
`RanksSort` show that ranks fill a sequence. Two properties came out of their
proofs stronger than they were first stated: the emergency restore of a burst
holds also where the window of `undo panic` cuts the burst's beginning off, and
the alert needs only that earlier events about the same path are in earlier
seconds. `TimelineIsComplete` includes collisions of claims, which the run with
one Run does not reach.

**Left to TLC.** Liveness (`Converges`, `AskedEnd`), since `ENABLED` and
fairness are outside the prover's reach.

## 7. Plan

Done: all components of the inventory that keep state are modelled in whole or
in part, and every safety property of a passing run is a theorem. No module
declares a RECURSIVE operator, so that each can be proved about. What is left:
that what `Recorder` commits is what `History` says an outage, a scan and a
handler may commit.

## 8. Not modelled

String algorithms: hashing and compression, matching one glob, normalising and
stemming words, line diffs, parsing of arguments, durations, payloads and
configuration. Output: printing, colours, HTTP, tokens, static assets, the
client's polling and rendering. Properties of one system call: path
confinement, symlinks, permissions. Work that is read-only and only shown:
`status`, lists of Runs and checkpoints. In the recorder: the scan limit,
binary and oversized files, the polling fallback, directory events. In
retention: temporary files, the age of backups, `--dry-run`, the configuration.
`install.sh`, which runs before anything else does.
