------------------------------ MODULE History ------------------------------
(***************************************************************************)
(* The recorded history of one project, as the commands that read it find  *)
(* it: file_events (log), file_state (rows) and the Runs' boundaries and   *)
(* claims, next to the files themselves.  The recorder is reduced to what  *)
(* it commits (module Recorder has its races): while it is up, each change *)
(* of the user is committed at once by handle_modify, handle_delete or     *)
(* handle_rename; what happens while it is down is found by the next       *)
(* initial_scan.  Ids grow with the commits; timestamps are the wall       *)
(* clock's, several events may share a second, and the clock may step      *)
(* back.  Retention drops old events.                                      *)
(*                                                                         *)
(* past and silent are history variables: what the files were after each   *)
(* event, and which files changed without one.  No action and no reader    *)
(* looks at them; the properties compare the readers of modules Restoring, *)
(* Groups and Timeline with them.                                          *)
(***************************************************************************)
EXTENDS Naturals, Sequences, FiniteSets, SequencesExt, FiniteSetsExt

CONSTANTS
  Path,        \* recorded files
  Value,       \* file contents
  None,        \* no file; NULL in a column
  Run,         \* Runs (sessions)
  MaxEvents,   \* bound: ids given out
  MaxTime,     \* bound: the clock
  MaxSlips,    \* bound: steps of the clock backwards
  MaxStops     \* bound: stops of the recorder

ASSUME HistoryConstants ==
  /\ None \notin Path \cup Value \cup Nat \cup [hash: Value, exists: BOOLEAN]
  /\ {MaxEvents, MaxTime, MaxSlips, MaxStops} \subseteq Nat /\ MaxTime # 0
  /\ IsFiniteSet(Path) /\ IsFiniteSet(Run)

VARIABLES
  files,    \* the working tree: path -> content or None
  up,       \* the recorder is running
  stops,    \* how often it was stopped
  rows,     \* file_state: path -> None or [hash, exists]
  log,      \* file_events: id -> event, for the ids that are left
  last,     \* the greatest id ever given out
  now,      \* the wall clock, in seconds
  slips,    \* how often the clock stepped back
  runs,     \* sessions and session_events: Run -> record
  pruned,   \* the greatest id that retention dropped
  past,     \* history: id -> the files after that event
  silent    \* history: <<path, last>> for changes a scan saw and did not record

recorded == <<rows, log, last, past>>
vars == <<files, up, stops, rows, log, last, now, slips, runs, pruned, past, silent>>

States == [Path -> Value \cup {None}]
Event == [time: Nat, path: Path, kind: {"CREATED", "MODIFIED", "DELETED", "RENAMED"},
          hash: Value \cup {None}, prev: Value \cup {None}, old: Path \cup {None}]
Entry(kind, path, hash, prev, old) ==
  [time |-> now, path |-> path, kind |-> kind, hash |-> hash, prev |-> prev, old |-> old]

TypeOK ==
  /\ files \in States
  /\ up \in BOOLEAN
  /\ rows \in [Path -> {None} \cup [hash: Value, exists: BOOLEAN]]
  /\ last \in 0..MaxEvents
  /\ DOMAIN log \subseteq 1..last
  /\ \A id \in DOMAIN log : log[id] \in Event
  /\ now \in 1..MaxTime
  /\ slips \in 0..MaxSlips
  /\ pruned \in 0..last
  /\ DOMAIN past = 0..last

(* What the tables give to every reader. *)

Exists(p) == rows[p] # None /\ rows[p].exists
Latest(p) == IF Exists(p) THEN rows[p].hash ELSE None

(* get_live_hashes apart, every query of the history takes the events of   *)
(* the project by id or by time; max_event_id is 0 when none is left.      *)
Ids == DOMAIN log
MaxEventId == IF Ids = {} THEN 0 ELSE Max(Ids)
EventsBetween(a, b) == {id \in Ids : a < id /\ id <= b}
EventsSince(t) == {id \in Ids : log[id].time >= t}
Touches(id, p) == p \in {log[id].path, log[id].old}

(* ORDER BY timestamp, id *)
Before(i, j) == \/ log[i].time < log[j].time
                \/ log[i].time = log[j].time /\ i < j
InOrder(ids) ==
  [n \in 1..Cardinality(ids) |->
     CHOOSE id \in ids : Cardinality({other \in ids : Before(other, id)}) = n - 1]

(* Commits: the events get the next ids; then is the sequence of the       *)
(* working trees they leave behind.  Ids are never given out twice.        *)
Commit(events, then) ==
  /\ last + Len(events) <= MaxEvents
  /\ last' = last + Len(events)
  /\ log' = [id \in Ids \cup (last + 1)..last' |->
               IF id <= last THEN log[id] ELSE events[id - last]]
  /\ past' = [id \in 0..last' |-> IF id <= last THEN past[id] ELSE then[id - last]]

Row(hash, exists) == [hash |-> hash, exists |-> exists]
Gone(p) == [rows[p] EXCEPT !.exists = FALSE]

----------------------------------------------------------------------------
(* The user, with the recorder up: one committed change at a time. *)

Write(p, c) ==
  /\ up
  /\ files[p] # c
  /\ LET event == IF Exists(p) THEN Entry("MODIFIED", p, c, rows[p].hash, None)
                               ELSE Entry("CREATED", p, c, None, None)
         tree == [files EXCEPT ![p] = c]
     IN /\ Commit(<<event>>, <<tree>>)
        /\ files' = tree
  /\ rows' = [rows EXCEPT ![p] = Row(c, TRUE)]
  /\ UNCHANGED <<up, stops, now, slips, runs, pruned, silent>>

Erase(p) ==
  /\ up
  /\ files[p] # None
  /\ LET tree == [files EXCEPT ![p] = None]
     IN /\ Commit(<<Entry("DELETED", p, None, Latest(p), None)>>, <<tree>>)
        /\ files' = tree
  /\ rows' = [rows EXCEPT ![p] = Gone(p)]
  /\ UNCHANGED <<up, stops, now, slips, runs, pruned, silent>>

(* handle_rename: a different file that q held is recorded as deleted      *)
(* first; one with the same content is not.                                *)
Displaced(p, q) == Latest(q) \notin {None, files[p]}
Move(p, q) ==
  /\ up
  /\ p # q
  /\ files[p] # None
  /\ LET event == Entry("RENAMED", q, files[p], Latest(p), p)
         tree == [files EXCEPT ![p] = None, ![q] = files[p]]
     IN /\ IF Displaced(p, q)
             THEN Commit(<<Entry("DELETED", q, None, Latest(q), None), event>>,
                         <<[files EXCEPT ![q] = None], tree>>)
             ELSE Commit(<<event>>, <<tree>>)
        /\ files' = tree
  /\ rows' = [rows EXCEPT ![p] = Gone(p), ![q] = Row(files[p], TRUE)]
  /\ UNCHANGED <<up, stops, now, slips, runs, pruned, silent>>

(* The recorder stops; the files change unseen; it starts with a scan. *)
Stop ==
  /\ up
  /\ stops < MaxStops
  /\ up' = FALSE
  /\ stops' = stops + 1
  /\ UNCHANGED <<files, recorded, now, slips, runs, pruned, silent>>

Unseen(p, c) ==
  /\ ~up
  /\ files[p] # c
  /\ files' = [files EXCEPT ![p] = c]
  /\ UNCHANGED <<up, stops, recorded, now, slips, runs, pruned, silent>>

(* scan_one compares with latest_hash whether the row exists or not. *)
ScanWrites == {p \in Path : files[p] # None /\ (rows[p] = None \/ rows[p].hash # files[p])}
(* An empty tree looks like a lost mount: nothing is recorded as deleted.  *)
ScanMissing == {p \in Path : files[p] = None /\ Exists(p)}
ScanIgnored == IF \A p \in Path : files[p] = None THEN ScanMissing ELSE {}
ScanDeletions == ScanMissing \ ScanIgnored
ScanRevivals == {p \in Path : files[p] # None /\ rows[p] = Row(files[p], FALSE)}
ScanEvent(p) ==
  IF files[p] = None THEN Entry("DELETED", p, None, Latest(p), None)
  ELSE IF rows[p] = None THEN Entry("CREATED", p, files[p], None, None)
  ELSE Entry("MODIFIED", p, files[p], rows[p].hash, None)

Scan ==
  /\ ~up
  /\ \E writes \in SetToSeqs(ScanWrites), deletions \in SetToSeqs(ScanDeletions) :
     LET order == writes \o deletions
         Seen(n) == ScanRevivals \cup {order[i] : i \in 1..n}
     IN Commit([n \in DOMAIN order |-> ScanEvent(order[n])],
               [n \in DOMAIN order |->
                  [p \in Path |-> IF p \in Seen(n) THEN files[p] ELSE Latest(p)]])
  /\ rows' = [p \in Path |-> IF files[p] # None THEN Row(files[p], TRUE)
                             ELSE IF p \in ScanDeletions THEN Gone(p) ELSE rows[p]]
  /\ silent' = silent \cup {<<p, last>> : p \in ScanRevivals \cup ScanIgnored}
  /\ up' = TRUE
  /\ UNCHANGED <<files, stops, now, slips, runs, pruned>>

----------------------------------------------------------------------------
(* The clock, and retention. *)

Tick ==
  /\ now < MaxTime
  /\ now' = now + 1
  /\ UNCHANGED <<files, up, stops, recorded, slips, runs, pruned, silent>>

StepBack ==
  /\ slips < MaxSlips
  /\ now > 1
  /\ now' = now - 1
  /\ slips' = slips + 1
  /\ UNCHANGED <<files, up, stops, recorded, runs, pruned, silent>>

DeleteEventsBefore(t) ==
  /\ t <= now
  /\ Ids \ EventsSince(t) # {}
  /\ log' = [id \in EventsSince(t) |-> log[id]]
  /\ pruned' = Max((Ids \ EventsSince(t)) \cup {pruned})
  /\ UNCHANGED <<files, up, stops, rows, last, now, slips, runs, past, silent>>

----------------------------------------------------------------------------
(* Runs: a window Run has every event between its boundaries, a reported   *)
(* one the events that were claimed for it (module Runs has how).          *)

Idle == [mode |-> "none", start |-> 0, end |-> None, claims |-> {}]
Active(r) == runs[r].mode # "none" /\ runs[r].end = None
Completed(r) == runs[r].end # None

StartRun(r, mode) ==
  /\ runs[r] = Idle
  /\ \A other \in Run : Active(other) => mode = "reported" /\ runs[other].mode = "reported"
  /\ runs' = [runs EXCEPT ![r] = [Idle EXCEPT !.mode = mode, !.start = MaxEventId]]
  /\ UNCHANGED <<files, up, stops, recorded, now, slips, pruned, silent>>

(* A boundary over one path claims the path's events since the Run began. *)
Claim(r, p) ==
  /\ Active(r)
  /\ runs[r].mode = "reported"
  /\ LET claims == {id \in EventsBetween(runs[r].start, MaxEventId) : Touches(id, p)}
     IN /\ ~(claims \subseteq runs[r].claims)
        /\ runs' = [runs EXCEPT ![r].claims = @ \cup claims]
  /\ UNCHANGED <<files, up, stops, recorded, now, slips, pruned, silent>>

EndRun(r) ==
  /\ Active(r)
  /\ runs' = [runs EXCEPT ![r].end = MaxEventId,
                          ![r].claims = IF runs[r].mode = "window"
                                          THEN EventsBetween(runs[r].start, MaxEventId)
                                          ELSE @]
  /\ UNCHANGED <<files, up, stops, recorded, now, slips, pruned, silent>>

----------------------------------------------------------------------------
(* A folder that has just been put under watch is empty here: the scan of  *)
(* a full one commits the same CREATED events as the first writes.         *)
Init ==
  /\ files = [p \in Path |-> None]
  /\ up = TRUE
  /\ stops = 0
  /\ rows = [p \in Path |-> None]
  /\ log = <<>>
  /\ last = 0
  /\ now = 1
  /\ slips = 0
  /\ runs = [r \in Run |-> Idle]
  /\ pruned = 0
  /\ past = [id \in {0} |-> [p \in Path |-> None]]
  /\ silent = {}

Next ==
  \/ \E p \in Path, c \in Value : Write(p, c) \/ Unseen(p, c)
  \/ \E p \in Path : Erase(p) \/ Unseen(p, None)
  \/ \E p, q \in Path : Move(p, q)
  \/ Stop
  \/ Scan
  \/ Tick
  \/ StepBack
  \/ \E t \in 1..MaxTime : DeleteEventsBefore(t)
  \/ \E r \in Run, mode \in {"window", "reported"} : StartRun(r, mode)
  \/ \E r \in Run, p \in Path : Claim(r, p)
  \/ \E r \in Run : EndRun(r)

Spec == Init /\ [][Next]_vars
============================================================================
