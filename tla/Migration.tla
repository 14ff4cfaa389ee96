------------------------------ MODULE Migration ------------------------------
(***************************************************************************)
(* Opening the database (Database::open, apply_schema) brings whatever it  *)
(* finds there to schema version 5.  Every command opens it for itself, so *)
(* several processes do this at the same time and beside others that have  *)
(* finished and work; each statement is a transaction of its own, and only *)
(* the rebuild of checkpoints and the repair of window Runs are longer     *)
(* ones.  A process may be killed, or fail on a busy database, between any *)
(* two of them; nothing but a further open continues its work.             *)
(*                                                                         *)
(* Of the tables, the three whose rows the upgrade touches are modelled;   *)
(* of the columns, the three that it reads itself after adding them.       *)
(***************************************************************************)
EXTENDS Naturals, Sequences, FiniteSets, FiniteSetsExt

CONSTANTS
    Opener,       \* processes
    SchemaRun,    \* rows of sessions
    Name,         \* names of checkpoints
    NoValue,      \* NULL
    MaxFileEvents,\* bound: ids of file_events
    MaxRows,      \* bound: ids of checkpoints
    MaxFailures   \* bound: opens that fail or are killed

ASSUME SchemaConstants ==
    /\ {MaxFileEvents, MaxRows} \subseteq Nat \ {0} /\ MaxFailures \in Nat
    /\ NoValue \notin SchemaRun \cup {"active", "completed"}

VARIABLES
    version,      \* PRAGMA user_version
    tables,       \* which tables there are
    columns,      \* which of Columns the tables have
    layout,       \* what is unique in the table of checkpoints: a name in its
                  \* project, or in its Run (idx_checkpoints_*)
    indexes,      \* the unique indexes of the new layout are there
    checkpoints,  \* rows: id, Run or NoValue, name
    copied,       \* rows of checkpoints_v3, NoValue when it is not there
    sessions,     \* rows of sessions with their session_events
    fileEvents,   \* ids of the events that are left
    lastFileEvent,\* the greatest id given out
    opener,       \* each process: what it does next, and the version it read
    failures      \* opens that failed

database == <<version, tables, columns, layout, indexes, checkpoints, copied>>
tableRows == <<sessions, fileEvents, lastFileEvent>>
schemaVars == <<database, tableRows, opener, failures>>

Current == 5
Tables == <<"checkpoints", "sessions", "session_events">>
Columns == <<"end_event_id", "status", "event_id">>
AllTables == {Tables[i] : i \in DOMAIN Tables}
AllColumns == {Columns[i] : i \in DOMAIN Columns}
\* The columns a table of this version is created with.
ColumnsOf(t) == CASE t = "sessions" -> {"end_event_id", "status"}
                  [] t = "checkpoints" -> {"event_id"}
                  [] OTHER -> {}

\* end: NoValue until end_event_id is known; claimed: its session_events.
Session == [state: {"none", "active", "ended"}, status: {"active", "completed", NoValue},
            start: 0..MaxFileEvents, end: 0..MaxFileEvents \cup {NoValue}, claimed: SUBSET (1..MaxFileEvents)]
NoSession == [state |-> "none", status |-> NoValue, start |-> 0, end |-> NoValue,
              claimed |-> {}]
Row == [id: 1..MaxRows, run: SchemaRun \cup {NoValue}, name: Name]

SchemaTypeOK ==
    /\ version \in {0, 4, Current, Current + 1}
    /\ tables \subseteq AllTables
    /\ columns \subseteq AllColumns
    /\ layout \in {"none", "project", "run"}
    /\ indexes \in BOOLEAN
    /\ checkpoints \subseteq Row
    /\ copied \in (SUBSET Row) \cup {NoValue}
    /\ sessions \in [SchemaRun -> Session]
    /\ fileEvents \subseteq 1..lastFileEvent
    /\ lastFileEvent \in 0..MaxFileEvents
    /\ failures \in 0..MaxFailures

\* The events a window Run owns: those between its fences that are left.
Owned(s) == {e \in fileEvents : s.start < e /\ s.end # NoValue /\ e <= s.end}

\* Nothing yet; a newer Undo's; or what an earlier version left: some of the
\* columns, the layout of its time, and Runs with a part of their events.
SchemaInit ==
    /\ opener = [p \in Opener |-> [at |-> "closed", column |-> 1, read |-> 0]]
    /\ failures = 0
    /\ copied = NoValue
    /\ \/ /\ version \in {0, Current + 1}
          /\ tables = IF version = 0 THEN {} ELSE AllTables
          /\ columns = IF version = 0 THEN {} ELSE AllColumns
          /\ layout = IF version = 0 THEN "none" ELSE "run"
          /\ indexes = (version # 0)
          /\ checkpoints = {}
          /\ sessions = [r \in SchemaRun |-> NoSession]
          /\ lastFileEvent = 0
          /\ fileEvents = {}
       \/ /\ version = 4
          /\ tables \in {{"checkpoints", "sessions"}, AllTables}
          /\ columns \in SUBSET AllColumns
          /\ layout \in {"project", "run"}
          /\ indexes = FALSE
          /\ lastFileEvent = MaxFileEvents - 1
          /\ fileEvents = 1..lastFileEvent
          /\ \E n \in Name : checkpoints = {[id |-> 1, run |-> NoValue, name |-> n]}
          /\ \E r \in SchemaRun, old \in Session :
                /\ old.state # "none"
                /\ "status" \notin columns => old.status = NoValue
                /\ "status" \in columns => old.status # NoValue
                /\ old.state = "active" => old.status # "completed"
                /\ old.start = 0
                /\ old.end = IF old.state = "ended" /\ "end_event_id" \in columns
                             THEN lastFileEvent ELSE NoValue
                /\ old.claimed \subseteq IF "session_events" \in tables
                                         THEN Owned(old) ELSE {}
                /\ sessions = [q \in SchemaRun |-> IF q = r THEN old ELSE NoSession]

Proceeds(p, at) == opener' = [opener EXCEPT ![p].at = at]
IsOpen(p) == opener[p].at = "open"

----------------------------------------------------------------------------
(* apply_schema, statement by statement. *)

\* PRAGMA user_version, outside of every transaction; a newer schema is refused.
Open(p) ==
    /\ opener[p].at = "closed"
    /\ version <= Current
    /\ opener' = [opener EXCEPT ![p] = [at |-> "tables", column |-> 1, read |-> version]]
    /\ UNCHANGED <<database, tableRows, failures>>

\* CREATE TABLE IF NOT EXISTS, one after the other.
CreateTables(p) ==
    /\ opener[p].at = "tables"
    /\ LET missing == {i \in DOMAIN Tables : Tables[i] \notin tables}
       IN IF missing = {}
          THEN /\ Proceeds(p, "columns")
               /\ UNCHANGED <<tables, columns, layout>>
          ELSE LET t == Tables[Min(missing)]
               IN /\ tables' = tables \cup {t}
                  /\ columns' = columns \cup ColumnsOf(t)
                  /\ layout' = IF t = "checkpoints" THEN "run" ELSE layout
                  /\ UNCHANGED opener
    /\ UNCHANGED <<version, indexes, checkpoints, copied, tableRows, failures>>

\* add_column_if_missing looks first (PRAGMA table_info) ...
LookForColumn(p) ==
    /\ opener[p].at = "columns"
    /\ LET c == opener[p].column
       IN opener' = [opener EXCEPT ![p] =
              IF c > Len(Columns) THEN [@ EXCEPT !.at = "layout"]
              ELSE IF Columns[c] \in columns THEN [@ EXCEPT !.column = c + 1]
              ELSE [@ EXCEPT !.at = "alter"]]
    /\ UNCHANGED <<database, tableRows, failures>>

\* ... and alters the table then.  Existing rows get the default.
AddColumn(p) ==
    /\ opener[p].at = "alter"
    /\ LET c == Columns[opener[p].column]
       IN /\ c \notin columns
          /\ columns' = columns \cup {c}
          /\ sessions' = [r \in SchemaRun |->
                 IF c = "status" /\ sessions[r].state # "none"
                 THEN [sessions[r] EXCEPT !.status = "active"] ELSE sessions[r]]
    /\ opener' = [opener EXCEPT ![p].at = "columns", ![p].column = @ + 1]
    /\ UNCHANGED <<version, tables, layout, indexes, checkpoints, copied,
                   fileEvents, lastFileEvent, failures>>

\* Another process has added it since: ALTER TABLE fails, and the open with it.
AddColumnTwice(p) ==
    /\ opener[p].at = "alter"
    /\ Columns[opener[p].column] \in columns
    /\ Proceeds(p, "closed")
    /\ UNCHANGED <<database, tableRows, failures>>

\* migrate_checkpoints_v3 reads the table's definition ...
LookAtLayout(p) ==
    /\ opener[p].at = "layout"
    /\ Proceeds(p, IF layout = "project" THEN "rebuild" ELSE "indexes")
    /\ UNCHANGED <<database, tableRows, failures>>

\* Bug: the copy and its renaming without BEGIN IMMEDIATE around them.
RebuildInTwoSteps(p) ==
    /\ opener[p].at = "rebuild"
    /\ "event_id" \in columns
    /\ \/ /\ copied = NoValue
          /\ copied' = checkpoints
          /\ UNCHANGED <<layout, indexes, checkpoints, opener>>
       \/ /\ copied # NoValue
          /\ checkpoints' = copied
          /\ copied' = NoValue
          /\ layout' = "run"
          /\ indexes' = FALSE
          /\ Proceeds(p, "indexes")
    /\ UNCHANGED <<version, tables, columns, tableRows, failures>>

\* ... and then rebuilds it, whatever became of it, in one transaction: the new
\* table gets every row there is, and takes the place of the old one, whose
\* indexes are gone with it.
Rebuild(p) ==
    /\ opener[p].at = "rebuild"
    /\ "event_id" \in columns
    /\ copied = NoValue
    /\ layout' = "run"
    /\ indexes' = FALSE
    /\ Proceeds(p, "indexes")
    /\ UNCHANGED <<version, tables, columns, checkpoints, copied, tableRows, failures>>

\* CREATE UNIQUE INDEX fails where two rows are equal.
SameName(a, b) == a.id # b.id /\ a.run = b.run /\ a.name = b.name
NamesAreUnique == \A a, b \in checkpoints : ~SameName(a, b)

CreateIndexes(p) ==
    /\ opener[p].at = "indexes"
    /\ NamesAreUnique
    /\ indexes' = TRUE
    /\ Proceeds(p, "status")
    /\ UNCHANGED <<version, tables, columns, layout, checkpoints, copied, tableRows, failures>>

\* UPDATE sessions SET status ...: ended Runs that got the default.
RepairStatus(p) ==
    /\ opener[p].at = "status"
    /\ sessions' = [r \in SchemaRun |->
           IF sessions[r].state = "ended" /\ sessions[r].status = "active"
           THEN [sessions[r] EXCEPT !.status = "completed"] ELSE sessions[r]]
    /\ Proceeds(p, IF opener[p].read < Current THEN "windows" ELSE "open")
    /\ UNCHANGED <<database, fileEvents, lastFileEvent, failures>>

ClaimOwned ==
    sessions' = [r \in SchemaRun |->
        IF sessions[r].state = "ended"
        THEN [sessions[r] EXCEPT !.claimed = @ \cup Owned(sessions[r])] ELSE sessions[r]]

\* Bug: the version is written before the repair, not with it.
RepairWindowsLater(p) ==
    /\ opener[p].at = "windows"
    /\ \/ /\ version # Current
          /\ version' = Current
          /\ UNCHANGED <<sessions, opener>>
       \/ /\ version = Current
          /\ ClaimOwned
          /\ Proceeds(p, "open")
          /\ UNCHANGED version
    /\ UNCHANGED <<tables, columns, layout, indexes, checkpoints, copied,
                   fileEvents, lastFileEvent, failures>>

\* migrate_window_run_events_v5: the missing claims and the version together.
RepairWindows(p) ==
    /\ opener[p].at = "windows"
    /\ ClaimOwned
    /\ version' = Current
    /\ Proceeds(p, "open")
    /\ UNCHANGED <<tables, columns, layout, indexes, checkpoints, copied,
                   fileEvents, lastFileEvent, failures>>

\* The process is killed, or a statement fails (SQLITE_BUSY, a full disk): its
\* transaction is rolled back and the command ends.
Fails(p) ==
    /\ opener[p].at # "closed"
    /\ failures < MaxFailures
    /\ failures' = failures + 1
    /\ Proceeds(p, "closed")
    /\ UNCHANGED <<database, tableRows>>

\* A process that has opened the database ends.
Close(p) ==
    /\ IsOpen(p)
    /\ Proceeds(p, "closed")
    /\ UNCHANGED <<database, tableRows, failures>>

----------------------------------------------------------------------------
(* What is done meanwhile by those who have opened it. *)

\* create_checkpoint_at gives back the row there is.
AddsCheckpoint(run, name) ==
    ~\E row \in checkpoints : row.run = run /\ row.name = name

CreateCheckpoint(p, run, name) ==
    /\ IsOpen(p)
    /\ AddsCheckpoint(run, name)
    /\ LET id == 1 + Max({0} \cup {row.id : row \in checkpoints})
       IN /\ id <= MaxRows
          /\ checkpoints' = checkpoints \cup {[id |-> id, run |-> run, name |-> name]}
    /\ UNCHANGED <<version, tables, columns, layout, indexes, copied, tableRows, opener, failures>>

RecordEvent(p) ==
    /\ IsOpen(p)
    /\ lastFileEvent < MaxFileEvents
    /\ lastFileEvent' = lastFileEvent + 1
    /\ fileEvents' = fileEvents \cup {lastFileEvent + 1}
    /\ UNCHANGED <<database, sessions, opener, failures>>

\* Retention; the session_events go with the event.
DropEvent(p) ==
    /\ IsOpen(p)
    /\ fileEvents # {}
    /\ LET e == Min(fileEvents)
       IN /\ fileEvents' = fileEvents \ {e}
          /\ sessions' = [r \in SchemaRun |-> [sessions[r] EXCEPT !.claimed = @ \ {e}]]
    /\ UNCHANGED <<database, lastFileEvent, opener, failures>>

MaxLeft == Max({0} \cup fileEvents)

\* start_run_with_mode, window Runs.
StartSession(p, r) ==
    /\ IsOpen(p)
    /\ sessions[r].state = "none"
    /\ \A q \in SchemaRun : sessions[q].status # "active"
    /\ sessions' = [sessions EXCEPT ![r] = [NoSession EXCEPT !.state = "active",
                                              !.status = "active", !.start = MaxLeft]]
    /\ UNCHANGED <<database, fileEvents, lastFileEvent, opener, failures>>

\* complete_run claims what lies between the fences.
EndSession(p, r) ==
    /\ IsOpen(p)
    /\ sessions[r].state = "active"
    /\ LET ended == [sessions[r] EXCEPT !.state = "ended", !.status = "completed",
                                        !.end = MaxLeft]
       IN sessions' = [sessions EXCEPT ![r] = [ended EXCEPT !.claimed = @ \cup Owned(ended)]]
    /\ UNCHANGED <<database, fileEvents, lastFileEvent, opener, failures>>

SchemaNext ==
    \E p \in Opener :
        \/ Open(p) \/ CreateTables(p) \/ LookForColumn(p) \/ AddColumn(p)
        \/ AddColumnTwice(p) \/ LookAtLayout(p) \/ Rebuild(p) \/ CreateIndexes(p)
        \/ RepairStatus(p) \/ RepairWindows(p) \/ Fails(p) \/ Close(p)
        \/ RecordEvent(p) \/ DropEvent(p)
        \/ \E run \in SchemaRun \cup {NoValue}, name \in Name : CreateCheckpoint(p, run, name)
        \/ \E r \in SchemaRun : StartSession(p, r) \/ EndSession(p, r)

SchemaSpec == SchemaInit /\ [][SchemaNext]_schemaVars

----------------------------------------------------------------------------
(* Whoever has opened the database can work with it, whatever the others  *)
(* that open it at the same time still do to it or have left half done:   *)
(* the tables and columns are there, and no ended Run is taken for the    *)
(* active one.  At version 5 the window Runs that have ended own exactly  *)
(* the events left between their fences (apply_schema,                    *)
(* migrate_window_run_events_v5).  While the table of checkpoints was     *)
(* rebuilt its unique indexes were gone, and others worked on: the names  *)
(* must still be unique, or no later open would get past CREATE UNIQUE    *)
(* INDEX (create_checkpoint_at).                                          *)
UpgradeIsComplete ==
    /\ NamesAreUnique
    /\ (\E p \in Opener : IsOpen(p)) =>
          /\ tables = AllTables /\ columns = AllColumns /\ layout = "run"
          /\ \A r \in SchemaRun : sessions[r].status = "active" => sessions[r].state = "active"
    /\ version = Current =>
          \A r \in SchemaRun : sessions[r].state = "ended" /\ sessions[r].end # NoValue
                                  => sessions[r].claimed = Owned(sessions[r])

(* No upgrade loses a checkpoint, not one made by a process that had      *)
(* finished opening while another was still rebuilding the table          *)
(* (migrate_checkpoints_v3).                                              *)
HistoryIsKept == [][checkpoints \subseteq checkpoints']_schemaVars
==============================================================================
