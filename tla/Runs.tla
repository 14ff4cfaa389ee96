--------------------------------- MODULE Runs ---------------------------------
(***************************************************************************)
(* Runs: who is said to have made which recorded changes of one project.   *)
(*                                                                         *)
(* A Run has a start and, once ended, an end fence: the greatest event id  *)
(* at that time.  A window Run owns every event between its fences, so it  *)
(* tolerates no other active Run.  Reported Runs overlap; each claims the  *)
(* events on the paths it named, between the fences of a boundary it       *)
(* opened before and closed after the change.  Before a file is put back   *)
(* on behalf of a Run, its ownership of the path is classified.            *)
(*                                                                         *)
(* The transactions are atomic (BEGIN IMMEDIATE), one action each; any     *)
(* process may run any of them at any time, the recorder adds events and   *)
(* prune removes old ones, so fences must mean the same afterwards.        *)
(* Calls that return what exists already, or fail, change nothing here;    *)
(* AgentEvents models the callers and what they are answered.              *)
(***************************************************************************)
EXTENDS Naturals, FiniteSets

CONSTANTS
    Path,       \* paths of files
    RunId,      \* row ids of sessions, handed out in order
    External,   \* external Run ids
    NoExternal, \* the external id of a Run that has none
    Change,     \* external ids of changes (tool calls)
    Name,       \* names of checkpoints and intents
    MaxEvents   \* bound: events recorded

ASSUME RunIdAssumption == RunId \subseteq Nat
ASSUME ExternalAssumption == NoExternal \notin External
ASSUME EventsAssumption == MaxEvents \in Nat

VARIABLES
    events,      \* file_events: the paths (path and old_path) of each id
    lastEvent,   \* the id given out last; ids are never used again
    runs,        \* sessions
    boundaries,  \* run_boundaries with run_boundary_paths
    claims,      \* session_events: the event ids of each Run
    intents,     \* run_intents
    checkpoints  \* checkpoints of Runs: the fence each name stands for

runsVars == <<events, lastEvent, runs, boundaries, claims, intents, checkpoints>>

Max0(S) == CHOOSE n \in S \cup {0} : \A m \in S : m <= n

\* max_event_id: prune may leave no event at all.
MaxEventId == Max0(DOMAIN events)

Absent == [status |-> "absent", mode |-> "window", external |-> NoExternal,
           start |-> 0, end |-> 0]
NoBoundary == [status |-> "none", start |-> 0, end |-> 0, paths |-> {}]

Run == [status : {"absent", "active", "ended"}, mode : {"window", "reported"},
        external : External \cup {NoExternal}, start : Nat, end : Nat]
Boundary == [status : {"none", "open", "closed", "aborted"},
             start : Nat, end : Nat, paths : SUBSET Path]
Intent == [run : RunId, label : Name, active : BOOLEAN, start : Nat, end : Nat]

ActiveRuns == {r \in RunId : runs[r].status = "active"}
Known(x) == {r \in RunId : runs[r].status # "absent" /\ runs[r].external = x}

\* Bug: only window Runs are compared with each other.
ConflictsOfWindows(mode) ==
    {r \in ActiveRuns : mode = "window" /\ runs[r].mode = "window"}

\* A window Run tolerates no other Run, a reported one no window Run.
Conflicts(mode) ==
    {r \in ActiveRuns : mode = "window" \/ runs[r].mode = "window"}

ActiveIntents(r) == {i \in intents : i.run = r /\ i.active}

\* The events after one fence, up to and including the other.
Between(start, end) == {e \in DOMAIN events : start < e /\ e <= end}

-------------------------------------------------------------------------------
(* The recorder and prune.                                                 *)

\* A handler or a scan records a change; a rename has two paths.
InsertEvent(paths) ==
    /\ lastEvent < MaxEvents
    /\ lastEvent' = lastEvent + 1
    /\ events' = [e \in DOMAIN events \cup {lastEvent + 1} |->
                      IF e = lastEvent + 1 THEN paths ELSE events[e]]
    /\ UNCHANGED <<runs, boundaries, claims, intents, checkpoints>>

\* Prune drops events older than its cutoff, their claims with them.  Clocks
\* step, so the ids it drops need not be the smallest.
DropEvents(old) ==
    /\ old # {}
    /\ events' = [e \in DOMAIN events \ old |-> events[e]]
    /\ claims' = [r \in RunId |-> claims[r] \ old]
    /\ UNCHANGED <<lastEvent, runs, boundaries, intents, checkpoints>>

-------------------------------------------------------------------------------
(* Transactions on Runs.                                                   *)

StartRun(r, x, mode) ==
    /\ runs[r].status = "absent"
    /\ \A q \in RunId : q < r => runs[q].status # "absent"
    /\ x # NoExternal => Known(x) = {}
    /\ mode = "reported" => x # NoExternal
    /\ Conflicts(mode) = {}
    /\ runs' = [runs EXCEPT ![r] =
                    [status |-> "active", mode |-> mode, external |-> x,
                     start |-> MaxEventId, end |-> 0]]
    /\ UNCHANGED <<events, lastEvent, boundaries, claims, intents, checkpoints>>

CompletedIntents(S) ==
    {IF i \in S THEN [i EXCEPT !.active = FALSE, !.end = MaxEventId] ELSE i :
        i \in intents}

\* Bug: open boundaries stay open.
CompleteRunOnly(r) ==
    /\ r \in ActiveRuns
    /\ runs' = [runs EXCEPT ![r].status = "ended", ![r].end = MaxEventId]
    /\ intents' = CompletedIntents(ActiveIntents(r))
    /\ claims' = IF runs[r].mode = "reported" THEN claims
                 ELSE [claims EXCEPT
                          ![r] = @ \cup Between(runs[r].start, MaxEventId)]
    /\ UNCHANGED <<events, lastEvent, boundaries, checkpoints>>

\* Ends a Run with whatever it has open: the active intent at the Run's own
\* fence, a reported Run's open boundaries without a claim.
CompleteRun(r) ==
    /\ r \in ActiveRuns
    /\ runs' = [runs EXCEPT ![r].status = "ended", ![r].end = MaxEventId]
    /\ intents' = CompletedIntents(ActiveIntents(r))
    /\ boundaries' =
           [boundaries EXCEPT ![r] =
               [c \in Change |->
                   IF boundaries[r][c].status = "open"
                   THEN [boundaries[r][c] EXCEPT !.status = "aborted"]
                   ELSE boundaries[r][c]]]
    /\ claims' = IF runs[r].mode = "reported" THEN claims
                 ELSE [claims EXCEPT
                          ![r] = @ \cup Between(runs[r].start, MaxEventId)]
    /\ UNCHANGED <<events, lastEvent, checkpoints>>

Reporting(r) == r \in ActiveRuns /\ runs[r].mode = "reported"

OpenBoundary(r, c, paths) ==
    /\ Reporting(r)
    /\ paths # {}
    /\ boundaries[r][c].status = "none"
    /\ boundaries' = [boundaries EXCEPT ![r][c] =
                          [status |-> "open", start |-> MaxEventId, end |-> 0,
                           paths |-> paths]]
    /\ UNCHANGED <<events, lastEvent, runs, claims, intents, checkpoints>>

\* Bug: the paths of the boundary are not looked at.
ClaimableAnyPath(b, end) == Between(b.start, end)

\* The events a boundary claims when it is closed at this end.
Claimable(b, end) ==
    {e \in Between(b.start, end) : events[e] \cap b.paths # {}}

CloseBoundary(r, c, paths) ==
    /\ r \in ActiveRuns
    /\ boundaries[r][c].status = "open"
    /\ boundaries[r][c].paths = paths
    /\ boundaries' = [boundaries EXCEPT ![r][c].status = "closed",
                                        ![r][c].end = MaxEventId]
    /\ claims' = [claims EXCEPT ![r] =
                      @ \cup Claimable(boundaries[r][c], MaxEventId)]
    /\ UNCHANGED <<events, lastEvent, runs, intents, checkpoints>>

\* Whether the Run is active is looked at before the transaction, if at all.
CreateCheckpoint(r, n) ==
    /\ runs[r].status # "absent"
    /\ n \notin DOMAIN checkpoints[r]
    /\ checkpoints' = [checkpoints EXCEPT ![r] =
                           [m \in DOMAIN @ \cup {n} |->
                               IF m = n THEN MaxEventId ELSE @[m]]]
    /\ UNCHANGED <<events, lastEvent, runs, boundaries, claims, intents>>

StartIntent(r, label) ==
    /\ r \in ActiveRuns
    /\ ActiveIntents(r) = {}
    /\ intents' = intents \cup {[run |-> r, label |-> label, active |-> TRUE,
                                 start |-> MaxEventId, end |-> 0]}
    /\ UNCHANGED <<events, lastEvent, runs, boundaries, claims, checkpoints>>

CompleteIntent(r, label) ==
    /\ r \in ActiveRuns
    /\ \E i \in ActiveIntents(r) : i.label = label
    /\ intents' = CompletedIntents(ActiveIntents(r))
    /\ UNCHANGED <<events, lastEvent, runs, boundaries, claims, checkpoints>>

-------------------------------------------------------------------------------
RunsInit ==
    /\ events = [e \in {} |-> {}]
    /\ lastEvent = 0
    /\ runs = [r \in RunId |-> Absent]
    /\ boundaries = [r \in RunId |-> [c \in Change |-> NoBoundary]]
    /\ claims = [r \in RunId |-> {}]
    /\ intents = {}
    /\ checkpoints = [r \in RunId |-> [n \in {} |-> 0]]

RunsNext ==
    \/ \E paths \in (SUBSET Path) \ {{}} : InsertEvent(paths)
    \/ \E old \in SUBSET DOMAIN events : DropEvents(old)
    \/ \E r \in RunId :
          \/ \E x \in External \cup {NoExternal}, mode \in {"window", "reported"} :
                StartRun(r, x, mode)
          \/ CompleteRun(r)
          \/ \E c \in Change, paths \in SUBSET Path :
                OpenBoundary(r, c, paths) \/ CloseBoundary(r, c, paths)
          \/ \E n \in Name :
                CreateCheckpoint(r, n) \/ StartIntent(r, n) \/ CompleteIntent(r, n)

RunsSpec == RunsInit /\ [][RunsNext]_runsVars

-------------------------------------------------------------------------------
(* Properties.                                                             *)

RunsTypeOK ==
    /\ lastEvent \in Nat
    /\ DOMAIN events \subseteq 1 .. lastEvent
    /\ \A e \in DOMAIN events : events[e] \subseteq Path
    /\ runs \in [RunId -> Run]
    /\ boundaries \in [RunId -> [Change -> Boundary]]
    /\ claims \in [RunId -> SUBSET (DOMAIN events)]
    /\ intents \subseteq Intent
    /\ \A r \in RunId : /\ DOMAIN checkpoints[r] \subseteq Name
                        /\ \A n \in DOMAIN checkpoints[r] : checkpoints[r][n] \in Nat

Started(r) == runs[r].status # "absent"

\* get_session_events: the events shown, and recovered from, as the Run's.
Members(r) ==
    IF runs[r].mode = "reported" THEN claims[r]
    ELSE Between(runs[r].start,
                 IF runs[r].status = "active" THEN MaxEventId ELSE runs[r].end)

\* A Run claims nothing it did not announce: an event claimed by a reported
\* Run lies between the fences of one of its closed boundaries and is on one
\* of that boundary's paths; a window Run claims nothing before it has ended
\* and then only what lies between its fences.  (close_run_boundary,
\* complete_run; whatever is recorded, pruned or ended in between.)
ClaimsAnnounced ==
    \A r \in RunId : \A e \in claims[r] :
        IF runs[r].mode = "reported"
        THEN \E c \in Change : LET named == boundaries[r][c] IN
                /\ named.status = "closed"
                /\ named.start < e /\ e <= named.end
                /\ events[e] \cap named.paths # {}
        ELSE /\ runs[r].status = "ended"
             /\ e \in Between(runs[r].start, runs[r].end)

\* What a window Run shows as its own, running or ended, belongs to no other
\* Run: start_run keeps window Runs apart from all others, and the half-open
\* fences keep apart those that follow each other.
WindowsAlone ==
    \A r, q \in RunId :
        r # q /\ Started(r) /\ Started(q) /\ runs[r].mode = "window"
            => Members(r) \cap (Members(q) \cup claims[q]) = {}

Claimants(e) == {r \in RunId : e \in claims[r]}
OnPath(p) == {e \in DOMAIN events : p \in events[e]}

\* Bug: nobody looks for events of the path that are not the Run's.
OwnershipOfClaims(r, p) ==
    LET mine == claims[r] \cap OnPath(p)
    IN CASE mine = {} -> "unattributed"
         [] \E e \in mine : Claimants(e) # {r} -> "collision"
         [] OTHER -> "exclusive"

\* classify_run_path_ownership: the whole file may be put back for a Run only
\* if its ownership is "exclusive".
Ownership(r, p) ==
    LET mine == claims[r] \cap OnPath(p)
        shared == \E e \in mine : Claimants(e) # {r}
    IN CASE mine = {} -> "unattributed"
         [] shared -> "collision"
         [] /\ mine # {} /\ ~shared
            /\ \E e \in OnPath(p) : e > runs[r].start /\ Claimants(e) # {r}
                -> "interleaved"
         [] OTHER -> "exclusive"

\* No two Runs are both told that a file is theirs alone: putting it back for
\* one would take away what the other recorded.
OneExclusiveOwner ==
    \A p \in Path : \A r, q \in RunId :
        Ownership(r, p) = "exclusive" /\ Ownership(q, p) = "exclusive" => r = q

\* Once a Run has ended nothing is attributed to it any more and nothing of
\* it stays open: its fences, boundaries and intents are final, and claims
\* only go with the events they are about.
EndedIsFinal ==
    [][\A r \in RunId : runs[r].status = "ended" =>
           /\ runs'[r] = runs[r]
           /\ boundaries'[r] = boundaries[r]
           /\ \A c \in Change : boundaries[r][c].status # "open"
           /\ claims'[r] = claims[r] \cap DOMAIN events'
           /\ {i \in intents' : i.run = r} = {i \in intents : i.run = r}
           /\ ActiveIntents(r) = {}]_runsVars

===============================================================================
