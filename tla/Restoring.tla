----------------------------- MODULE Restoring -----------------------------
(***************************************************************************)
(* How restore.rs and recoveries.rs work out, from the recorded history,   *)
(* what a file was at a time or at an event, and the plans they make of    *)
(* it: for a path and a time, for the boundary of an event, for a Run, for *)
(* a task (intent) inside a Run.  How a saved plan is applied against      *)
(* other writers is module Recovery; here a plan is what it would do if    *)
(* nobody interfered.                                                      *)
(*                                                                         *)
(* A boundary state is a content, None (the path was absent) or Unknown.   *)
(* A plan is a set of entries; an entry's target is a content to write, or *)
(* None to delete the file "because it was created after the target time". *)
(* A content is a sequence of lines; what matters of a patch is which      *)
(* lines it changes.                                                       *)
(***************************************************************************)
EXTENDS History

CONSTANTS
  Unknown,  \* nothing is recorded
  Folder    \* the scopes a command can be given besides single files

ASSUME RestoringConstants ==
  /\ Unknown \notin Path \cup Value \cup {None}
  /\ Folder \subseteq SUBSET Path

----------------------------------------------------------------------------
(* The event that decides a path's state, 0 if there is none. *)

First(ids) == IF ids = {} THEN 0 ELSE CHOOSE i \in ids : \A j \in ids \ {i} : Before(i, j)
Latter(ids) == IF ids = {} THEN 0 ELSE CHOOSE i \in ids : \A j \in ids \ {i} : Before(j, i)
Lowest(ids) == IF ids = {} THEN 0 ELSE Min(ids)
Highest(ids) == IF ids = {} THEN 0 ELSE Max(ids)

Touching(p) == {id \in Ids : Touches(id, p)}
Deletions(p) == {id \in Ids : log[id].path = p /\ log[id].kind = "DELETED"}
Versions(p) == {id \in Ids : log[id].path = p /\ log[id].kind # "DELETED"}

EventBeforeTime(p, t) == Latter({id \in Touching(p) : log[id].time < t})
PathStateEventAtTime(p, t) == Latter({id \in Touching(p) : log[id].time <= t})
FirstPathEventAfter(p, t) == First({id \in Touching(p) : log[id].time > t})
PathStateEventAtId(p, b) == Highest({id \in Touching(p) : id <= b})
FirstPathEventAfterId(p, b) == Lowest({id \in Touching(p) : id > b})

(* The previous hash of the first later event, if that event shows that    *)
(* the path existed.                                                       *)
ShowsChange(id, p) == log[id].path = p /\ log[id].kind = "MODIFIED"
ShowsPresence(id, p) == \/ log[id].old = p
                        \/ log[id].path = p /\ log[id].kind \in {"MODIFIED", "DELETED"}
SourceBefore(id, p) == IF ShowsPresence(id, p) THEN log[id].prev ELSE None
StateFrom(id, p) ==
  IF log[id].path # p \/ log[id].kind = "DELETED" THEN None
  ELSE IF log[id].hash = None THEN Unknown ELSE log[id].hash

Resolve(p, at, after) == IF at # 0 THEN StateFrom(at, p)
                         ELSE IF after # 0 THEN SourceBefore(after, p)
                         ELSE Unknown
StateAtTime(p, t) == Resolve(p, PathStateEventAtTime(p, t), FirstPathEventAfter(p, t))
StateAtId(p, b) == Resolve(p, PathStateEventAtId(p, b), FirstPathEventAfterId(p, b))

ExactSource(p, t) == IF StateAtTime(p, t) = Unknown THEN None ELSE StateAtTime(p, t)

(* A single file has fallbacks: the content its deletion at this boundary  *)
(* took away, its oldest version, its latest deletion.                     *)
FallbacksOldest(p, t) ==
  IF Versions(p) = {} THEN <<None>> ELSE <<log[First(Versions(p))].hash>>
Fallbacks(p, t) ==
  LET at == PathStateEventAtTime(p, t)
      deleted == IF at # 0 /\ log[at].path = p /\ log[at].kind = "DELETED"
                   THEN log[at].prev ELSE None
      oldest == IF Versions(p) = {} THEN None ELSE log[First(Versions(p))].hash
      latest == IF Deletions(p) = {} THEN None ELSE log[Latter(Deletions(p))].prev
  IN <<deleted, oldest, latest>>
FirstKnown(hashes) ==
  LET known == {i \in DOMAIN hashes : hashes[i] # None}
  IN IF known = {} THEN None ELSE hashes[Min(known)]
RestoreSource(p, t) ==
  IF StateAtTime(p, t) \in Value THEN StateAtTime(p, t) ELSE FirstKnown(Fallbacks(p, t))

----------------------------------------------------------------------------
(* Plans. *)

Target(p, target) == [path |-> p, target |-> target]
PathsOf(ids) == {p \in Path : \E id \in ids : Touches(id, p)}
\* Writes of the states that are present, deletions of those that are absent.
Planned(state) ==
  {Target(p, state[p]) : p \in {q \in DOMAIN state :
                                  \/ state[q] \in Value
                                  \/ state[q] = None /\ files[q] # None}}

SingleFile(p, t, fallbacks) ==
  LET source == IF fallbacks THEN RestoreSource(p, t) ELSE ExactSource(p, t)
  IN IF source = None THEN {} ELSE {Target(p, source)}
Directory(scope, t) ==
  Planned([p \in PathsOf(EventsSince(t)) \cap scope |-> ExactSource(p, t)])

(* A path that is gone may have been a folder. *)
RestoreFile(p, t, fallbacks) ==
  IF files[p] = None /\ Directory({p}, t) # {} THEN Directory({p}, t)
  ELSE SingleFile(p, t, fallbacks)
PathsAtEventId(ps, b) == Planned([p \in ps |-> StateAtId(p, b)])
RestoreAtEventId(scope, b) ==
  PathsAtEventId(PathsOf(EventsBetween(b, MaxEventId)) \cap scope, b)
RestoreDeleted(p) ==
  IF Deletions(p) = {} \/ log[Latter(Deletions(p))].prev = None THEN {}
  ELSE {Target(p, log[Latter(Deletions(p))].prev)}

(* What is saved leaves out files that match already. *)
Prepared(plan) == {e \in plan : e.target # files[e.path]}
Applied(plan) ==
  [p \in Path |-> IF \E e \in plan : e.path = p
                    THEN (CHOOSE e \in plan : e.path = p).target ELSE files[p]]

(* Recoveries: a folder at a time, some of the project's files at a time   *)
(* (web UI), files at the boundary of an event.                            *)
TimestampRecovery(scope, t) == Prepared(Directory(scope, t))
SelectedTimestampRecovery(ps, t) == {e \in TimestampRecovery(Path, t) : e.path \in ps}
EventBoundaryRecovery(ps, b) == Prepared(PathsAtEventId(ps, b))

----------------------------------------------------------------------------
(* Recoveries of a Run. *)

RunEvents(r) ==
  IF runs[r].mode = "reported" THEN runs[r].claims \cap Ids
  ELSE EventsBetween(runs[r].start, IF Active(r) THEN MaxEventId ELSE runs[r].end)
Claimants(id) == {r \in Run : id \in runs[r].claims}
OwnershipOfClaims(r, p) ==
  LET mine == runs[r].claims \cap Touching(p)
  IN IF mine = {} THEN "unattributed"
     ELSE IF \E id \in mine : Claimants(id) # {r} THEN "collision" ELSE "exclusive"
Ownership(r, p) ==
  LET mine == runs[r].claims \cap Touching(p)
  IN IF mine = {} THEN "unattributed"
     ELSE IF \E id \in mine : Claimants(id) # {r} THEN "collision"
     ELSE IF \E id \in Touching(p) : id > runs[r].start /\ Claimants(id) # {r}
            THEN "interleaved"
     ELSE "exclusive"
Recoverable(r, ps) ==
  /\ Completed(r)
  /\ ps \subseteq PathsOf(RunEvents(r))
  /\ runs[r].mode = "reported" => \A p \in ps : Ownership(r, p) = "exclusive"
RunRecovery(r, ps) == EventBoundaryRecovery(ps, runs[r].start)

----------------------------------------------------------------------------
(* Undoing one task of a Run between the events a and b: restore if the    *)
(* file is as the task left it, otherwise take its patch back.             *)

StoredStateAtId(p, b) ==
  LET at == PathStateEventAtId(p, b)
      after == FirstPathEventAfterId(p, b)
  IN IF at = 0 /\ after # 0 /\ ShowsPresence(after, p) /\ log[after].prev = None
       THEN Unknown ELSE Resolve(p, at, after)

(* diffy: the inverse patch applies if the lines it changes are still as   *)
(* the task left them; the other lines stay.                               *)
PatchApplies(current, before, after) ==
  \A l \in DOMAIN current : before[l] # after[l] => current[l] = after[l]
Replaced(current, before, after) == before
Patched(current, before, after) ==
  [l \in DOMAIN current |-> IF before[l] # after[l] THEN before[l] ELSE current[l]]

(* What the file becomes; Unknown if the task cannot be separated from     *)
(* what came later.                                                        *)
IntentTarget(p, a, b) ==
  LET before == StoredStateAtId(p, a)
      after == StoredStateAtId(p, b)
      current == files[p]
  IN IF before = after THEN current
     ELSE IF current = after THEN before
     ELSE IF current = before THEN current
     ELSE IF /\ {before, after, current} \subseteq Value
             /\ PatchApplies(current, before, after)
       THEN Patched(current, before, after)
     ELSE Unknown
IntentPaths(a, b) == PathsOf(EventsBetween(a, b))
IntentConflicts(a, b) == {p \in IntentPaths(a, b) : IntentTarget(p, a, b) = Unknown}
IntentPlan(a, b) ==
  {Target(p, IntentTarget(p, a, b)) : p \in IntentPaths(a, b) \ IntentConflicts(a, b)}

----------------------------------------------------------------------------
(* Properties: the readers against what the files were. *)

(* Once the clock has stepped back, retention may drop a later event than  *)
(* one it keeps. *)
Whole == \A id \in Ids : id > pruned

(* What the events cannot show.  A change that a scan did not record is    *)
(* not in them; and where everything before b was pruned, the first event  *)
(* left may mislead: a scan's MODIFIED of a file that had been gone, or a  *)
(* rename onto a file with the same content.                               *)
Unrecorded(p, b) ==
  LET at == PathStateEventAtId(p, b)
      after == FirstPathEventAfterId(p, b)
  IN \E s \in silent : /\ s[1] = p
                       /\ at <= s[2]
                       /\ IF at # 0 THEN s[2] <= b ELSE after = 0 \/ s[2] < after
Misleading(id, p) ==
  /\ log[id].path = p
  /\ \/ log[id].kind = "MODIFIED" /\ past[id - 1][p] = None
     \/ log[id].kind = "RENAMED" /\ past[id - 1][p] # None
Unclear(p, b) ==
  \/ Unrecorded(p, b)
  \/ /\ PathStateEventAtId(p, b) = 0
     /\ FirstPathEventAfterId(p, b) # 0
     /\ Misleading(FirstPathEventAfterId(p, b), p)

(* At every boundary that retention has left, a path's state is what the   *)
(* file was after that event, whatever the clock did; it is unknown only   *)
(* if no event of the path is left (restore.rs:786, "the exact state").    *)
StatesAreTrue ==
  Whole => \A p \in Path, b \in pruned..last :
    \/ Unclear(p, b)
    \/ StateAtId(p, b) = past[b][p]
    \/ StateAtId(p, b) = Unknown /\ Touching(p) = {}

(* The last event by time t, for times the remaining events reach.         *)
Reached(t) == Ids # {} /\ slips = 0 /\ \E id \in Ids : t + 1 >= log[id].time
At(t) == LET by == {id \in Ids : log[id].time <= t} IN IF by = {} THEN pruned ELSE Max(by)

(* Restoring a folder, or selected files, to a time brings every file in   *)
(* it to what it was then, however the events fall into seconds, and       *)
(* leaves the rest alone; restoring it to a checkpoint does so too, even   *)
(* if the clock has stepped back.                                          *)
TimeTravelIsExact ==
  LET Exact(plan, scope, b) ==
        \A p \in Path :
          IF p \in scope THEN \/ Applied(plan)[p] = past[b][p]
                             \/ Unclear(p, b) \/ Unrecorded(p, last)
                        ELSE Applied(plan)[p] = files[p]
  IN up => \A scope \in Folder :
       /\ \A t \in 0..now : Reached(t) =>
            /\ Exact(TimestampRecovery(scope, t), scope, At(t))
            /\ Exact(SelectedTimestampRecovery(scope, t), scope, At(t))
       /\ Whole => \A b \in pruned..last : Exact(RestoreAtEventId(scope, b), scope, b)

(* A file that was absent at the target comes back with the content the    *)
(* deletion before the target took away, not that of a later one; any      *)
(* other fallback is at least a content the file once had.  A deletion     *)
(* that is undone by itself takes back what it, and no other, took away.   *)
FallbackFromBefore ==
  \A p \in Path :
    /\ \A t \in 0..now : Reached(t) =>
         \A e \in RestoreFile(p, t, TRUE) :
           LET b == At(t)
               at == PathStateEventAtId(p, b)
           IN \/ Unclear(p, b)
              \/ e.target = past[b][p]
              \/ /\ past[b][p] = None
                 /\ IF at \in Deletions(p)
                      THEN e.target = past[at - 1][p] \/ Unrecorded(p, at - 1)
                      ELSE \E i \in 0..last : e.target = past[i][p]
    /\ \A e \in RestoreDeleted(p) : slips = 0 =>
         \/ e.target = past[Max(Deletions(p)) - 1][p]
         \/ Unrecorded(p, Max(Deletions(p)) - 1)

(* Undoing a task puts the lines it changed back and keeps what every      *)
(* other line is now; a file it cannot do this for is reported, and only   *)
(* if the file is neither as before nor as after the task.                 *)
IntentUndone ==
  Whole => \A a, b \in pruned..last : a < b =>
    \A p \in IntentPaths(a, b) :
      LET before == past[a][p]
          after == past[b][p]
          undone == Applied(Prepared(IntentPlan(a, b)))[p]
      IN \/ Unclear(p, a) \/ Unclear(p, b)
         \/ p \in IntentConflicts(a, b) /\ files[p] \notin {before, after}
         \/ /\ p \notin IntentConflicts(a, b)
            /\ IF {before, after, files[p]} \subseteq Value
                 THEN \A l \in DOMAIN undone :
                        undone[l] = IF before[l] # after[l] THEN before[l] ELSE files[p][l]
                 ELSE IF before = after THEN undone = files[p] ELSE undone = before

(* Undoing a Run gives each of its files the content it had when the Run   *)
(* started and touches no other; for a reported Run, it takes back no      *)
(* change that was not claimed for that Run alone.                         *)
RunUndone ==
  \A r \in Run : Whole /\ Completed(r) /\ runs[r].start >= pruned =>
    \A p \in Path : Recoverable(r, {p}) =>
      LET start == runs[r].start
          undone == Applied(RunRecovery(r, {p}))
      IN /\ Unclear(p, start) \/ undone[p] = past[start][p]
         /\ \A q \in Path \ {p} : undone[q] = files[q]
         /\ runs[r].mode = "reported" =>
              \A id \in Touching(p) : id > start => Claimants(id) = {r}

(* A plan deletes a file only if it did not exist at the target: the       *)
(* preview says it "was created after the target time" (restore.rs:504).   *)
DeletesOnlyNewer ==
  Whole => \A b \in pruned..last : \A e \in PathsAtEventId(Path, b) :
    e.target = None => past[b][e.path] = None
============================================================================
