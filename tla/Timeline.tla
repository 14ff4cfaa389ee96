------------------------------ MODULE Timeline ------------------------------
(***************************************************************************)
(* webui_data.rs: the timeline of the web UI.  The newest events are       *)
(* divided into items: one for each Run, the events that several Runs      *)
(* claimed, and chronological groups of the rest ("edits").  An item lists *)
(* one net change per file and carries the boundary it is undone to; a     *)
(* group of edits that deleted files raises an alert.                      *)
(***************************************************************************)
EXTENDS Activity

CONSTANTS
  EditGap,        \* seconds between two groups of edits
  AlertDeletes    \* so many deleted files raise the alert

ASSUME TimelineConstants == {EditGap, AlertDeletes} \subseteq Nat

(* build_file_changes: per path, from its first and last event in the      *)
(* order given.                                                            *)
NetChangeByFirst(first, last_) ==
  IF log[first].kind = "CREATED" THEN "created"
  ELSE IF log[last_].kind = "DELETED" THEN "deleted"
  ELSE "modified"
NetChange(first, last_) ==
  IF log[last_].kind = "DELETED" THEN "deleted"
  ELSE IF log[first].kind = "CREATED" THEN "created"
  ELSE IF log[last_].kind = "RENAMED" THEN "renamed"
  ELSE "modified"
FileChange(events, p) ==
  LET mine == {i \in DOMAIN events : log[events[i]].path = p}
      renames == {i \in mine : log[events[i]].old # None}
      first == events[Min(mine)]
      last_ == events[Max(mine)]
  IN [path |-> p,
      change |-> NetChange(first, last_),
      first |-> first,
      last |-> last_,
      old |-> IF renames = {} THEN None ELSE log[events[Max(renames)]].old]
FileChanges(events) ==
  {FileChange(events, p) : p \in {log[events[i]].path : i \in DOMAIN events}}

(* diff_payload: one file between two events. *)
DiffSides(p, first, last_) ==
  LET mine == {id \in EventsBetween(first - 1, last_) : log[id].path = p}
  IN [old |-> IF log[Min(mine)].kind = "CREATED" THEN None ELSE log[Min(mine)].prev,
      new |-> IF log[Max(mine)].kind = "DELETED" THEN None ELSE log[Max(mine)].hash]

----------------------------------------------------------------------------
Item(kind, id, events, boundary) ==
  [kind |-> kind, id |-> id, events |-> events, boundary |-> boundary,
   files |-> FileChanges(events)]

ClaimsOf(id) == Cardinality(Claimants(id))
MineAlone(r, ids) ==
  IF runs[r].mode = "reported" THEN {id \in ids : ClaimsOf(id) = 1} ELSE ids
ById(ids) ==
  [n \in 1..Cardinality(ids) |->
     CHOOSE id \in ids : Cardinality({other \in ids : other < id}) = n - 1]
RunItem(r) ==
  Item("run", r, ById(MineAlone(r, RunEvents(r))), runs[r].start)

Larger(a, b) == IF a > b THEN a ELSE b
BoundaryAt(group, windowStart) == Larger(First(group), windowStart)
Boundary(group, windowStart) == Larger(First(group) - 1, windowStart - 1)
GroupItem(kind, group, windowStart) ==
  Item(kind, First(group), InOrder(group), Boundary(group, windowStart))

Window(since, limit) == Newest(EventsSince(since), limit)
ListedRuns(windowStart) ==
  {r \in Run : /\ runs[r].mode # "none"
               /\ Completed(r) => runs[r].end >= windowStart
               /\ MineAlone(r, RunEvents(r)) # {} \/ Active(r)}
ClaimedIn(shown) == UNION {MineAlone(r, RunEvents(r)) : r \in shown}

CollisionItems(window, windowStart) ==
  {GroupItem("collision", group, windowStart) :
     group \in SplitByGap({id \in window : ClaimsOf(id) >= 2}, EditGap)}
NotClaimed(window, shown) == {id \in window : ClaimsOf(id) = 0}
Unclaimed(window, shown) ==
  {id \in window \ ClaimedIn(shown) : ClaimsOf(id) = 0}
EditItems(window, windowStart) ==
  {GroupItem("edits", group, windowStart) :
     group \in SplitByGap(Unclaimed(window, ListedRuns(windowStart)), EditGap)}
Items(since, limit) ==
  LET window == Window(since, limit)
      windowStart == Lowest(window)
  IN {RunItem(r) : r \in ListedRuns(windowStart)}
       \cup CollisionItems(window, windowStart)
       \cup EditItems(window, windowStart)

DeletedFiles(item) == {f \in item.files : f.change = "deleted"}
StartedAt(item) == log[item.events[1]].time
EndedAt(item) == log[item.events[Len(item.events)]].time
Alerting(items, resolved) ==
  {item \in items : /\ item.kind = "edits"
                    /\ Cardinality(DeletedFiles(item)) >= AlertDeletes
                    /\ StartedAt(item) >= PanicSince
                    /\ resolved # None => EndedAt(item) > resolved}
Alert(items, resolved) ==
  IF Alerting(items, resolved) = {} THEN {}
  ELSE {CHOOSE item \in Alerting(items, resolved) :
          \A other \in Alerting(items, resolved) : StartedAt(other) <= StartedAt(item)}
AlertTarget(item) == StartedAt(item) - 1

(* The files of an item that can be selected, and what selecting them all  *)
(* and pressing undo posts (useUndo.ts): the paths, without old names.     *)
Selectable(item) ==
  {f.path : f \in {g \in item.files :
     /\ item.kind # "collision"
     /\ item.kind = "run" /\ runs[item.id].mode = "reported"
          => Ownership(item.id, g.path) = "exclusive"}}
UndoItem(item) ==
  IF item.kind = "run" THEN IF Recoverable(item.id, Selectable(item))
                              THEN RunRecovery(item.id, Selectable(item)) ELSE {}
  ELSE EventBoundaryRecovery(Selectable(item), item.boundary)

----------------------------------------------------------------------------
(* Every event in the window is in exactly one item, whatever was claimed  *)
(* by whom and however far the window reaches.                             *)
TimelineComplete ==
  \A since \in {0, now}, limit \in 1..MaxEvents :
    LET items == Items(since, limit)
    IN \A id \in Window(since, limit) :
         Cardinality({item \in items : id \in {item.events[i] : i \in DOMAIN item.events}}) = 1

(* The net change of a file in an item, and the diff behind it, are what   *)
(* the item really did to it.  (A file that was renamed away has no line   *)
(* of its own, and a rename is compared with its source.)                  *)
NetChangeIsTrue ==
  \A item \in Items(0, MaxEvents) : Whole => \A f \in item.files :
    LET before == past[f.first - 1][f.path]
        after == past[f.last][f.path]
        renamed == log[f.first].kind = "RENAMED"
        source == IF renamed THEN log[f.first].old ELSE f.path
        revived == log[f.first].kind = "MODIFIED" /\ before = None
    IN f.first <= f.last /\ ~Unrecorded(source, f.first - 1) /\ ~revived =>
         /\ f.change = "deleted" <=> after = None
         /\ f.change = "created" => before = None
         /\ f.change = "modified" /\ ~renamed => before # None
         /\ DiffSides(f.path, f.first, f.last) =
              [old |-> past[f.first - 1][source], new |-> after]

(* Undoing a group of edits brings its files back to just before the       *)
(* group's first event, also when the window cuts older edits off.         *)
EditsUndone ==
  \A limit \in 1..MaxEvents : \A item \in Items(0, limit) :
    item.kind = "edits" /\ slips = 0 =>
      \A f \in item.files :
        \/ Applied(UndoItem(item))[f.path] = past[item.events[1] - 1][f.path]
        \/ Unclear(f.path, item.events[1] - 1)

(* "Restoring the project to this exact Unix timestamp lands just before   *)
(* the destructive group began" (webui_data.rs:147), for every file that   *)
(* no event outside the group is about in the second it began.             *)
AlertLandsBefore ==
  \A item \in Alert(Items(0, MaxEvents), None), p \in Path :
    LET first == item.events[1]
    IN /\ up /\ slips = 0
       /\ \A id \in Ids : id < first /\ Touches(id, p) => log[id].time < log[first].time
       => \/ Applied(TimestampRecovery(Path, AlertTarget(item)))[p] = past[first - 1][p]
          \/ Unclear(p, first - 1) \/ Unrecorded(p, last)

(* Whoever is alarmed by sudden deletions gets the state before them,      *)
(* from the command line (`undo panic`) as from the alert of the web UI.   *)
DamageUndone == PanicBefore /\ AlertLandsBefore

(* Undoing all of a group of edits leaves each path it touched as it was   *)
(* before: "Restore boundary: state as of this change id is 'before this   *)
(* item'" (webui_data.rs:127).                                             *)
ItemUndone ==
  \A item \in Items(0, MaxEvents) : item.kind = "edits" /\ slips = 0 =>
    \A p \in PathsOf({item.events[i] : i \in DOMAIN item.events}) :
      \/ Applied(UndoItem(item))[p] = past[item.boundary][p]
      \/ Unclear(p, item.boundary)
============================================================================
