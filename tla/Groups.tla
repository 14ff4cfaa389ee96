------------------------------- MODULE Groups -------------------------------
(***************************************************************************)
(* groups.rs, recover.rs and ask.rs: the events of a completed Run are     *)
(* grouped by folder, and a request picks groups, or a task of the Run, to *)
(* take back.  Words are members of Term; which file names a word occurs   *)
(* in is given by two relations, since the matching itself is a string     *)
(* algorithm: Matches (somewhere in the name) and Names (a whole token).   *)
(***************************************************************************)
EXTENDS Restoring

CONSTANTS
  Term,        \* words that can be in a request, after stemming
  Incidental,  \* my, our, it...: words that refer to no file by themselves
  Matches,     \* word -> paths whose name contains it
  Names,       \* word -> paths of which it is a whole token
  Parts,       \* word -> words that are contained in it
  GroupKey     \* path -> the folder it is grouped under

ASSUME GroupsConstants ==
  /\ Incidental \subseteq Term
  /\ \A w \in Term : Names[w] \subseteq Matches[w] /\ Matches[w] \subseteq Path
  /\ DOMAIN GroupKey = Path

----------------------------------------------------------------------------
(* A group is the set of paths of the events under one key; the old name   *)
(* of a rename counts for the group of the new one.                        *)
GroupPaths(ids, key) == PathsOf({id \in ids : GroupKey[log[id].path] = key})
Groups(r) == {GroupPaths(RunEvents(r), GroupKey[log[id].path]) : id \in RunEvents(r)}
AllGroupPaths(groups) == UNION groups

(* undo recover: the whole Run, one group, or selected paths. *)
Recover(r, ps) == IF Recoverable(r, ps) THEN RunRecovery(r, ps) ELSE {}

----------------------------------------------------------------------------
(* undo ask.  A request has words to revert, words after a keep clause and *)
(* perhaps "all"; a task is a completed intent of the Run with its label   *)
(* and its boundaries.                                                     *)

Request == [revert : SUBSET Term, keep : SUBSET Term, all : BOOLEAN]

Scores(group, terms) == \E w \in terms : Matches[w] \cap group # {}
SelectGroups(groups, terms) == {group \in groups : Scores(group, terms)}

RevertAllTargets(request, groups) ==
  {w \in request.revert : w \in Incidental => Names[w] \cap AllGroupPaths(groups) # {}}
KeptByName(request, groups) == {}
Kept(request, groups) == SelectGroups(groups, request.keep)
RevertGroups(request, groups) ==
  LET scoped == SelectGroups(groups, RevertAllTargets(request, groups))
      asked == IF ~request.all THEN SelectGroups(groups, request.revert)
               ELSE IF scoped = {} THEN groups ELSE scoped
  IN asked \ Kept(request, groups)

(* The one completed task that the request's words name best; the words    *)
(* are those of the whole request.  A whole word of the label counts 5, a  *)
(* part of it 2; labels are single words here.                             *)
WordScore(w, task, request) ==
  IF task.label = w THEN 5
  ELSE IF request.all /\ w \in Incidental THEN 0
  ELSE IF w \in Parts[task.label] THEN 2
  ELSE 0
TaskScore(task, request) ==
  MapThenSumSet(LAMBDA w : WordScore(w, task, request), request.revert \cup request.keep)
Matched(request, tasks) ==
  {task \in tasks : /\ TaskScore(task, request) > 0
                    /\ \A other \in tasks \ {task} :
                         TaskScore(other, request) < TaskScore(task, request)}

Ask(r, request, tasks) ==
  IF ~Completed(r) THEN {}
  ELSE IF Matched(request, tasks) # {}
    THEN LET task == CHOOSE task \in Matched(request, tasks) : TRUE
         IN IF IntentConflicts(task.start, task.end) # {} THEN {}
            ELSE Prepared(IntentPlan(task.start, task.end))
  ELSE Recover(r, AllGroupPaths(RevertGroups(request, Groups(r))))

----------------------------------------------------------------------------
(* Nothing that a keep clause names is touched when groups are picked: a   *)
(* path that was renamed away is in the new name's group, and keeps it.    *)
(* Nor is a group touched that no word of the request names, unless the    *)
(* request is for the whole Run (docs/recovery.md:53, ask.rs:188).         *)
AskKeepsGroups ==
  \A r \in {r \in Run : Completed(r)}, request \in Request :
    \A e \in Ask(r, request, {}) :
      /\ \A w \in request.keep : e.path \notin Matches[w]
      /\ \/ \E group \in Groups(r) : e.path \in group /\ Scores(group, request.revert)
         \/ request.all /\ request.revert \cap Term \subseteq
              Incidental \cup {w \in Term : Matches[w] \cap AllGroupPaths(Groups(r)) = {}}

(* The keep clause holds for tasks as well: a request never takes back a   *)
(* task that only its keep clause names.                                   *)
AskKeepsTasks ==
  \A r \in Run : Completed(r) =>
    \A request \in Request, label \in Term : label \in request.keep \ request.revert =>
      LET task == [label |-> label, start |-> runs[r].start, end |-> runs[r].end]
      IN Parts[label] \cap request.revert = {} => task \notin Matched(request, {task})
============================================================================
