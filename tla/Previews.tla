------------------------------ MODULE Previews ------------------------------
(***************************************************************************)
(* What Undo tells before it changes anything: the saved version that      *)
(* `undo diff` compares a file with (diff.rs), what a dry run says a plan  *)
(* would do (restore.rs), and the web UI's preview of a time               *)
(* (webui_data.rs).  Which lines differ and how they are shown is left     *)
(* out: what matters is which two contents are compared, and the verdict.  *)
(***************************************************************************)
EXTENDS Restoring

(* A target is given as so many seconds ago, or as a time. *)
RestoreTime(ago) == now - ago

(* The saved version a comparison selects; hash is None if there is none.  *)
Selection(hash, deleted) == [hash |-> hash, deleted |-> deleted]
SavedHash(id) == IF log[id].kind = "DELETED" THEN log[id].prev ELSE log[id].hash
LatestEvent(p) == Latter({id \in Ids : log[id].path = p})
DiffSelectionFromEvent(p) ==
  IF LatestEvent(p) = 0 THEN Selection(None, FALSE)
  ELSE Selection(SavedHash(LatestEvent(p)), log[LatestEvent(p)].kind = "DELETED")

(* RestoreKind: the source is a deletion's content if it is the first or   *)
(* the last of the fallbacks, not the oldest version.                      *)
DeletedFallback(p, t) ==
  /\ StateAtTime(p, t) \notin Value
  /\ LET fallbacks == Fallbacks(p, t)
     IN \/ fallbacks[1] # None
        \/ fallbacks[2] = None /\ fallbacks[3] # None
DiffSelectionAtTime(p, t) == Selection(RestoreSource(p, t), DeletedFallback(p, t))

Diff(p, selection) ==
  IF selection.hash = None THEN "no saved version"
  ELSE IF files[p] = None
    THEN IF selection.deleted THEN "deleted, use restore-deleted" ELSE "missing"
  ELSE IF selection.hash = files[p] THEN "matches" ELSE "differs"

(* A dry run, and the preview of one file: what becomes of it, from the    *)
(* current content to the planned one.                                     *)
Change(p, plan) ==
  IF \A e \in plan : e.path # p THEN "unchanged"
  ELSE IF Applied(plan)[p] = None THEN "deleted"
  ELSE IF files[p] = None THEN "created"
  ELSE "modified"
Told(p, plan) == [change |-> Change(p, plan), old |-> files[p], new |-> Applied(plan)[p]]
FilePreview(p, t) == Told(p, Prepared(SingleFile(p, t, FALSE)))
RestorePreview(p, t) == Told(p, TimestampRecovery(Path, t))

----------------------------------------------------------------------------
(* What a user is told is what happened and what will happen.  The preview *)
(* of a time names exactly the files that differ from what they were then, *)
(* with the right verdict and content; a comparison with a time compares   *)
(* an existing file with what it was then; one with the latest version     *)
(* never shows a difference to a file that is recorded, and sends the user *)
(* to restore-deleted only if that brings back the version it stands for.  *)
Verdict(then, current) ==
  IF then = current THEN "unchanged"
  ELSE IF then = None THEN "deleted"
  ELSE IF current = None THEN "created"
  ELSE "modified"
PreviewIsTrue ==
  up => \A p \in Path :
    /\ \A ago \in 0..now :
         LET t == RestoreTime(ago)
             then == past[At(t)][p]
         IN Reached(t) /\ ~Unclear(p, At(t)) /\ ~Unrecorded(p, last) =>
              /\ RestorePreview(p, t) =
                   [change |-> Verdict(then, files[p]), old |-> files[p], new |-> then]
              /\ then # None /\ Touching(p) # {} =>
                   /\ DiffSelectionAtTime(p, t) = Selection(then, FALSE)
                   /\ files[p] # None =>
                        (Diff(p, DiffSelectionAtTime(p, t)) = "matches" <=> then = files[p])
    /\ slips = 0 /\ ~Unrecorded(p, last) =>
         LET selection == DiffSelectionFromEvent(p)
             answer == Diff(p, selection)
         IN /\ answer # "differs"
            /\ answer = "deleted, use restore-deleted" =>
                 RestoreDeleted(p) = {Target(p, selection.hash)}
============================================================================
