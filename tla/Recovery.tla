------------------------------- MODULE Recovery -------------------------------
(***************************************************************************)
(* Applying saved recovery plans to the files of one project.              *)
(*                                                                         *)
(* A plan lists, per path, the content to write (or a deletion) and the    *)
(* state the file had when the plan was made.  Any number of processes     *)
(* (`undo apply`, the workers of the web UI) apply plans at the same time, *)
(* while the user goes on editing and a prune removes snapshots nothing    *)
(* pins any more.  No lock is taken: each applier checks the plan's status *)
(* once, every file twice before the first change and each file once more  *)
(* just before its own change, and relies on atomic renames for the rest.  *)
(*                                                                         *)
(* The user replaces files (as editors do when saving); writing into a     *)
(* file through a handle opened before it was displaced is left out, and   *)
(* so is the retention of backups.                                         *)
(***************************************************************************)
EXTENDS Naturals, FiniteSetsExt

CONSTANTS
    Proc,       \* processes that apply plans
    Plan,       \* Recovery ids
    Path,       \* paths, numbered in the order of their names
    Content,    \* file contents
    Other,      \* a directory, symlink or device where a file is expected
    None,       \* nothing is at the path; as a target: delete
    MaxEdits,   \* bound: changes the user makes
    MaxFaults   \* bound: I/O errors and crashes

ASSUME PathAssumption == Path \subseteq Nat
ASSUME ContentAssumption == None \notin Content /\ Other \notin Content \cup {None}
ASSUME BoundAssumption == MaxEdits \in Nat /\ MaxFaults \in Nat

VARIABLES
    disk,       \* what is at each path, and which applier put it there
    snaps,      \* contents whose snapshot can be loaded
    plans,      \* recoveries and recovery_entries
    backups,    \* pairs <<path, content>> under backups/
    leftovers,  \* pairs <<path, thing>> left under temporary names
    pc,         \* where each applier is
    op,         \* its local variables
    edits,      \* user changes so far
    faults,     \* faults so far
    succeeded   \* history: plans whose apply has reported success

vars == <<disk, snaps, plans, backups, leftovers, pc, op, edits, faults, succeeded>>

ContentOrNone == Content \cup {None}
Thing == Content \cup {Other}
File == [content : Thing \cup {None}, by : SUBSET Proc]

Status == {"none", "planned", "applied", "conflicted"}
Recovery == [status : Status, expired : BOOLEAN, ambiguous : BOOLEAN,
             paths : SUBSET Path,
             target : [Path -> ContentOrNone],
             expected : [Path -> ContentOrNone]]

Location == {"idle", "preflight", "verify", "check", "stage", "publish", "displaced",
             "discard"}
Op == [plan      : SUBSET Plan,     \* the plan being applied
       todo      : SUBSET Path,     \* entries still ahead
       had       : BOOLEAN,         \* the file existed when it was staged
       temp      : SUBSET File]     \* what was displaced to the temporary name
NoOp == [plan |-> {}, todo |-> {}, had |-> FALSE, temp |-> {}]

TypeOK ==
    /\ disk \in [Path -> File]
    /\ snaps \subseteq Content
    /\ plans \in [Plan -> Recovery]
    /\ backups \subseteq Path \X Content
    /\ leftovers \subseteq Path \X Thing
    /\ pc \in [Proc -> Location]
    /\ op \in [Proc -> Op]
    /\ \A p \in Proc : pc[p] \in {"displaced", "discard"} <=> op[p].temp # {}
    /\ edits \in 0 .. MaxEdits /\ faults \in 0 .. MaxFaults
    /\ succeeded \subseteq Plan

NoPlan == [status |-> "none", expired |-> FALSE, ambiguous |-> FALSE, paths |-> {},
           target |-> [q \in Path |-> None], expected |-> [q \in Path |-> None]]

Init ==
    /\ disk \in [Path -> [content : ContentOrNone, by : {{}}]]
    /\ snaps = Content
    /\ plans = [id \in Plan |-> NoPlan]
    /\ backups = {} /\ leftovers = {}
    /\ pc = [p \in Proc |-> "idle"]
    /\ op = [p \in Proc |-> NoOp]
    /\ edits = 0 /\ faults = 0
    /\ succeeded = {}

-----------------------------------------------------------------------------
(* The user, time, and pruning                                             *)

Edit(q, x) ==
    /\ edits < MaxEdits
    /\ edits' = edits + 1
    /\ disk' = [disk EXCEPT ![q] = [content |-> x, by |-> {}]]
    /\ UNCHANGED <<snaps, plans, backups, leftovers, pc, op, faults, succeeded>>

Expire(id) ==
    /\ plans[id].status = "planned" /\ ~plans[id].expired
    /\ plans' = [plans EXCEPT ![id].expired = TRUE]
    /\ UNCHANGED <<disk, snaps, backups, leftovers, pc, op, edits, faults, succeeded>>

\* get_live_hashes: planned Recoveries pin their targets until they expire.
PinnedTargets ==
    UNION {{plans[id].target[q] : q \in plans[id].paths} :
             id \in {i \in Plan : plans[i].status = "planned" /\ ~plans[i].expired}}

Prune(c) ==
    /\ c \in snaps \ PinnedTargets
    /\ snaps' = snaps \ {c}
    /\ UNCHANGED <<disk, plans, backups, leftovers, pc, op, edits, faults, succeeded>>

-----------------------------------------------------------------------------
(* Plans: recoveries.rs and the status updates of db.rs                    *)

\* persist_restore_plan: entries that already match are left out, and what is
\* on disk now becomes the expected state.  Something that is not a regular
\* file fails the plan.
CreatePlan(id, paths, target, ambiguous) ==
    /\ plans[id].status = "none"
    /\ \A q \in paths : disk[q].content # Other /\ target[q] \in snaps \cup {None}
    /\ LET entries == {q \in paths : target[q] # disk[q].content} IN
         plans' = [plans EXCEPT ![id] =
                     [NoPlan EXCEPT !.status = "planned", !.ambiguous = ambiguous,
                        !.paths = entries,
                        !.target = [q \in Path |-> IF q \in entries THEN target[q] ELSE None],
                        !.expected = [q \in Path |-> IF q \in entries THEN disk[q].content
                                                     ELSE None]]]
    /\ UNCHANGED <<disk, snaps, backups, leftovers, pc, op, edits, faults, succeeded>>

\* ensure_recovery_is_applicable
Applicable(id) ==
    /\ plans[id].status = "planned"
    /\ ~plans[id].expired
    /\ ~plans[id].ambiguous

\* Bug: the update does not say AND status = 'planned'.
SettleAlways(ids, status) ==
    [id \in Plan |-> IF id \in ids THEN [plans[id] EXCEPT !.status = status] ELSE plans[id]]

\* mark_recovery_applied and mark_recovery_conflicted: a plan that is no
\* longer planned keeps its status.
Settle(ids, status) ==
    [id \in Plan |-> IF id \in ids /\ plans[id].status = "planned"
                     THEN [plans[id] EXCEPT !.status = status]
                     ELSE plans[id]]

PlanOf(p) == plans[CHOOSE id \in Plan : op[p].plan = {id}]
EntryPath(p) == Min(op[p].todo)
Target(p) == PlanOf(p).target[EntryPath(p)]
Displaced(p) == CHOOSE f \in File : op[p].temp = {f}

Goto(p, location) == pc' = [pc EXCEPT ![p] = location]

Leave(p) ==
    /\ Goto(p, "idle")
    /\ op' = [op EXCEPT ![p] = NoOp]

\* What lies under this applier's temporary name stays there.
Abandoned(p) == {<<EntryPath(p), f.content>> : f \in op[p].temp}

\* apply_recovery_in: the status is checked here and never again.  A plan that
\* is applied already changes nothing.
Begin(p, id) ==
    /\ pc[p] = "idle"
    /\ Applicable(id)
    /\ Goto(p, "preflight")
    /\ op' = [op EXCEPT ![p] = [NoOp EXCEPT !.plan = {id}, !.todo = plans[id].paths]]
    /\ UNCHANGED <<disk, snaps, plans, backups, leftovers, edits, faults, succeeded>>

\* apply_recovery_paths_in: some of the entries become a plan of their own,
\* which is applied; the source stays as it is.
BeginSelected(p, source, id, paths) ==
    /\ pc[p] = "idle"
    /\ Applicable(source)
    /\ plans[id].status = "none"
    /\ paths # {} /\ paths \subseteq plans[source].paths /\ paths # plans[source].paths
    /\ LET only(f) == [q \in Path |-> IF q \in paths THEN f[q] ELSE None] IN
         plans' = [plans EXCEPT ![id] =
                     [plans[source] EXCEPT !.paths = paths, !.target = only(@),
                                           !.expected = only(@)]]
    /\ Goto(p, "preflight")
    /\ op' = [op EXCEPT ![p] = [NoOp EXCEPT !.plan = {id}, !.todo = paths]]
    /\ UNCHANGED <<disk, snaps, backups, leftovers, edits, faults, succeeded>>

-----------------------------------------------------------------------------
(* Checking: preflight_entries, ensure_expected_state                      *)

Mismatched(p) == {q \in op[p].todo : disk[q].content # PlanOf(p).expected[q]}
Unloadable(p) == {PlanOf(p).target[q] : q \in op[p].todo} \ (snaps \cup {None})

\* Paths that differ are conflicts.  A target that cannot be loaded is an
\* error, and the plan stays planned.  Each path is read once, so that reading
\* all of them in one step leaves out nothing a later pass would not find.
Preflight(p) ==
    /\ pc[p] = "preflight"
    /\ \/ /\ Mismatched(p) # {}
          /\ Leave(p)
          /\ plans' = Settle(op[p].plan, "conflicted")
       \/ Unloadable(p) # {} /\ Leave(p) /\ UNCHANGED plans
       \/ /\ Mismatched(p) = {} /\ Unloadable(p) = {}
          /\ Goto(p, "verify")
          /\ UNCHANGED <<op, plans>>
    /\ UNCHANGED <<disk, snaps, backups, leftovers, edits, faults, succeeded>>

\* An error of apply_restore_plan_with_fs: the plan becomes conflicted.
Stopped(p) ==
    /\ Leave(p)
    /\ plans' = Settle(op[p].plan, "conflicted")
    /\ leftovers' = leftovers \cup Abandoned(p)

\* The first loop of apply_restore_plan_with_fs.
Verify(p) ==
    /\ pc[p] = "verify"
    /\ IF Mismatched(p) = {}
       THEN Goto(p, "check") /\ UNCHANGED <<op, plans, leftovers>>
       ELSE Stopped(p)
    /\ UNCHANGED <<disk, snaps, backups, edits, faults, succeeded>>

\* The second loop: one entry, checked again and its snapshot loaded.
Check(p) ==
    /\ pc[p] = "check" /\ op[p].todo # {}
    /\ IF /\ EntryPath(p) \notin Mismatched(p)
          /\ Target(p) \in snaps \cup {None}
       THEN Goto(p, "stage") /\ UNCHANGED <<op, plans, leftovers>>
       ELSE Stopped(p)
    /\ UNCHANGED <<disk, snaps, backups, edits, faults, succeeded>>

Finish(p) ==
    /\ pc[p] = "check" /\ op[p].todo = {}
    /\ plans' = Settle(op[p].plan, "applied")
    /\ succeeded' = succeeded \cup op[p].plan
    /\ Leave(p)
    /\ UNCHANGED <<disk, snaps, backups, leftovers, edits, faults>>

-----------------------------------------------------------------------------
(* Changing one file: RestoreFs::write and RestoreFs::delete               *)

\* On to the next entry, in the order of the plan.
NextEntry(p) ==
    /\ Goto(p, "check")
    /\ op' = [op EXCEPT ![p] = [NoOp EXCEPT !.plan = op[p].plan,
                                            !.todo = op[p].todo \ {EntryPath(p)}]]

\* The target is opened, and the new content written to a temporary file.  A
\* file to be deleted that is gone already needs nothing.
Stage(p) ==
    LET there == disk[EntryPath(p)].content IN
    /\ pc[p] = "stage"
    /\ \/ there = Other /\ Stopped(p)
       \/ /\ there = None /\ Target(p) = None
          /\ NextEntry(p)
          /\ UNCHANGED <<plans, leftovers>>
       \/ /\ there # Other /\ (there # None \/ Target(p) # None)
          /\ op' = [op EXCEPT ![p].had = there # None]
          /\ Goto(p, "publish")
          /\ UNCHANGED <<plans, leftovers>>
    /\ UNCHANGED <<disk, snaps, backups, edits, faults, succeeded>>

New(p) == [content |-> Target(p), by |-> {p}]

\* atomic_exchange swaps the temporary file and the target, which must exist;
\* hard_link creates a target that must not; move_to_quarantine renames a
\* target that must exist.
Publish(p) ==
    LET q == EntryPath(p)
        there == disk[q].content
        swaps == op[p].had \/ Target(p) = None
    IN
    /\ pc[p] = "publish"
    /\ \/ swaps # (there # None) /\ Stopped(p) /\ UNCHANGED disk
       \/ /\ swaps /\ there # None
          /\ disk' = [disk EXCEPT ![q] = New(p)]
          /\ op' = [op EXCEPT ![p].temp = {disk[q]}]
          /\ Goto(p, "displaced")
          /\ UNCHANGED <<plans, leftovers>>
       \/ /\ ~swaps /\ there = None
          /\ disk' = [disk EXCEPT ![q] = New(p)]
          /\ NextEntry(p)
          /\ UNCHANGED <<plans, leftovers>>
    /\ UNCHANGED <<snaps, backups, edits, faults, succeeded>>

\* Bug: whatever comes back from undoing the exchange is removed.
RemovableAlways(p, file) == TRUE

\* entry_is_file_with_identity: only the staged file itself is removed.
Removable(p, file) == file.by = {p}

\* What was displaced is not a regular file: the exchange is undone, or a
\* quarantined entry renamed back, unless the path has changed in the meantime
\* or the call fails.  An undo of the exchange may report an error after it
\* was carried out.
PutBack(p) ==
    LET q == EntryPath(p)
        back == disk[q]
    IN
    /\ pc[p] = "displaced"
    /\ Displaced(p).content = Other
    /\ \/ \* atomic_undo_exchange
          /\ Target(p) # None /\ back.content # None
          /\ disk' = [disk EXCEPT ![q] = Displaced(p)]
          /\ \E certain \in BOOLEAN :
               leftovers' = leftovers \cup (IF certain /\ Removable(p, back) THEN {}
                                            ELSE {<<q, back.content>>})
       \/ \* atomic_rename_noreplace
          /\ Target(p) = None /\ back.content = None
          /\ disk' = [disk EXCEPT ![q] = Displaced(p)]
          /\ UNCHANGED leftovers
       \/ \* the call fails
          /\ leftovers' = leftovers \cup Abandoned(p)
          /\ UNCHANGED disk
    /\ Leave(p)
    /\ plans' = Settle(op[p].plan, "conflicted")
    /\ UNCHANGED <<snaps, backups, edits, faults, succeeded>>

\* BackupStore::save
StoreBackup(p) == backups' = backups \cup {<<EntryPath(p), Displaced(p).content>>}

Backup(p) ==
    /\ pc[p] = "displaced"
    /\ Displaced(p).content # Other
    /\ StoreBackup(p)
    /\ Goto(p, "discard")
    /\ UNCHANGED <<disk, snaps, plans, leftovers, op, edits, faults, succeeded>>

\* remove_file of the displaced file, once its backup is complete.
Discard(p) ==
    /\ pc[p] = "discard"
    /\ NextEntry(p)
    /\ UNCHANGED <<disk, snaps, plans, backups, leftovers, edits, faults, succeeded>>

\* An I/O error in any step of a change.
IoError(p) ==
    /\ pc[p] \in {"verify", "check", "stage", "publish", "displaced", "discard"}
    /\ op[p].todo # {}
    /\ faults < MaxFaults
    /\ faults' = faults + 1
    /\ Stopped(p)
    /\ UNCHANGED <<disk, snaps, backups, edits, succeeded>>

\* The process dies: nothing records that the plan was under way.
Crash(p) ==
    /\ pc[p] # "idle"
    /\ faults < MaxFaults
    /\ faults' = faults + 1
    /\ Leave(p)
    /\ leftovers' = leftovers \cup Abandoned(p)
    /\ UNCHANGED <<disk, snaps, plans, backups, edits, succeeded>>

-----------------------------------------------------------------------------

Applier(p) ==
    \/ Preflight(p) \/ Verify(p) \/ Check(p) \/ Finish(p)
    \/ Stage(p) \/ Publish(p) \/ PutBack(p) \/ Backup(p) \/ Discard(p)

Next ==
    \/ \E q \in Path, x \in Thing \cup {None} : Edit(q, x)
    \/ \E id \in Plan : Expire(id)
    \/ \E c \in Content : Prune(c)
    \/ \E id \in Plan, paths \in SUBSET Path, ambiguous \in BOOLEAN :
         \E target \in [Path -> ContentOrNone] : CreatePlan(id, paths, target, ambiguous)
    \/ \E p \in Proc, id \in Plan : Begin(p, id)
    \/ \E p \in Proc, source, id \in Plan, paths \in SUBSET Path :
         BeginSelected(p, source, id, paths)
    \/ \E p \in Proc : Applier(p) \/ IoError(p) \/ Crash(p)

Spec == Init /\ [][Next]_vars

-----------------------------------------------------------------------------
(* Properties                                                              *)

\* Everything kept aside: backups, files left under temporary names, and what
\* an applier has just displaced.
KeptAside ==
    backups \cup leftovers
      \cup UNION {Abandoned(p) : p \in Proc}

V == INSTANCE Vault WITH
       there <- [q \in Path |-> disk[q].content],
       own <- {q \in Path : disk[q].by # {}},
       kept <- KeptAside

\* Appliers lose nothing: whatever one of them takes from a path, its owner's
\* edit of the last instant included, is in a backup or under a temporary name
\* or back in its place, wherever appliers overlap, fail or die (the exchange,
\* quarantine, undo and backup order of RestoreFs::write and delete).
LosesNothing == V!Spec

\* A plan that was applied or found in conflict stays so, whatever other
\* appliers of it are still doing: the WHERE status = 'planned' of
\* mark_recovery_applied and mark_recovery_conflicted.
SettledForGood ==
    [][\A id \in Plan : plans[id].status \in {"applied", "conflicted"} =>
                          plans'[id].status = plans[id].status]_vars

\* docs/recovery.md: "Applying it again after success is a safe no-op", so an
\* apply that reports success leaves its plan applied.
SuccessIsRecorded == \A id \in succeeded : plans[id].status = "applied"

=============================================================================
