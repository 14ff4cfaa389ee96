---------------------------- MODULE SnapshotStore ----------------------------
(***************************************************************************)
(* The content-addressed snapshot store of one project and everything that *)
(* refers to it: file_events rows, file_state rows and saved Recoveries.   *)
(*                                                                         *)
(* Any number of processes (the recorder, `undo` commands, web workers)    *)
(* capture files, scan the tree, plan recoveries and prune, all at once.   *)
(* The only coordination is an advisory lock on snapshot-store.lock:       *)
(* publishers hold it shared from before a snapshot is written until the   *)
(* row that refers to it is committed, pruning holds it exclusively.  Many *)
(* database writes are made WITHOUT the lock, from state read earlier.     *)
(*                                                                         *)
(* What the filesystem answers (which content a file has, which files the  *)
(* walk meets) is any value: the user may write anything at any time.      *)
(***************************************************************************)
EXTENDS FiniteSets

CONSTANTS
    Proc,       \* processes that have the data directory open
    Path,       \* paths of the project
    Hash,       \* content hashes
    None        \* no hash: a NULL column

ASSUME NoneAssumption == None \notin Hash

VARIABLES
    snaps,      \* hashes h for which snapshots/<project>/h.gz exists
    refs,       \* hashes held by file_events rows, with column and age
    rows,       \* file_state: path -> latest_hash, exists_now
    recs,       \* target hashes of planned, unexpired Recoveries
    lock,       \* what each process holds of snapshot-store.lock
    pc,         \* where each process is in its current operation
    op,         \* the operation's local variables
    readopted   \* history: hashes a scan took from a row marked deleted

vars == <<snaps, refs, rows, recs, lock, pc, op, readopted>>

HashOrNone == Hash \cup {None}
Row == [hash : HashOrNone, live : BOOLEAN]
NoRow == [hash |-> None, live |-> FALSE]

\* A file_events row matters here through its current_hash ("cur") and its
\* previous_hash ("prev"), and through being past the retention cutoff.
Ref == [hash : Hash, role : {"cur", "prev"}, aged : BOOLEAN]

\* guarded: the plan was made and saved under the publication lock.
Rec == [target : Hash, guarded : BOOLEAN]

Kind == {"none", "capture", "rename", "delete", "scan", "plan", "intent", "prune"}
Op == [kind  : Kind,
       src   : SUBSET Path,         \* rename: the old path
       dst   : SUBSET Path,         \* the path written
       hash  : HashOrNone,          \* the content read, or a plan's target
       seen  : [Path -> Row],       \* file_state as read, for src and dst
       todo  : SUBSET Path,         \* scan: files still to be read
       walk  : SUBSET Path,         \* scan: files the walk met
       found : [Path -> HashOrNone],\* scan: contents read
       live  : SUBSET Hash]         \* prune: the result of get_live_hashes

NoOp == [kind |-> "none", src |-> {}, dst |-> {}, hash |-> None,
         seen |-> [q \in Path |-> NoRow], todo |-> {}, walk |-> {},
         found |-> [q \in Path |-> None], live |-> {}]

Location == {"idle", "refresh", "commitDelete", "wantShared", "publish", "commit",
             "scan", "planIntent", "savePlan", "wantExclusive", "dropEvents",
             "mark", "sweep"}

TypeOK ==
    /\ snaps \in SUBSET Hash
    /\ refs \in SUBSET Ref
    /\ rows \in [Path -> Row]
    /\ recs \in SUBSET Rec
    /\ lock \in [Proc -> {"none", "shared", "exclusive"}]
    /\ pc \in [Proc -> Location]
    /\ op \in [Proc -> Op]
    /\ readopted \in SUBSET Hash

Init ==
    /\ snaps = {}
    /\ refs = {}
    /\ rows = [q \in Path |-> NoRow]
    /\ recs = {}
    /\ lock = [p \in Proc |-> "none"]
    /\ pc = [p \in Proc |-> "idle"]
    /\ op = [p \in Proc |-> NoOp]
    /\ readopted = {}

-----------------------------------------------------------------------------
(* References to snapshots                                                 *)

\* The hashes a set of column values names, leaving out NULL.
NonNull(values) == values \ {None}

Fresh(hashes, role) == {[hash |-> h, role |-> role, aged |-> FALSE] : h \in hashes}

\* insert_event, for events with these current_hash and previous_hash values.
InsertEvents(current, previous) ==
    refs' = refs \cup Fresh(current, "cur") \cup Fresh(previous, "prev")

RefHashes == {r.hash : r \in refs}
FreshHashes == {r.hash : r \in {x \in refs : ~x.aged}}
LiveRowHashes == {rows[q].hash : q \in {x \in Path : rows[x].live}}

\* Bug: get_live_hashes without its recoveries arm.
LiveHashesNoRecovery == RefHashes \cup NonNull(LiveRowHashes)

\* get_live_hashes: what a prune must keep.
LiveHashes ==
    RefHashes
      \cup NonNull(LiveRowHashes)
      \cup {r.target : r \in recs}

\* state.exists_now then state.latest_hash, as the handlers read it.
SeenLive(o, paths) ==
    NonNull({o.seen[q].hash : q \in {x \in paths : o.seen[x].live}})

-----------------------------------------------------------------------------
(* The lock, and leaving an operation                                      *)

Finish(p) ==
    /\ pc' = [pc EXCEPT ![p] = "idle"]
    /\ lock' = [lock EXCEPT ![p] = "none"]
    /\ op' = [op EXCEPT ![p] = NoOp]

Goto(p, location) == pc' = [pc EXCEPT ![p] = location]

Begin(p, location, locals) ==
    /\ pc[p] = "idle"
    /\ Goto(p, location)
    /\ op' = [op EXCEPT ![p] = locals]
    /\ UNCHANGED <<snaps, refs, rows, recs, lock, readopted>>

\* The rows of the given paths, as one operation reads them.
ReadRows(paths) == [q \in Path |-> IF q \in paths THEN rows[q] ELSE NoRow]

\* upsert_file_state with each of the contents, and mark_deleted, which keeps
\* latest_hash.
UpdateRows(contents, deleted) ==
    rows' = [q \in Path |->
               IF q \in DOMAIN contents
               THEN [hash |-> contents[q], live |-> TRUE]
               ELSE [rows[q] EXCEPT !.live = @ /\ q \notin deleted]]

\* flock(LOCK_SH) is granted unless a process holds the file exclusively.
SharedAvailable == \A other \in Proc : lock[other] # "exclusive"

\* Bug: pruning takes LOCK_SH too.
ExclusiveLikeShared == SharedAvailable

\* flock(LOCK_EX) is granted when no process holds the file at all.
ExclusiveAvailable == \A other \in Proc : lock[other] = "none"

\* acquire_publish_guard
AcquireShared(p) ==
    /\ pc[p] = "wantShared"
    /\ SharedAvailable
    /\ lock' = [lock EXCEPT ![p] = "shared"]
    /\ Goto(p, CASE op[p].kind = "scan" -> "scan"
                 [] op[p].kind = "intent" -> "planIntent"
                 [] OTHER -> "publish")
    /\ UNCHANGED <<snaps, refs, rows, recs, op, readopted>>

\* acquire_gc_guard
AcquireExclusive(p) ==
    /\ pc[p] = "wantExclusive"
    /\ ExclusiveAvailable
    /\ lock' = [lock EXCEPT ![p] = "exclusive"]
    /\ Goto(p, "dropEvents")
    /\ UNCHANGED <<snaps, refs, rows, recs, op, readopted>>

\* An error return, a panic caught by guard_event, or the process dying: the
\* transaction under way is rolled back and the kernel drops the lock.
Stop(p) ==
    /\ pc[p] # "idle"
    /\ Finish(p)
    /\ UNCHANGED <<snaps, refs, rows, recs, readopted>>

-----------------------------------------------------------------------------
(* Live capture: handle_create, handle_modify, handle_rename, handle_delete *)

\* handle_create and handle_modify up to the comparison with the recorded
\* state.  Content that is already recorded only refreshes the row.
StartCapture(p, q, h) ==
    Begin(p,
          IF rows[q].live /\ rows[q].hash = h THEN "refresh" ELSE "wantShared",
          [NoOp EXCEPT !.kind = "capture", !.dst = {q}, !.hash = h, !.seen = ReadRows({q})])

\* handle_rename.  A pair whose RENAMED event is already the destination's
\* latest event only refreshes the row.
StartRename(p, old, new, h) ==
    \E location \in {"refresh", "wantShared"} :
        /\ location = "refresh" =>
             /\ ~rows[old].live
             /\ rows[new] = [hash |-> h, live |-> TRUE]
             /\ \E r \in refs : r.hash = h /\ r.role = "cur"
        /\ Begin(p, location,
                 [NoOp EXCEPT !.kind = "rename", !.src = {old}, !.dst = {new},
                              !.hash = h, !.seen = ReadRows({old, new})])

\* upsert_file_state for content that did not change: no lock, no event.
Refresh(p) ==
    /\ pc[p] = "refresh"
    /\ UpdateRows([q \in op[p].dst |-> op[p].hash], {})
    /\ Finish(p)
    /\ UNCHANGED <<snaps, refs, recs, readopted>>

\* save_durable: the rename to <hash>.gz, skipped when the file exists.
Publish(p) ==
    /\ pc[p] = "publish"
    /\ snaps' = snaps \cup {op[p].hash}
    /\ Goto(p, "commit")
    /\ UNCHANGED <<refs, rows, recs, lock, op, readopted>>

\* The transaction of handle_create, handle_modify and handle_rename: the
\* event (for a rename also the DELETED event of an overwritten destination),
\* the row of the path written and, for a rename, the old path marked deleted.
\* previous_hash comes from the row as it was read, not as it is now.
Commit(p) ==
    /\ pc[p] = "commit"
    /\ InsertEvents({op[p].hash},
                    SeenLive(op[p], op[p].src)
                      \cup (SeenLive(op[p], op[p].dst \ op[p].src) \ {op[p].hash}))
    /\ UpdateRows([q \in op[p].dst |-> op[p].hash], op[p].src)
    /\ Finish(p)
    /\ UNCHANGED <<snaps, recs, readopted>>

\* handle_delete: returns unless the file is recorded as existing.
StartDelete(p, q) ==
    /\ rows[q].live
    /\ Begin(p, "commitDelete",
             [NoOp EXCEPT !.kind = "delete", !.dst = {q}, !.seen = ReadRows({q})])

\* The DELETED event and mark_deleted, without the lock.
CommitDelete(p) ==
    /\ pc[p] = "commitDelete"
    /\ InsertEvents({}, SeenLive(op[p], op[p].dst))
    /\ UpdateRows(<<>>, op[p].dst)
    /\ Finish(p)
    /\ UNCHANGED <<snaps, recs, readopted>>

-----------------------------------------------------------------------------
(* Scanning the tree: initial_scan_with_limit, scan_pipeline, scan_one     *)

\* All rows are read first, then the tree is walked, then the lock is taken.
StartScan(p, walk) ==
    Begin(p, "wantShared",
          [NoOp EXCEPT !.kind = "scan", !.dst = Path, !.seen = rows,
                       !.todo = walk, !.walk = walk])

\* scan_one: a file that is gone, unreadable or too large contributes nothing.
SkipFile(p, q) ==
    /\ pc[p] = "scan"
    /\ q \in op[p].todo
    /\ op' = [op EXCEPT ![p].todo = @ \ {q}]
    /\ UNCHANGED <<snaps, refs, rows, recs, lock, pc, readopted>>

\* scan_one: a content equal to latest_hash is not saved, WHETHER OR NOT the
\* row says the file exists; any other content is saved (save_in).
ScanFile(p, q, h) ==
    /\ pc[p] = "scan"
    /\ q \in op[p].todo
    /\ op' = [op EXCEPT ![p].todo = @ \ {q}, ![p].found[q] = h]
    /\ snaps' = IF op[p].seen[q].hash = h THEN snaps ELSE snaps \cup {h}
    /\ UNCHANGED <<refs, rows, recs, lock, pc, readopted>>

Read(o) == {q \in Path : o.found[q] # None}
Changed(o) == {q \in Read(o) : o.found[q] # o.seen[q].hash}
Missing(o) == {q \in Path : o.seen[q].live /\ q \notin o.walk}

\* The scan's transaction.  trusted is trust_deletions; deletions are also
\* left out when the walk met no file at all (a mount anomaly).
CommitScan(p, trusted) ==
    LET o == op[p]
        gone == IF trusted /\ o.walk # {} THEN Missing(o) ELSE {}
    IN
    /\ pc[p] = "scan"
    /\ o.todo = {}
    /\ InsertEvents({o.found[q] : q \in Changed(o)},
                    NonNull({o.seen[q].hash : q \in Changed(o) \cup gone}))
    /\ UpdateRows([q \in Read(o) |-> o.found[q]], gone)
    /\ readopted' = readopted
                      \cup NonNull({o.seen[q].hash : q \in {x \in Read(o) : ~o.seen[x].live}})
    /\ Finish(p)
    /\ UNCHANGED <<snaps, recs>>

-----------------------------------------------------------------------------
(* Recovery plans                                                          *)

\* create_run_recovery_in, the timestamp and boundary variants, and the plan
\* derived from a selection of another plan's entries: the target comes from
\* an event's current_hash or previous_hash (or from the other plan) and the
\* plan is saved later.  No lock is held.
StartPlan(p) ==
    \E h \in RefHashes \cup {r.target : r \in recs} :
        Begin(p, "savePlan", [NoOp EXCEPT !.kind = "plan", !.hash = h])

\* create_intent_recovery takes the publication lock first.
StartIntentPlan(p) == Begin(p, "wantShared", [NoOp EXCEPT !.kind = "intent"])

\* plan_inverse_intent_path: the file is as the intent left it, so the target
\* is the recorded state before the intent.
PlanDirect(p, h) ==
    /\ pc[p] = "planIntent"
    /\ h \in RefHashes
    /\ op' = [op EXCEPT ![p].hash = h]
    /\ Goto(p, "savePlan")
    /\ UNCHANGED <<snaps, refs, rows, recs, lock, readopted>>

\* plan_inverse_intent_path: later edits are kept, so the target is a content
\* merged from two saved versions and the current file; it is published.
PlanMerge(p, h) ==
    /\ pc[p] = "planIntent"
    /\ RefHashes \cap snaps # {}
    /\ snaps' = snaps \cup {h}
    /\ op' = [op EXCEPT ![p].hash = h]
    /\ Goto(p, "savePlan")
    /\ UNCHANGED <<refs, rows, recs, lock, readopted>>

\* create_recovery, then the guard of an intent plan is dropped.
SavePlan(p) ==
    /\ pc[p] = "savePlan"
    /\ recs' = recs \cup {[target |-> op[p].hash, guarded |-> lock[p] = "shared"]}
    /\ Finish(p)
    /\ UNCHANGED <<snaps, refs, rows, readopted>>

\* A Recovery is applied, becomes conflicted or passes its expiration.
EndRecovery(r) ==
    /\ r \in recs
    /\ recs' = recs \ {r}
    /\ UNCHANGED <<snaps, refs, rows, lock, pc, op, readopted>>

-----------------------------------------------------------------------------
(* Pruning: retention::prune                                               *)

StartPrune(p) == Begin(p, "wantExclusive", [NoOp EXCEPT !.kind = "prune"])

\* delete_events_before
DropEvents(p) ==
    /\ pc[p] = "dropEvents"
    /\ refs' = {r \in refs : ~r.aged}
    /\ Goto(p, "mark")
    /\ UNCHANGED <<snaps, rows, recs, lock, op, readopted>>

Mark(p) ==
    /\ pc[p] = "mark"
    /\ op' = [op EXCEPT ![p].live = LiveHashes]
    /\ Goto(p, "sweep")
    /\ UNCHANGED <<snaps, refs, rows, recs, lock, readopted>>

\* remove_file of one snapshot that was not live when Mark looked.
Sweep(p, h) ==
    /\ pc[p] = "sweep"
    /\ h \in snaps \ op[p].live
    /\ snaps' = snaps \ {h}
    /\ UNCHANGED <<refs, rows, recs, lock, pc, op, readopted>>

\* The store is still over max_size_mb: the live hashes are read again.
Backstop(p) ==
    /\ pc[p] = "sweep"
    /\ snaps \subseteq op[p].live
    /\ Goto(p, "mark")
    /\ UNCHANGED <<snaps, refs, rows, recs, lock, op, readopted>>

EndPrune(p) ==
    /\ pc[p] = "sweep"
    /\ snaps \subseteq op[p].live
    /\ Finish(p)
    /\ UNCHANGED <<snaps, refs, rows, recs, readopted>>

\* Time passes: every recorded event falls behind the retention cutoff.
\* Assumed: the retention window (7 days unless configured) is longer than any
\* operation, so nothing in flight spans it.
RetentionPasses ==
    /\ \A p \in Proc : pc[p] = "idle"
    /\ refs' = {[r EXCEPT !.aged = TRUE] : r \in refs}
    /\ UNCHANGED <<snaps, rows, recs, lock, pc, op, readopted>>

-----------------------------------------------------------------------------

Live(p) ==
    \/ \E q \in Path, h \in Hash : StartCapture(p, q, h)
    \/ \E old, new \in Path, h \in Hash : StartRename(p, old, new, h)
    \/ \E q \in Path : StartDelete(p, q)
    \/ Refresh(p)
    \/ Publish(p)
    \/ Commit(p)
    \/ CommitDelete(p)

Scan(p) ==
    \/ \E walk \in SUBSET Path : StartScan(p, walk)
    \/ \E q \in Path : SkipFile(p, q)
    \/ \E q \in Path, h \in Hash : ScanFile(p, q, h)
    \/ \E trusted \in BOOLEAN : CommitScan(p, trusted)

Plan(p) ==
    \/ StartPlan(p)
    \/ StartIntentPlan(p)
    \/ \E h \in Hash : PlanDirect(p, h)
    \/ \E h \in Hash : PlanMerge(p, h)
    \/ SavePlan(p)

Prune(p) ==
    \/ StartPrune(p)
    \/ AcquireExclusive(p)
    \/ DropEvents(p)
    \/ Mark(p)
    \/ \E h \in Hash : Sweep(p, h)
    \/ Backstop(p)
    \/ EndPrune(p)

Next ==
    \/ \E p \in Proc : Live(p) \/ Scan(p) \/ Plan(p) \/ Prune(p)
                         \/ AcquireShared(p) \/ Stop(p)
    \/ \E r \in recs : EndRecovery(r)
    \/ RetentionPasses

Spec == Init /\ [][Next]_vars

-----------------------------------------------------------------------------
(* Properties                                                              *)

\* What must not be lost: every hash an event names, the recorded content of
\* every file recorded as existing, and the targets of guarded plans.
Pinned ==
    RefHashes
      \cup NonNull(LiveRowHashes)
      \cup {r.target : r \in {x \in recs : x.guarded}}

\* A snapshot that a retained event, an existing file or a plan made under the
\* lock refers to is in the store, whatever captures, scans, plans and prunes
\* overlap and wherever they stop (acquire_publish_guard, get_live_hashes,
\* prune).  The one exception the code has is a hash a scan took over from a
\* row already marked deleted, whose snapshot may have been pruned before.
ReferencedSnapshotsKept == Pinned \subseteq snaps \cup readopted

\* The content an event records as current can always be restored while the
\* event is retained, with no exception (save_durable and save_in before the
\* event's transaction, both under the guard).
CapturedContentKept == \A r \in refs : r.role = "cur" => r.hash \in snaps

\* A snapshot published but not yet referred to survives every prune until its
\* event or plan commits: the doc comment of PublishGuard.
PublishedUntilCommitted ==
    \A p \in Proc : /\ pc[p] = "commit" => op[p].hash \in snaps
                    /\ pc[p] = "scan" => {op[p].found[q] : q \in Changed(op[p])} \subseteq snaps

\* docs/storage.md: "A planned Recovery's target snapshots are retained until
\* its 24-hour expiration."  Plans saved without the lock break it.
PlannedTargetsKept == \A r \in recs : r.target \in snaps \cup readopted

\* db.rs, get_live_hashes: the file_state arm "keeps a file's snapshot pinned
\* after its creating event predates the retention window".  A scan that takes
\* over a row marked deleted breaks it.
ExistingFilesPinned == LiveRowHashes \subseteq snaps

=============================================================================
