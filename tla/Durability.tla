------------------------------ MODULE Durability ------------------------------
(***************************************************************************)
(* The snapshot files and the database when the power fails.               *)
(*                                                                         *)
(* What the processes see is the kernel's memory.  A file's bytes are on   *)
(* the disk after sync_all, its name after fsync of the directory; before  *)
(* that the disk may have them or not.  SQLite (WAL, synchronous=NORMAL)   *)
(* syncs when it checkpoints: a power failure takes back the commits since *)
(* then, from some commit on.  A kill takes nothing back.                  *)
(*                                                                         *)
(* One recorded file is modelled, with the recorder that scans and watches *)
(* it and a command that saves the content a Recovery is to write.  The    *)
(* file itself is taken to survive.  Publishers hold the store's lock      *)
(* shared and prune holds it exclusively (module SnapshotStore).           *)
(***************************************************************************)
EXTENDS Naturals, Sequences, FiniteSets

CONSTANTS
    Hash,        \* contents, named by their hash
    NoHash,
    MaxLosses,   \* bound: power failures
    MaxKills,    \* bound: publishers killed
    MaxCommits   \* bound: commits that are not yet synced

ASSUME DurabilityConstants ==
    /\ NoHash \notin Hash
    /\ {MaxLosses, MaxKills, MaxCommits} \subseteq Nat

VARIABLES
    source,      \* the recorded file
    shown,       \* what is at snapshot_path: "none", "whole" or "torn"
    synced,      \* contents whose file at that path has its bytes on the disk
    could,       \* what a power failure may leave there
    db,          \* the commits not yet synced after the last that is: file_state
                 \* (row) and the hashes of file_events and Recoveries (refs)
    save,        \* each publisher's write_snapshot_in
    losses, kills,
    settled      \* history: contents whose file a durable save has written and
                 \* returned, and no scan has replaced and no prune removed since

diskVars == <<source, shown, synced, could, db, save, losses, kills, settled>>

Publisher == {"recorder", "command"}
NoSave == [at |-> "idle", hash |-> NoHash, durable |-> TRUE]
Now == db[Len(db)]
Known == Now.refs \cup ({Now.row} \ {NoHash})

DiskInit ==
    /\ source \in Hash
    /\ shown = [h \in Hash |-> "none"]
    /\ synced = {}
    /\ could = [h \in Hash |-> {"none"}]
    /\ db = <<[row |-> NoHash, refs |-> {}]>>
    /\ save = [w \in Publisher |-> NoSave]
    /\ losses = 0 /\ kills = 0
    /\ settled = {}

Edit(h) ==
    /\ h # source
    /\ source' = h
    /\ UNCHANGED <<shown, synced, could, db, save, losses, kills, settled>>

----------------------------------------------------------------------------
(* write_snapshot_in and the commit that follows it. *)

At(w, step) == save[w].at = step
GoesTo(w, step) == save' = [save EXCEPT ![w].at = step]

\* A file that is there is not written again, whoever wrote it.
Begin(w, h, durable) ==
    /\ At(w, "idle")
    /\ save' = [save EXCEPT ![w] = [at |-> IF shown[h] = "none" THEN "temp" ELSE "commit",
                                    hash |-> h, durable |-> durable]]
    /\ UNCHANGED <<source, shown, synced, could, db, losses, kills, settled>>

\* scan_one: the content is saved unless the row has this hash already.
\* handle_modify does the same, but durably.
Scan == source # Now.row /\ Begin("recorder", source, FALSE)
Modify == source # Now.row /\ Begin("recorder", source, TRUE)
SaveTarget(h) == Begin("command", h, TRUE)

\* sync_all of the temporary file, for durable saves only.
Sync(w) ==
    /\ At(w, "temp") /\ save[w].durable
    /\ GoesTo(w, "synced")
    /\ UNCHANGED <<source, shown, synced, could, db, losses, kills, settled>>

Written(w) == save[w].at = IF save[w].durable THEN "synced" ELSE "temp"

\* Bug: the bytes are written under the final name.
WriteInPlace(w) ==
    /\ Written(w)
    /\ LET h == save[w].hash
       IN /\ shown' = [shown EXCEPT ![h] = IF @ = "none" THEN "torn" ELSE "whole"]
          /\ could' = [could EXCEPT ![h] = @ \cup {"whole", "torn"}]
          /\ GoesTo(w, IF shown[h] = "none" THEN "synced" ELSE "commit")
    /\ UNCHANGED <<source, synced, db, losses, kills, settled>>

\* rename to the final name, which another publisher may have taken since.
Rename(w) ==
    /\ Written(w)
    /\ LET h == save[w].hash  durable == save[w].durable
       IN /\ shown' = [shown EXCEPT ![h] = "whole"]
          /\ synced' = IF durable THEN synced \cup {h} ELSE synced \ {h}
          /\ could' = [could EXCEPT ![h] = @ \cup IF durable THEN {"whole"} ELSE {"whole", "torn"}]
          /\ settled' = IF durable THEN settled ELSE settled \ {h}
          /\ GoesTo(w, IF durable THEN "renamed" ELSE "commit")
    /\ UNCHANGED <<source, db, losses, kills>>

\* Bug: the name is left to the kernel.
SkipDirectory(w) ==
    /\ At(w, "renamed")
    /\ settled' = settled \cup ({save[w].hash} \cap synced)
    /\ GoesTo(w, "commit")
    /\ UNCHANGED <<source, shown, synced, could, db, losses, kills>>
\* fsync_dir puts the names as they are on the disk, all of them.
SyncDirectory(w) ==
    /\ At(w, "renamed")
    /\ could' = [h \in Hash |-> IF shown[h] = "whole" /\ h \notin synced
                                THEN {"whole", "torn"} ELSE {shown[h]}]
    /\ settled' = settled \cup ({save[w].hash} \cap synced)
    /\ GoesTo(w, "commit")
    /\ UNCHANGED <<source, shown, synced, db, losses, kills>>

\* The transaction with the event, or the Recovery, that refers to the hash.
Commit(w) ==
    /\ At(w, "commit")
    /\ Len(db) < MaxCommits
    /\ LET h == save[w].hash
       IN db' = Append(db, [row |-> IF w = "recorder" THEN h ELSE Now.row,
                            refs |-> Now.refs \cup {h}])
    /\ save' = [save EXCEPT ![w] = NoSave]
    /\ UNCHANGED <<source, shown, synced, could, losses, kills, settled>>

\* The process is killed, or a call fails.
Killed(w) ==
    /\ ~At(w, "idle")
    /\ kills < MaxKills
    /\ kills' = kills + 1
    /\ save' = [save EXCEPT ![w] = NoSave]
    /\ UNCHANGED <<source, shown, synced, could, db, losses, settled>>

----------------------------------------------------------------------------
(* SQLite, prune, and the power. *)

Checkpoint ==
    /\ Len(db) > 1
    /\ db' = <<Now>>
    /\ UNCHANGED <<source, shown, synced, could, save, losses, kills, settled>>

NobodySaves == \A w \in Publisher : At(w, "idle")

\* prune deletes old rows ...
DropRows(h) ==
    /\ NobodySaves
    /\ h \in Now.refs
    /\ Len(db) < MaxCommits
    /\ db' = Append(db, [Now EXCEPT !.refs = @ \ {h}])
    /\ UNCHANGED <<source, shown, synced, could, save, losses, kills, settled>>

\* ... and then the files that no row needs any more.
RemoveSnapshot(h) ==
    /\ NobodySaves
    /\ shown[h] # "none" /\ h \notin Known
    /\ shown' = [shown EXCEPT ![h] = "none"]
    /\ synced' = synced \ {h}
    /\ could' = [could EXCEPT ![h] = @ \cup {"none"}]
    /\ settled' = settled \ {h}
    /\ UNCHANGED <<source, db, save, losses, kills>>

PowerFails ==
    /\ losses < MaxLosses
    /\ losses' = losses + 1
    /\ shown' \in {s \in [Hash -> {"none", "whole", "torn"}] : \A h \in Hash : s[h] \in could[h]}
    /\ could' = [h \in Hash |-> {shown'[h]}]
    /\ synced' = {h \in Hash : shown'[h] # "none"}
    /\ \E k \in DOMAIN db : db' = <<db[k]>>
    /\ save' = [w \in Publisher |-> NoSave]
    /\ UNCHANGED <<source, kills, settled>>

DiskNext ==
    \/ \E h \in Hash : Edit(h) \/ SaveTarget(h) \/ DropRows(h) \/ RemoveSnapshot(h)
    \/ Scan \/ Modify \/ Checkpoint \/ PowerFails
    \/ \E w \in Publisher :
          Sync(w) \/ Rename(w) \/ SyncDirectory(w) \/ Commit(w) \/ Killed(w)

DiskSpec == DiskInit /\ [][DiskNext]_diskVars

----------------------------------------------------------------------------
(* What verify_project reports of the hashes the database knows: without  *)
(* `deep` the missing ones only.                                          *)
Missing == {h \in Known : shown[h] = "none"}
Corrupt == {h \in Known : shown[h] = "torn"}

DiskTypeOK ==
    /\ source \in Hash
    /\ \A h \in Hash : shown[h] \in could[h] /\ could[h] \subseteq {"none", "whole", "torn"}
    /\ synced \subseteq {h \in Hash : shown[h] # "none"}
    /\ Len(db) \in 1..MaxCommits
    /\ losses \in 0..MaxLosses /\ kills \in 0..MaxKills

(* Kills and failed writes, at whatever point, leave no saved version     *)
(* missing or torn (write_snapshot_in: a unique temporary file, renamed). *)
KillsTearNothing == losses = 0 => Missing \cup Corrupt = {}

(* A power failure takes no version whose file a durable save has written *)
(* and returned, as long as prune does not remove it nor a scan of the    *)
(* same content replaces it (save_durable: the bytes are synced before    *)
(* the name, the name before the event).                                  *)
DurableSavesSurvive ==
    (Missing \cup Corrupt) \cap settled = {}

(* What a durable save has stored stays whole, and what anybody has stored *)
(* is whole as long as the power does not fail.                           *)
SnapshotsSurvive == KillsTearNothing /\ DurableSavesSurvive

(* docs/storage.md: scans need not sync their snapshots "because their    *)
(* source files still exist and can be scanned again".  After a scan the  *)
(* saved version of the file as it is there should be whole.              *)
RescanRepairs ==
    [][\A w \in Publisher : save[w].at = "commit" /\ ~save[w].durable /\ Commit(w)
         => shown[save[w].hash] = "whole"]_diskVars
===============================================================================
