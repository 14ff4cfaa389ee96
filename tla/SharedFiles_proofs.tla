-------------------------- MODULE SharedFiles_proofs --------------------------
(***************************************************************************)
(* The files processes share besides the history, for any number of        *)
(* processes, contents and failures: snapshot files and the power, the     *)
(* executable, the log, the upgrade of the database, the ignore rules and  *)
(* the agents' configuration.  The parts have nothing in common but this   *)
(* module.                                                                 *)
(***************************************************************************)
EXTENDS Durability, SelfUpdate, Logging, Migration, Ignoring, HookSetup, SequenceTheorems,
        FiniteSetTheorems, WellFoundedInduction, TLAPS

-------------------------------------------------------------------------------
(* Snapshot files (Durability)                                             *)

Commits == [row : Hash \cup {NoHash}, refs : SUBSET Hash]
Saves == [at : {"idle", "temp", "synced", "renamed", "commit"},
          hash : Hash \cup {NoHash}, durable : BOOLEAN]

DiskType ==
    /\ source \in Hash
    /\ shown \in [Hash -> {"none", "whole", "torn"}]
    /\ synced \subseteq Hash
    /\ could \in [Hash -> SUBSET {"none", "whole", "torn"}]
    /\ \A h \in Hash : shown[h] \in could[h]
    /\ \A h \in synced : shown[h] # "none"
    /\ db \in Seq(Commits) /\ Len(db) >= 1
    /\ save \in [Publisher -> Saves]
    /\ losses \in Nat /\ kills \in Nat
    /\ settled \subseteq Hash

\* A publisher that is past its rename has a file, and a save has a content.
Publishing ==
    \A w \in Publisher :
        /\ save[w].at # "idle" => save[w].hash \in Hash
        /\ save[w].at = "renamed" => shown[save[w].hash] = "whole"
        /\ save[w].at = "commit" => shown[save[w].hash] # "none"

\* What is settled is whole, and nothing else is what the disk could have.
Settled ==
    \A h \in settled : h \in synced /\ shown[h] = "whole" /\ could[h] = {"whole"}

\* Only a power failure tears.
PowerOn ==
    losses = 0 =>
        /\ \A h \in Hash : shown[h] # "torn"
        /\ \A h \in Known : shown[h] = "whole"

DiskInv == DiskType /\ Publishing /\ Settled /\ PowerOn

\* The last commit after one is appended, or after a checkpoint.
LEMMA LastOfAppended ==
    ASSUME NEW T, NEW s \in Seq(T), NEW x \in T
    PROVE  /\ Append(s, x) \in Seq(T)
           /\ Len(Append(s, x)) = Len(s) + 1
           /\ Append(s, x)[Len(Append(s, x))] = x
  OBVIOUS

LEMMA NowTyped ==
    ASSUME DiskType
    PROVE  Now \in Commits /\ Known \subseteq Hash
  <1>1. Len(db) \in 1..Len(db)
    BY DEF DiskType
  <1>2. Now \in Commits
    BY <1>1 DEF DiskType, Now
  <1> QED BY <1>2 DEF Known, Commits

\* Steps of publishers that leave files and commits alone.
LEMMA PublisherMoves ==
    ASSUME DiskInv, NEW w \in Publisher, NEW s \in Saves,
           save' = [save EXCEPT ![w] = s],
           s.at # "idle" => s.hash \in Hash,
           s.at = "renamed" => shown[s.hash] = "whole",
           s.at = "commit" => shown[s.hash] # "none",
           kills' \in Nat,
           UNCHANGED <<source, shown, synced, could, db, losses, settled>>
    PROVE  DiskInv'
  <1>1. DiskType'
    BY DEF DiskInv, DiskType
  <1>2. Publishing'
    BY DEF DiskInv, DiskType, Publishing
  <1>3. Settled' /\ PowerOn'
    BY DEF DiskInv, Settled, PowerOn, Known, Now
  <1> QED BY <1>1, <1>2, <1>3 DEF DiskInv

LEMMA BeginKeeps ==
    ASSUME DiskInv, NEW w \in Publisher, NEW h \in Hash, NEW durable \in BOOLEAN,
           Begin(w, h, durable)
    PROVE  DiskInv'
  <1> DEFINE s == [at |-> IF shown[h] = "none" THEN "temp" ELSE "commit",
                   hash |-> h, durable |-> durable]
  <1>1. s \in Saves /\ s.hash = h /\ s.at # "renamed" /\ (s.at = "commit" => shown[h] # "none")
    BY DEF Saves
  <1>2. save' = [save EXCEPT ![w] = s]
    BY DEF Begin
  <1> HIDE DEF s
  <1> QED BY <1>1, <1>2, PublisherMoves DEF Begin, DiskInv, DiskType

LEMMA SyncKeeps ==
    ASSUME DiskInv, NEW w \in Publisher, Sync(w)
    PROVE  DiskInv'
  <1> DEFINE s == [save[w] EXCEPT !.at = "synced"]
  <1>1. save[w] \in Saves /\ save[w].hash \in Hash
    BY DEF DiskInv, DiskType, Publishing, Sync, At
  <1>2. s \in Saves /\ s.hash = save[w].hash /\ s.at = "synced"
    BY <1>1 DEF Saves
  <1>3. save' = [save EXCEPT ![w] = s]
    BY DEF Sync, GoesTo, DiskInv, DiskType
  <1> HIDE DEF s
  <1> QED BY <1>1, <1>2, <1>3, PublisherMoves DEF Sync, DiskInv, DiskType

LEMMA KilledKeeps ==
    ASSUME DiskInv, NEW w \in Publisher, Killed(w)
    PROVE  DiskInv'
  <1>1. NoSave \in Saves /\ NoSave.at = "idle" /\ kills' \in Nat
    BY DEF Saves, NoSave, Killed, DiskInv, DiskType
  <1> QED BY <1>1, PublisherMoves DEF Killed

LEMMA RenameKeeps ==
    ASSUME DiskInv, NEW w \in Publisher, Rename(w)
    PROVE  DiskInv'
  <1> DEFINE h == save[w].hash
             durable == save[w].durable
             at == IF durable THEN "renamed" ELSE "commit"
  <1>1. h \in Hash /\ durable \in BOOLEAN /\ save[w] \in Saves
    BY DEF DiskInv, DiskType, Publishing, Rename, Written, Saves
  <1>2. /\ shown' = [shown EXCEPT ![h] = "whole"]
        /\ synced' = (IF durable THEN synced \cup {h} ELSE synced \ {h})
        /\ could' = [could EXCEPT ![h] = @ \cup IF durable THEN {"whole"} ELSE {"whole", "torn"}]
        /\ settled' = IF durable THEN settled ELSE settled \ {h}
        /\ save' = [save EXCEPT ![w] = [@ EXCEPT !.at = at]]
        /\ UNCHANGED <<source, db, losses, kills>>
    BY DEF Rename, GoesTo
  <1>3. /\ \A x \in Hash : shown'[x] = IF x = h THEN "whole" ELSE shown[x]
        /\ \A x \in Hash : could'[x] = IF x = h
               THEN could[x] \cup (IF durable THEN {"whole"} ELSE {"whole", "torn"}) ELSE could[x]
        /\ \A v \in Publisher : v # w => save'[v] = save[v]
        /\ save'[w] \in Saves /\ save'[w].at = at /\ save'[w].hash = h
    BY <1>1, <1>2 DEF DiskInv, DiskType, Saves
  <1>4. DiskType'
    <2>1. could' \in [Hash -> SUBSET {"none", "whole", "torn"}]
      BY <1>1, <1>2 DEF DiskInv, DiskType
    <2>2. \A x \in Hash : shown'[x] \in could'[x]
      BY <1>3 DEF DiskInv, DiskType
    <2>3. save' \in [Publisher -> Saves]
      BY <1>2, <1>3 DEF DiskInv, DiskType
    <2>4. synced' \subseteq Hash /\ \A x \in synced' : shown'[x] # "none"
      BY <1>1, <1>2, <1>3 DEF DiskInv, DiskType
    <2> QED BY <1>1, <1>2, <2>1, <2>2, <2>3, <2>4 DEF DiskInv, DiskType
  <1>5. Publishing'
    BY <1>1, <1>3 DEF DiskInv, Publishing
  <1>6. Settled'
    BY <1>1, <1>2, <1>3 DEF DiskInv, DiskType, Settled
  <1>7. PowerOn'
    <2>1. Known' = Known /\ Known \subseteq Hash
      BY <1>2, NowTyped DEF Known, Now, DiskInv
    <2> QED BY <1>2, <1>3, <2>1 DEF DiskInv, PowerOn
  <1> QED BY <1>4, <1>5, <1>6, <1>7 DEF DiskInv

LEMMA SyncDirectoryKeeps ==
    ASSUME DiskInv, NEW w \in Publisher, SyncDirectory(w)
    PROVE  DiskInv'
  <1> DEFINE h == save[w].hash
  <1>1. h \in Hash /\ save[w] \in Saves /\ shown[h] = "whole"
    BY DEF DiskInv, DiskType, Publishing, SyncDirectory, At
  <1>2. /\ could' = [x \in Hash |-> IF shown[x] = "whole" /\ x \notin synced
                                     THEN {"whole", "torn"} ELSE {shown[x]}]
        /\ settled' = settled \cup ({h} \cap synced)
        /\ save' = [save EXCEPT ![w] = [@ EXCEPT !.at = "commit"]]
        /\ UNCHANGED <<source, shown, synced, db, losses, kills>>
    BY DEF SyncDirectory, GoesTo
  <1>3. /\ \A v \in Publisher : v # w => save'[v] = save[v]
        /\ save'[w] \in Saves /\ save'[w].at = "commit" /\ save'[w].hash = h
    BY <1>1, <1>2 DEF DiskInv, DiskType, Saves
  <1>4. DiskType'
    <2>1. could' \in [Hash -> SUBSET {"none", "whole", "torn"}]
      BY <1>2 DEF DiskInv, DiskType
    <2>2. \A x \in Hash : shown[x] \in could'[x]
      BY <1>2
    <2>3. save' \in [Publisher -> Saves]
      BY <1>2, <1>3 DEF DiskInv, DiskType
    <2> QED BY <1>1, <1>2, <2>1, <2>2, <2>3 DEF DiskInv, DiskType
  <1>5. Publishing'
    BY <1>1, <1>2, <1>3 DEF DiskInv, Publishing
  <1>6. Settled'
    BY <1>1, <1>2 DEF DiskInv, DiskType, Settled
  <1>7. PowerOn'
    BY <1>2 DEF DiskInv, PowerOn, Known, Now
  <1> QED BY <1>4, <1>5, <1>6, <1>7 DEF DiskInv

\* Steps of the database: the last commit becomes n.
LEMMA CommitsMove ==
    ASSUME DiskInv, NEW n \in Commits,
           db' \in Seq(Commits), Len(db') >= 1, db'[Len(db')] = n,
           losses = 0 => \A h \in n.refs \cup ({n.row} \ {NoHash}) : shown[h] = "whole",
           save' = save \/ \E w \in Publisher : save' = [save EXCEPT ![w] = NoSave],
           UNCHANGED <<source, shown, synced, could, losses, kills, settled>>
    PROVE  DiskInv'
  <1>1. NoSave \in Saves /\ NoSave.at = "idle"
    BY DEF Saves, NoSave
  <1>2. DiskType'
    BY <1>1 DEF DiskInv, DiskType
  <1>3. Publishing'
    BY <1>1 DEF DiskInv, DiskType, Publishing
  <1>4. Settled'
    BY DEF DiskInv, Settled
  <1>5. PowerOn'
    <2>1. Known' = n.refs \cup ({n.row} \ {NoHash})
      BY DEF Known, Now
    <2> QED BY <2>1 DEF DiskInv, PowerOn
  <1> QED BY <1>2, <1>3, <1>4, <1>5 DEF DiskInv

LEMMA CommitKeeps ==
    ASSUME DiskInv, NEW w \in Publisher, Commit(w)
    PROVE  DiskInv'
  <1> DEFINE h == save[w].hash
             n == [row |-> IF w = "recorder" THEN h ELSE Now.row, refs |-> Now.refs \cup {h}]
  <1>1. h \in Hash /\ shown[h] # "none"
    BY DEF DiskInv, Publishing, Commit, At
  <1>2. Now \in Commits /\ db \in Seq(Commits)
    BY NowTyped DEF DiskInv, DiskType
  <1>3. n \in Commits
    BY <1>1, <1>2 DEF Commits
  <1>4. ASSUME losses = 0, NEW x \in n.refs \cup ({n.row} \ {NoHash}) PROVE shown[x] = "whole"
    <2>1. x = h \/ x \in Known
      BY <1>4 DEF Known
    <2> QED BY <1>1, <1>4, <2>1 DEF DiskInv, PowerOn, DiskType
  <1>5. db' = Append(db, n) /\ save' = [save EXCEPT ![w] = NoSave]
        /\ UNCHANGED <<source, shown, synced, could, losses, kills, settled>>
    BY DEF Commit
  <1> HIDE DEF n
  <1>6. db' \in Seq(Commits) /\ Len(db') >= 1 /\ db'[Len(db')] = n
    BY <1>2, <1>3, <1>5, LastOfAppended DEF DiskInv, DiskType
  <1> QED BY <1>3, <1>4, <1>5, <1>6, CommitsMove

LEMMA DropRowsKeeps ==
    ASSUME DiskInv, NEW h \in Hash, DropRows(h)
    PROVE  DiskInv'
  <1> DEFINE n == [Now EXCEPT !.refs = @ \ {h}]
  <1>1. Now \in Commits /\ db \in Seq(Commits)
    BY NowTyped DEF DiskInv, DiskType
  <1>2. n \in Commits /\ n.row = Now.row /\ n.refs \subseteq Now.refs
    BY <1>1 DEF Commits
  <1>3. db' = Append(db, n) /\ UNCHANGED <<source, shown, synced, could, save, losses, kills, settled>>
    BY DEF DropRows
  <1> HIDE DEF n
  <1>4. losses = 0 => \A x \in n.refs \cup ({n.row} \ {NoHash}) : shown[x] = "whole"
    BY <1>2 DEF DiskInv, PowerOn, Known
  <1>5. db' \in Seq(Commits) /\ Len(db') >= 1 /\ db'[Len(db')] = n
    BY <1>1, <1>2, <1>3, LastOfAppended DEF DiskInv, DiskType
  <1> QED BY <1>2, <1>3, <1>4, <1>5, CommitsMove

LEMMA CheckpointKeeps ==
    ASSUME DiskInv, Checkpoint
    PROVE  DiskInv'
  <1>1. Now \in Commits
    BY NowTyped DEF DiskInv
  <1>2. losses = 0 => \A x \in Now.refs \cup ({Now.row} \ {NoHash}) : shown[x] = "whole"
    BY DEF DiskInv, PowerOn, Known
  <1>3. db' = <<Now>> /\ UNCHANGED <<source, shown, synced, could, save, losses, kills, settled>>
    BY DEF Checkpoint
  <1>4. db' \in Seq(Commits) /\ Len(db') >= 1 /\ db'[Len(db')] = Now
    BY <1>1, <1>3
  <1> QED BY <1>1, <1>2, <1>3, <1>4, CommitsMove

LEMMA RemoveSnapshotKeeps ==
    ASSUME DiskInv, NEW h \in Hash, RemoveSnapshot(h)
    PROVE  DiskInv'
  <1>1. /\ \A w \in Publisher : save[w].at = "idle"
        /\ h \notin Known
        /\ shown' = [shown EXCEPT ![h] = "none"]
        /\ synced' = synced \ {h}
        /\ could' = [could EXCEPT ![h] = @ \cup {"none"}]
        /\ settled' = settled \ {h}
        /\ UNCHANGED <<source, db, save, losses, kills>>
    BY DEF RemoveSnapshot, NobodySaves, At
  <1>2. /\ \A x \in Hash : shown'[x] = IF x = h THEN "none" ELSE shown[x]
        /\ \A x \in Hash : could'[x] = IF x = h THEN could[x] \cup {"none"} ELSE could[x]
    BY <1>1 DEF DiskInv, DiskType
  <1>3. DiskType'
    BY <1>1, <1>2 DEF DiskInv, DiskType
  <1>4. Publishing'
    BY <1>1 DEF DiskInv, Publishing
  <1>5. Settled'
    BY <1>1, <1>2 DEF DiskInv, DiskType, Settled
  <1>6. PowerOn'
    <2>1. Known' = Known /\ Known \subseteq Hash
      BY <1>1, NowTyped DEF Known, Now, DiskInv
    <2> QED BY <1>1, <1>2, <2>1 DEF DiskInv, PowerOn
  <1> QED BY <1>3, <1>4, <1>5, <1>6 DEF DiskInv

LEMMA PowerFailsKeeps ==
    ASSUME DiskInv, PowerFails
    PROVE  DiskInv'
  <1>1. /\ losses' = losses + 1
        /\ shown' \in [Hash -> {"none", "whole", "torn"}]
        /\ \A h \in Hash : shown'[h] \in could[h]
        /\ could' = [h \in Hash |-> {shown'[h]}]
        /\ synced' = {h \in Hash : shown'[h] # "none"}
        /\ save' = [w \in Publisher |-> NoSave]
        /\ UNCHANGED <<source, kills, settled>>
    BY DEF PowerFails
  <1>2. PICK k \in DOMAIN db : db' = <<db[k]>>
    BY DEF PowerFails
  <1>3. db' \in Seq(Commits) /\ Len(db') >= 1
    BY <1>2 DEF DiskInv, DiskType
  <1>4. NoSave \in Saves /\ NoSave.at = "idle"
    BY DEF Saves, NoSave
  <1>5. DiskType'
    BY <1>1, <1>3, <1>4 DEF DiskInv, DiskType
  <1>6. Publishing'
    BY <1>1, <1>4 DEF Publishing
  <1>7. Settled'
    BY <1>1 DEF DiskInv, DiskType, Settled
  <1>8. PowerOn'
    BY <1>1 DEF DiskInv, DiskType, PowerOn
  <1> QED BY <1>5, <1>6, <1>7, <1>8 DEF DiskInv

LEMMA DiskInitHolds == DiskInit => DiskInv
  <1> SUFFICES ASSUME DiskInit PROVE DiskInv
    OBVIOUS
  <1>1. NoSave \in Saves /\ NoSave.at = "idle"
    BY DEF Saves, NoSave
  <1> DEFINE n == [row |-> NoHash, refs |-> {}]
  <1>2. n \in Commits /\ db = <<n>> /\ Now = n
    BY DEF Commits, DiskInit, Now
  <1>3. db \in Seq(Commits) /\ Len(db) = 1 /\ Known = {}
    BY <1>2 DEF Known
  <1> QED BY <1>1, <1>3 DEF DiskInit, DiskInv, DiskType, Publishing, Settled, PowerOn

LEMMA DiskStepKeeps ==
    ASSUME DiskInv, [DiskNext]_diskVars
    PROVE  DiskInv'
  <1>1. ASSUME NEW h \in Hash, Edit(h) PROVE DiskInv'
    BY <1>1 DEF Edit, DiskInv, DiskType, Publishing, Settled, PowerOn, Known, Now
  <1>2. ASSUME NEW h \in Hash, SaveTarget(h) PROVE DiskInv'
    BY <1>2, BeginKeeps DEF SaveTarget, Publisher
  <1>3. ASSUME Scan \/ Modify PROVE DiskInv'
    BY <1>3, BeginKeeps DEF Scan, Modify, Publisher, DiskInv, DiskType
  <1>4. CASE UNCHANGED diskVars
    BY <1>4 DEF diskVars, DiskInv, DiskType, Publishing, Settled, PowerOn, Known, Now
  <1> QED BY <1>1, <1>2, <1>3, <1>4, DropRowsKeeps, RemoveSnapshotKeeps, CheckpointKeeps,
             PowerFailsKeeps, SyncKeeps, RenameKeeps, SyncDirectoryKeeps, CommitKeeps,
             KilledKeeps DEF DiskNext

\* What a durable save has stored stays whole through any number of kills and
\* power failures, and without one whatever the database knows is whole.
THEOREM SnapshotsKept == DiskSpec => []SnapshotsSurvive
  <1>1. DiskInit => DiskInv
    BY DiskInitHolds
  <1>2. DiskInv /\ [DiskNext]_diskVars => DiskInv'
    BY DiskStepKeeps
  <1>3. DiskInv => SnapshotsSurvive
    BY DEF DiskInv, PowerOn, Settled, SnapshotsSurvive, KillsTearNothing,
           DurableSavesSurvive, Missing, Corrupt
  <1> QED BY <1>1, <1>2, <1>3, PTL DEF DiskSpec

-------------------------------------------------------------------------------
(* The executable (SelfUpdate)                                             *)

Binaries == [file : Nat, release : Nat, sound : {TRUE}]
Updates == [at : {"idle", "download", "aside", "install", "clean"}, file : Nat,
            release : Nat, new : Nat, dest : {"exe", "backup"}]

UpdateType ==
    /\ exe \in Binaries \cup {NoBinary}
    /\ backup \in Binaries \cup {NoBinary}
    /\ latest \in Nat /\ binaries \in Nat
    /\ updater \in [Updater -> Updates]
    /\ follows \in BOOLEAN /\ stranded \in BOOLEAN /\ overlapped \in BOOLEAN

\* Where the only update at work is, and which of the two names has a file.
UpdateWorks(u) ==
    /\ updater[u].at \in {"download", "aside"} =>
          exe # NoBinary /\ exe.file = updater[u].file /\ exe.release = updater[u].release
    /\ updater[u].at \in {"aside", "install", "clean"} => updater[u].new >= updater[u].release
    /\ updater[u].at = "download" => updater[u].new >= updater[u].release
    /\ updater[u].at = "install" =>
          exe = NoBinary /\ backup # NoBinary /\ updater[u].dest = "exe"
    /\ updater[u].at = "clean" => exe # NoBinary /\ exe.release >= updater[u].release

OneUpdate ==
    ~overlapped =>
        /\ \A u, v \in Updater : ~Idle(u) /\ ~Idle(v) => u = v
        /\ \A u \in Updater : UpdateWorks(u)
        /\ exe # NoBinary \/ backup # NoBinary
        /\ ~stranded /\ (\A u \in Updater : Idle(u)) => exe # NoBinary

UpdateInv == UpdateType /\ OneUpdate

LEMMA BinariesAreFiles == \A b \in Binaries : b # NoBinary
  BY UpdateConstants DEF Binaries

LEMMA CheckLatestKeeps ==
    ASSUME UpdateInv, NEW u \in Updater, CheckLatest(u)
    PROVE  UpdateInv'
  <1>1. /\ updater[u].at = "idle" /\ exe # NoBinary /\ latest > exe.release
        /\ updater' = [updater EXCEPT ![u] = [at |-> "download", file |-> exe.file,
              release |-> exe.release, new |-> latest, dest |-> "exe"]]
        /\ overlapped' = (overlapped \/ \E v \in Updater : updater[v].at # "idle")
        /\ UNCHANGED <<exe, backup, latest, follows, binaries, stranded>>
    BY DEF CheckLatest, Idle
  <1>2. exe \in Binaries /\ exe.file \in Nat /\ exe.release \in Nat /\ latest \in Nat
    BY <1>1 DEF UpdateInv, UpdateType, Binaries
  <1>3. UpdateType'
    BY <1>1, <1>2 DEF UpdateInv, UpdateType, Updates
  <1>4. OneUpdate'
    <2> SUFFICES ASSUME ~overlapped'
                 PROVE  /\ \A w, v \in Updater : ~Idle(w)' /\ ~Idle(v)' => w = v
                        /\ \A w \in Updater : UpdateWorks(w)'
                        /\ ~stranded' /\ (\A w \in Updater : Idle(w)') => exe' # NoBinary
      BY <1>1 DEF OneUpdate
    <2>1. ~overlapped /\ \A v \in Updater : updater[v].at = "idle"
      BY <1>1 DEF UpdateInv, UpdateType
    <2>2. /\ updater'[u].at = "download" /\ updater'[u].file = exe.file
          /\ updater'[u].release = exe.release /\ updater'[u].new = latest
          /\ \A v \in Updater : v # u => updater'[v] = updater[v]
      BY <1>1 DEF UpdateInv, UpdateType
    <2> QED BY <1>1, <1>2, <2>1, <2>2 DEF Idle, UpdateWorks
  <1> QED BY <1>3, <1>4 DEF UpdateInv

\* An update goes on, or gives up: what changes of the two names fits.
LEMMA UpdateMoves ==
    ASSUME UpdateInv, NEW u \in Updater, ~Idle(u),
           NEW s \in Updates, updater' = [updater EXCEPT ![u] = s],
           s.new = updater[u].new, s.release = updater[u].release, s.file = updater[u].file,
           UpdateType',
           ~overlapped => /\ UpdateWorks(u)'
                          /\ exe' # NoBinary \/ backup' # NoBinary
                          /\ s.at = "idle" /\ ~stranded' => exe' # NoBinary,
           stranded => stranded',
           UNCHANGED <<latest, follows, overlapped>>
    PROVE  UpdateInv'
  <1>1. updater'[u] = s /\ \A v \in Updater : v # u => updater'[v] = updater[v]
    BY DEF UpdateInv, UpdateType
  <1>2. OneUpdate'
    <2> SUFFICES ASSUME ~overlapped
                 PROVE  /\ \A w, v \in Updater : ~Idle(w)' /\ ~Idle(v)' => w = v
                        /\ \A w \in Updater : UpdateWorks(w)'
                        /\ ~stranded' /\ (\A w \in Updater : Idle(w)') => exe' # NoBinary
      BY DEF OneUpdate
    <2>1. \A v \in Updater : v # u => updater'[v] = updater[v] /\ updater[v].at = "idle"
      BY <1>1 DEF UpdateInv, OneUpdate, Idle
    <2> QED BY <1>1, <2>1 DEF Idle, UpdateWorks
  <1> QED BY <1>2 DEF UpdateInv

LEMMA ProceedTo ==
    ASSUME UpdateInv, NEW u \in Updater, NEW at \in {"idle", "aside", "install", "clean"},
           Proceed(u, at)
    PROVE  /\ updater'[u] \in Updates /\ updater'[u].at = at
           /\ updater'[u].new = updater[u].new /\ updater'[u].release = updater[u].release
           /\ updater'[u].file = updater[u].file
           /\ updater' = [updater EXCEPT ![u] = updater'[u]]
           /\ updater' \in [Updater -> Updates]
  <1> DEFINE s == [updater[u] EXCEPT !.at = at]
  <1>1. updater[u] \in Updates
    BY DEF UpdateInv, UpdateType
  <1>2. /\ s \in Updates /\ s.at = at /\ s.new = updater[u].new
        /\ s.release = updater[u].release /\ s.file = updater[u].file
    BY <1>1 DEF Updates
  <1>3. updater' = [updater EXCEPT ![u] = s] /\ updater \in [Updater -> Updates]
    BY DEF Proceed, UpdateInv, UpdateType
  <1> HIDE DEF s
  <1>4. updater'[u] = s /\ updater' \in [Updater -> Updates]
    BY <1>2, <1>3
  <1> QED BY <1>2, <1>3, <1>4

LEMMA DownloadKeeps ==
    ASSUME UpdateInv, NEW u \in Updater, NEW sound \in BOOLEAN, Download(u, sound)
    PROVE  UpdateInv'
  <1> DEFINE at == IF Verifies(sound) THEN "aside" ELSE "idle"
  <1>1. /\ updater[u].at = "download" /\ Proceed(u, at)
        /\ UNCHANGED <<exe, backup, latest, follows, binaries, stranded, overlapped>>
    BY DEF Download
  <1>2. at \in {"idle", "aside"}
    OBVIOUS
  <1> HIDE DEF at
  <1>3. /\ updater'[u] \in Updates /\ updater'[u].at = at
        /\ updater'[u].new = updater[u].new /\ updater'[u].release = updater[u].release
        /\ updater'[u].file = updater[u].file
        /\ updater' = [updater EXCEPT ![u] = updater'[u]]
        /\ updater' \in [Updater -> Updates]
    BY <1>1, <1>2, ProceedTo
  <1>4. UpdateType'
    BY <1>1, <1>3 DEF UpdateInv, UpdateType
  <1>5. ~overlapped => UpdateWorks(u)' /\ exe' # NoBinary
    BY <1>1, <1>2, <1>3 DEF UpdateInv, OneUpdate, UpdateWorks
  <1> QED BY <1>1, <1>3, <1>4, <1>5, UpdateMoves DEF Idle

LEMMA SetAsideKeeps ==
    ASSUME UpdateInv, NEW u \in Updater, SetAside(u)
    PROVE  UpdateInv'
  <1>1. /\ updater[u].at = "aside" /\ updater[u] \in Updates
        /\ UNCHANGED <<latest, follows, binaries, stranded, overlapped>>
    BY DEF SetAside, UpdateInv, UpdateType
  <1>2. ~overlapped => exe # NoBinary /\ CurrentExe(u) = "exe"
                         /\ updater[u].new >= updater[u].release
    BY <1>1 DEF UpdateInv, OneUpdate, UpdateWorks, CurrentExe
  <1>3. ASSUME NEW dest \in {"exe", "backup"},
               updater' = [updater EXCEPT ![u].at = "install", ![u].dest = dest],
               \/ dest = "exe" /\ exe # NoBinary /\ backup' = exe /\ exe' = NoBinary
               \/ dest = "backup" /\ CurrentExe(u) = "backup" /\ UNCHANGED <<exe, backup>>
        PROVE  UpdateInv'
    <2> DEFINE s == [updater[u] EXCEPT !.at = "install", !.dest = dest]
    <2>1. /\ s \in Updates /\ s.at = "install" /\ s.dest = dest /\ s.new = updater[u].new
          /\ s.release = updater[u].release /\ s.file = updater[u].file
      BY <1>1 DEF Updates
    <2>2. updater' = [updater EXCEPT ![u] = s]
      BY <1>3 DEF UpdateInv, UpdateType
    <2> HIDE DEF s
    <2>3. updater' \in [Updater -> Updates] /\ updater'[u] = s
      BY <2>1, <2>2 DEF UpdateInv, UpdateType
    <2>4. UpdateType'
      BY <1>1, <1>3, <2>3 DEF UpdateInv, UpdateType
    <2>5. ~overlapped => UpdateWorks(u)' /\ backup' # NoBinary
      BY <1>1, <1>2, <1>3, <2>1, <2>3 DEF UpdateWorks
    <2> QED BY <1>1, <2>1, <2>2, <2>4, <2>5, UpdateMoves DEF Idle
  <1>4. ASSUME CurrentExe(u) = "gone" \/ exe = NoBinary,
               Proceed(u, "idle"), UNCHANGED <<exe, backup>>
        PROVE  UpdateInv'
    <2>1. /\ updater'[u] \in Updates /\ updater'[u].at = "idle"
          /\ updater'[u].new = updater[u].new /\ updater'[u].release = updater[u].release
          /\ updater'[u].file = updater[u].file
          /\ updater' = [updater EXCEPT ![u] = updater'[u]]
          /\ updater' \in [Updater -> Updates]
      BY <1>4, ProceedTo
    <2>2. UpdateType'
      BY <1>1, <1>4, <2>1 DEF UpdateInv, UpdateType
    <2>3. overlapped
      BY <1>2, <1>4 DEF UpdateInv, UpdateType
    <2> QED BY <1>1, <2>1, <2>2, <2>3, UpdateMoves DEF Idle
  <1>5. updater' = [updater EXCEPT ![u].at = "install", ![u].dest = "exe"]
           /\ CurrentExe(u) = "exe" /\ exe # NoBinary /\ backup' = exe /\ exe' = NoBinary
        => UpdateInv'
    BY <1>3
  <1>6. updater' = [updater EXCEPT ![u].at = "install", ![u].dest = "backup"]
           /\ CurrentExe(u) = "backup" /\ UNCHANGED <<exe, backup>>
        => UpdateInv'
    BY <1>3
  <1> QED BY <1>4, <1>5, <1>6 DEF SetAside

LEMMA InstallBinaryKeeps ==
    ASSUME UpdateInv, NEW u \in Updater, InstallBinary(u)
    PROVE  UpdateInv'
  <1> DEFINE b == Installed(u, TRUE)
  <1>1. /\ updater[u].at = "install" /\ updater[u] \in Updates
        /\ binaries' = binaries + 1
        /\ Place(u, b) /\ Proceed(u, "clean")
        /\ UNCHANGED <<latest, follows, stranded, overlapped>>
    BY DEF InstallBinary, UpdateInv, UpdateType
  <1>2. b \in Binaries /\ b.release = updater[u].new /\ b # NoBinary
    <2>1. updater[u].new \in Nat /\ binaries + 1 \in Nat
      BY <1>1 DEF Updates, UpdateInv, UpdateType
    <2>2. b \in Binaries /\ b.release = updater[u].new
      BY <2>1 DEF Installed, Binary, Binaries
    <2> QED BY <2>2, BinariesAreFiles
  <1> HIDE DEF b
  <1>3. /\ updater'[u] \in Updates /\ updater'[u].at = "clean"
        /\ updater'[u].new = updater[u].new /\ updater'[u].release = updater[u].release
        /\ updater'[u].file = updater[u].file
        /\ updater' = [updater EXCEPT ![u] = updater'[u]]
        /\ updater' \in [Updater -> Updates]
    BY <1>1, ProceedTo
  <1>4. UpdateType'
    BY <1>1, <1>2, <1>3 DEF UpdateInv, UpdateType, Place
  <1>5. ~overlapped => exe' = b /\ updater[u].new >= updater[u].release
    BY <1>1 DEF UpdateInv, OneUpdate, UpdateWorks, Place
  <1>6. ~overlapped => UpdateWorks(u)' /\ exe' # NoBinary
    BY <1>2, <1>3, <1>5 DEF UpdateWorks
  <1> QED BY <1>1, <1>3, <1>4, <1>6, UpdateMoves DEF Idle

LEMMA TakeBackKeeps ==
    ASSUME UpdateInv, NEW u \in Updater, TakeBack(u)
    PROVE  UpdateInv'
  <1>1. /\ updater[u].at = "install" /\ Proceed(u, "idle")
        /\ \/ backup # NoBinary /\ exe' = backup /\ backup' = NoBinary /\ UNCHANGED stranded
           \/ stranded' = TRUE /\ UNCHANGED <<exe, backup>>
        /\ UNCHANGED <<latest, follows, binaries, overlapped>>
    BY DEF TakeBack
  <1>2. /\ updater'[u] \in Updates /\ updater'[u].at = "idle"
        /\ updater'[u].new = updater[u].new /\ updater'[u].release = updater[u].release
        /\ updater'[u].file = updater[u].file
        /\ updater' = [updater EXCEPT ![u] = updater'[u]]
        /\ updater' \in [Updater -> Updates]
    BY <1>1, ProceedTo
  <1>3. UpdateType' /\ (stranded => stranded')
    <2>1. stranded \in BOOLEAN /\ (stranded' = stranded \/ stranded' = TRUE)
      BY <1>1 DEF UpdateInv, UpdateType
    <2>3. stranded' \in BOOLEAN /\ (stranded => stranded')
      BY <2>1, Zenon
    <2>2. exe' \in Binaries \cup {NoBinary} /\ backup' \in Binaries \cup {NoBinary}
      BY <1>1 DEF UpdateInv, UpdateType
    <2> QED BY <1>1, <1>2, <2>3, <2>2 DEF UpdateInv, UpdateType
  <1>4. ~overlapped => /\ UpdateWorks(u)'
                       /\ exe' # NoBinary \/ backup' # NoBinary
                       /\ ~stranded' => exe' # NoBinary
    BY <1>1, <1>2 DEF UpdateInv, UpdateType, OneUpdate, UpdateWorks
  <1> QED BY <1>1, <1>2, <1>3, <1>4, UpdateMoves DEF Idle

LEMMA RemoveBackupKeeps ==
    ASSUME UpdateInv, NEW u \in Updater, RemoveBackup(u)
    PROVE  UpdateInv'
  <1>1. /\ updater[u].at = "clean" /\ Proceed(u, "idle") /\ backup' \in {backup, NoBinary}
        /\ UNCHANGED <<exe, latest, follows, binaries, stranded, overlapped>>
    BY DEF RemoveBackup
  <1>2. /\ updater'[u] \in Updates /\ updater'[u].at = "idle"
        /\ updater'[u].new = updater[u].new /\ updater'[u].release = updater[u].release
        /\ updater'[u].file = updater[u].file
        /\ updater' = [updater EXCEPT ![u] = updater'[u]]
        /\ updater' \in [Updater -> Updates]
    BY <1>1, ProceedTo
  <1>3. UpdateType'
    BY <1>1, <1>2 DEF UpdateInv, UpdateType
  <1>4. ~overlapped => exe' # NoBinary /\ UpdateWorks(u)'
    BY <1>1, <1>2 DEF UpdateInv, OneUpdate, UpdateWorks
  <1> QED BY <1>1, <1>2, <1>3, <1>4, UpdateMoves DEF Idle

LEMMA UpdaterKilledKeeps ==
    ASSUME UpdateInv, NEW u \in Updater, UpdaterKilled(u)
    PROVE  UpdateInv'
  <1>1. /\ ~Idle(u) /\ Proceed(u, "idle")
        /\ stranded' = (stranded \/ updater[u].at = "install")
        /\ UNCHANGED <<exe, backup, latest, follows, binaries, overlapped>>
    BY DEF UpdaterKilled
  <1>2. /\ updater'[u] \in Updates /\ updater'[u].at = "idle"
        /\ updater'[u].new = updater[u].new /\ updater'[u].release = updater[u].release
        /\ updater'[u].file = updater[u].file
        /\ updater' = [updater EXCEPT ![u] = updater'[u]]
        /\ updater' \in [Updater -> Updates]
    BY <1>1, ProceedTo
  <1>3. UpdateType' /\ (stranded => stranded')
    BY <1>1, <1>2 DEF UpdateInv, UpdateType
  <1>5. /\ updater[u].at \in {"download", "aside", "install", "clean"}
        /\ ~stranded' => updater[u].at # "install"
    <2>1. updater[u].at \in {"idle", "download", "aside", "install", "clean"}
      BY DEF UpdateInv, UpdateType, Updates
    <2>2. ~stranded' => updater[u].at # "install"
      BY <1>1
    <2> QED BY <1>1, <2>1, <2>2 DEF Idle
  <1>4. ~overlapped => /\ UpdateWorks(u)'
                       /\ exe' # NoBinary \/ backup' # NoBinary
                       /\ ~stranded' => exe' # NoBinary
    BY <1>1, <1>2, <1>5 DEF UpdateInv, OneUpdate, UpdateWorks
  <1> QED BY <1>1, <1>2, <1>3, <1>4, UpdateMoves

LEMMA UpdateInitHolds == UpdateInit => UpdateInv
  <1> SUFFICES ASSUME UpdateInit PROVE UpdateInv
    OBVIOUS
  <1>1. exe \in Binaries /\ exe # NoBinary
    BY BinariesAreFiles DEF UpdateInit, Binary, Binaries
  <1>2. UpdateType
    BY <1>1 DEF UpdateInit, UpdateType, Updates
  <1> QED BY <1>1, <1>2 DEF UpdateInit, UpdateInv, OneUpdate, UpdateWorks, Idle

\* Whatever fails and whoever is killed, what is at the executable's name or set
\* aside is a whole, verified release.  Unless updates overlapped, one of the two
\* is there, and an executable is there after every update that was neither killed
\* between its renames nor failed to take its backup back.
THEOREM UpdateKeepsExecutable == UpdateSpec => []ExecutableKept
  <1>1. UpdateInit => UpdateInv
    BY UpdateInitHolds
  <1>2. UpdateInv /\ [UpdateNext]_updateVars => UpdateInv'
    <2> SUFFICES ASSUME UpdateInv, [UpdateNext]_updateVars PROVE UpdateInv'
      OBVIOUS
    <2>1. CASE Release
      BY <2>1 DEF Release, UpdateInv, UpdateType, OneUpdate, UpdateWorks, Idle
    <2>2. CASE UNCHANGED updateVars
      BY <2>2 DEF updateVars, UpdateInv, UpdateType, OneUpdate, UpdateWorks, Idle
    <2> QED BY <2>1, <2>2, CheckLatestKeeps, DownloadKeeps, SetAsideKeeps, InstallBinaryKeeps,
               TakeBackKeeps, RemoveBackupKeeps, UpdaterKilledKeeps DEF UpdateNext
  <1>3. UpdateInv => ExecutableKept
    <2> SUFFICES ASSUME UpdateInv PROVE ExecutableKept
      OBVIOUS
    <2>1. \A b \in {exe, backup} \ {NoBinary} : b.sound
      BY DEF UpdateInv, UpdateType, Binaries
    <2>2. ASSUME ~overlapped, NEW u \in Updater, ~Idle(u), exe # NoBinary
          PROVE  exe.release >= updater[u].release
      <3>1. updater[u] \in Updates /\ exe.release \in Nat
        BY <2>2 DEF UpdateInv, UpdateType, Binaries
      <3> QED BY <2>2, <3>1 DEF UpdateInv, OneUpdate, UpdateWorks, Idle, Updates
    <2> QED BY <2>1, <2>2 DEF ExecutableKept, UpdateInv, OneUpdate
  <1> QED BY <1>1, <1>2, <1>3, PTL DEF UpdateSpec

-------------------------------------------------------------------------------
(* Ignoring: the three ways to a file. *)

IgnoreType ==
    /\ ruleFile \in RuleFile
    /\ present \subseteq Tracked
    /\ tracked \in [Tracked -> {"none", "live", "deleted"}]
    /\ edited \in BOOLEAN

\* A recorder whose rules nobody touched goes by those in the file.
SameRules == loaded # NoRules /\ ~edited => loaded = ruleFile

IgnoreInv == IgnoreType /\ SameRules /\ WaysAgree

LEMMA WholePath ==
    ASSUME NEW p \in Tracked
    PROVE  /\ Len(p) \in Nat \ {0} /\ SubSeq(p, 1, Len(p)) = p
           /\ \A n \in 1 .. Len(p) : n # Len(p) => n < Len(p) /\ SubSeq(p, 1, n) \in Folders(p)
  <1>1. p \in Seq(STRING) /\ p # <<>>
    BY IgnoringConstants
  <1>2. Len(p) \in Nat /\ Len(p) # 0
    BY <1>1, EmptySeq, LenProperties
  <1>3. SubSeq(p, 1, Len(p)) = p
    BY <1>1, SubSeqFull
  <1>4. ASSUME NEW n \in 1 .. Len(p), n # Len(p)
        PROVE  n < Len(p) /\ n \in 1 .. Len(p) - 1
    BY <1>2, <1>4
  <1> QED BY <1>2, <1>3, <1>4 DEF Folders

\* No rule is asked about a restore's own file.
LEMMA TemporariesIgnored ==
    ASSUME NEW p \in Tracked, IsRestoreTemporary(p), NEW rules, NEW isDir
    PROVE  ShouldIgnore(rules, p, isDir)
  <1>1. Len(p) \in 1 .. Len(p) /\ SubSeq(p, 1, Len(p)) = p
    BY WholePath
  <1>2. \E n \in 1 .. Len(p) : IsRestoreTemporary(SubSeq(p, 1, n))
    <2>1. IsRestoreTemporary(SubSeq(p, 1, Len(p)))
      BY <1>1
    <2> QED BY <1>1, <2>1
  <1> QED BY <1>2 DEF ShouldIgnore

\* A walk meets what is in sight, and nothing that is ignored itself.
LEMMA WalkSees ==
    ASSUME NEW p \in Tracked, NEW rules
    PROVE  /\ Walked(rules, p) => ~ShouldIgnore(rules, p, FALSE)
           /\ (~RootIgnored(rules) /\ ~ShouldIgnore(rules, p, FALSE)
                 /\ \A f \in Folders(p) : ~ShouldIgnore(rules, f, TRUE)) => Walked(rules, p)
  <1>1. Len(p) \in 1 .. Len(p) /\ ~(Len(p) < Len(p))
    BY WholePath
  <1>2. ASSUME Walked(rules, p) PROVE ~ShouldIgnore(rules, p, FALSE)
    <2>1. ~ShouldIgnore(rules, SubSeq(p, 1, Len(p)), Len(p) < Len(p))
      BY <1>1, <1>2 DEF Walked
    <2>2. (Len(p) < Len(p)) = FALSE
      BY <1>1
    <2> QED BY <2>1, <2>2, WholePath
  <1>3. ASSUME ~RootIgnored(rules), ~ShouldIgnore(rules, p, FALSE),
               \A f \in Folders(p) : ~ShouldIgnore(rules, f, TRUE)
        PROVE  Walked(rules, p)
    <2> SUFFICES ASSUME NEW n \in 1 .. Len(p)
                 PROVE  ~ShouldIgnore(rules, SubSeq(p, 1, n), n < Len(p))
      BY <1>3 DEF Walked
    <2>1. CASE n = Len(p)
      <3>1. (n < Len(p)) = FALSE /\ SubSeq(p, 1, n) = p
        BY <2>1, <1>1, WholePath
      <3> QED BY <3>1, <1>3
    <2>2. CASE n # Len(p)
      <3>1. (n < Len(p)) = TRUE /\ SubSeq(p, 1, n) \in Folders(p)
        BY <2>2, WholePath
      <3> QED BY <3>1, <1>3
    <2> QED BY <2>1, <2>2
  <1> QED BY <1>2, <1>3

LEMMA ScannedAgrees ==
    ASSUME IgnoreType, NEW rules,
           \A p \in Tracked : IsRestoreTemporary(p) => tracked[p] = "none"
    PROVE  /\ Scanned(rules) \in [Tracked -> {"none", "live", "deleted"}]
           /\ \A p \in Tracked : IsRestoreTemporary(p) => Scanned(rules)[p] = "none"
           /\ \A p \in present :
                 (~RootIgnored(rules) /\ ~ShouldIgnore(rules, p, FALSE)
                    /\ \A f \in Folders(p) : ~ShouldIgnore(rules, f, TRUE))
                 => Scanned(rules)[p] = "live"
  <1> DEFINE seen == {p \in present : Walked(rules, p)}
  <1>1. Scanned(rules) = [p \in Tracked |-> IF p \in seen THEN "live"
                            ELSE IF tracked[p] = "live" /\ seen # {} THEN "deleted"
                            ELSE tracked[p]]
    BY DEF Scanned
  <1>2. \A p \in Tracked : IsRestoreTemporary(p) => p \notin seen
    BY TemporariesIgnored, WalkSees
  <1>3. \A p \in present :
            (~RootIgnored(rules) /\ ~ShouldIgnore(rules, p, FALSE)
               /\ \A f \in Folders(p) : ~ShouldIgnore(rules, f, TRUE)) => p \in seen
    BY WalkSees DEF IgnoreType
  <1> HIDE DEF seen
  <1>4. Scanned(rules) \in [Tracked -> {"none", "live", "deleted"}]
    BY <1>1 DEF IgnoreType
  <1>5. \A p \in present : p \in Tracked
    BY DEF IgnoreType
  <1> QED BY <1>1, <1>2, <1>3, <1>4, <1>5

LEMMA FoundAgrees ==
    ASSUME IgnoreType, NEW p \in Tracked, NEW rules
    PROVE  /\ Found(rules, p) \in {"none", "live", "deleted"}
           /\ IsRestoreTemporary(p) => Found(rules, p) = tracked[p]
           /\ ~ShouldIgnore(rules, p, FALSE) /\ p \in present' => Found(rules, p) = "live"
  BY TemporariesIgnored DEF IgnoreType, Found, Deleted

LEMMA NoticedAgrees ==
    ASSUME IgnoreInv, NEW changed \in SUBSET Tracked, Noticed(changed),
           present' \subseteq Tracked, present' \subseteq present \cup changed,
           UNCHANGED <<root, ruleFile, loaded, edited>>
    PROVE  IgnoreInv'
  <1>1. /\ ruleFile' = ruleFile /\ loaded' = loaded /\ edited' = edited
        /\ RootIgnored(loaded)' = RootIgnored(loaded)
        /\ \A p \in Tracked : InSight(p)' = InSight(p)
    BY DEF InSight, RootIgnored
  <1>2. CASE loaded = NoRules
    BY <1>1, <1>2 DEF IgnoreInv, IgnoreType, SameRules, WaysAgree, Noticed
  <1>3. CASE loaded # NoRules
    <2>1. tracked' = [p \in Tracked |-> IF p \in changed THEN Found(loaded, p) ELSE tracked[p]]
      BY <1>3 DEF Noticed
    <2>2. tracked' \in [Tracked -> {"none", "live", "deleted"}]
      BY <2>1, FoundAgrees DEF IgnoreInv, IgnoreType
    <2>3. \A p \in Tracked : IsRestoreTemporary(p) => tracked'[p] = "none"
      BY <2>1, FoundAgrees DEF IgnoreInv, WaysAgree
    <2>4. ASSUME ~edited, ~RootIgnored(loaded), NEW p \in present', InSight(p)
          PROVE  tracked'[p] = "live"
      <3>1. p \in Tracked /\ ~ShouldIgnore(loaded, p, FALSE)
        BY <2>4 DEF InSight
      <3>2. CASE p \in changed
        BY <3>1, <3>2, <2>1, FoundAgrees DEF IgnoreInv
      <3>3. CASE p \notin changed
        BY <3>1, <3>3, <2>1, <2>4, <1>3 DEF IgnoreInv, WaysAgree
      <3> QED BY <3>2, <3>3
    <2> QED BY <1>1, <2>2, <2>3, <2>4 DEF IgnoreInv, IgnoreType, SameRules, WaysAgree
  <1> QED BY <1>2, <1>3

LEMMA ScanKeeps ==
    ASSUME IgnoreInv, tracked' = Scanned(ruleFile), UNCHANGED <<root, ruleFile, present>>,
           \/ loaded' = ruleFile /\ edited' = FALSE
           \/ loaded' = loaded /\ edited' = edited
    PROVE  IgnoreInv'
  <1>1. /\ tracked' \in [Tracked -> {"none", "live", "deleted"}]
        /\ \A p \in Tracked : IsRestoreTemporary(p) => tracked'[p] = "none"
        /\ \A p \in present :
              (~RootIgnored(ruleFile) /\ ~ShouldIgnore(ruleFile, p, FALSE)
                 /\ \A f \in Folders(p) : ~ShouldIgnore(ruleFile, f, TRUE))
              => tracked'[p] = "live"
    BY ScannedAgrees DEF IgnoreInv, WaysAgree
  <1>2. SameRules' /\ IgnoreType'
    BY <1>1 DEF IgnoreInv, IgnoreType, SameRules
  <1>3. ASSUME loaded' # NoRules, ~edited', ~RootIgnored(loaded)',
               NEW p \in present', InSight(p)'
        PROVE  tracked'[p] = "live"
    <2>1. loaded' = ruleFile
      BY <1>2, <1>3 DEF SameRules
    <2>2. ~RootIgnored(ruleFile)
      BY <1>3, <2>1 DEF RootIgnored
    <2> QED BY <1>1, <1>3, <2>1, <2>2 DEF InSight
  <1> QED BY <1>1, <1>2, <1>3 DEF IgnoreInv, WaysAgree

LEMMA MoveFileKeeps ==
    ASSUME IgnoreInv, NEW old \in Tracked, NEW new \in Tracked, MoveFile(old, new)
    PROVE  IgnoreInv'
  <1>1. /\ old \in present /\ new # old /\ present' = (present \ {old}) \cup {new}
        /\ root' = root /\ ruleFile' = ruleFile /\ loaded' = loaded /\ edited' = edited
    BY DEF MoveFile
  <1>2. present' \subseteq Tracked
    BY <1>1 DEF IgnoreInv, IgnoreType
  <1>3. CASE Noticed({old, new})
    BY <1>1, <1>2, <1>3, NoticedAgrees
  <1>4. CASE /\ ~IsRestoreTemporary(old) /\ ~IsRestoreTemporary(new)
             /\ tracked' = [tracked EXCEPT ![old] = Deleted(old), ![new] = "live"]
    <2>1. \A p \in Tracked : tracked'[p] = IF p = new THEN "live"
                                          ELSE IF p = old THEN Deleted(old) ELSE tracked[p]
      BY <1>4, <1>1 DEF IgnoreInv, IgnoreType
    <2>2. tracked' \in [Tracked -> {"none", "live", "deleted"}]
      BY <1>4 DEF IgnoreInv, IgnoreType, Deleted
    <2>3. \A p \in Tracked : IsRestoreTemporary(p) => tracked'[p] = "none"
      BY <1>4, <2>1 DEF IgnoreInv, WaysAgree
    <2>4. ASSUME loaded' # NoRules, ~edited', ~RootIgnored(loaded)',
                 NEW p \in present', InSight(p)'
          PROVE  tracked'[p] = "live"
      <3>1. InSight(p) /\ p \in Tracked /\ ~RootIgnored(loaded)
        BY <2>4, <1>1, <1>2 DEF InSight, RootIgnored
      <3> QED BY <3>1, <2>4, <2>1, <1>1 DEF IgnoreInv, WaysAgree
    <2> QED BY <1>1, <1>2, <2>2, <2>3, <2>4 DEF IgnoreInv, IgnoreType, SameRules, WaysAgree
  <1> QED BY <1>3, <1>4 DEF MoveFile

\* While the rules are the ones the recorder started with and do not hide the
\* project's own folder from scans, no scan, report or notification loses a file
\* that is in sight, and nothing ever records a file
\* that a restore stages or sets aside.
THEOREM WaysStayAgreed == IgnoreSpec => []WaysAgree
  <1>1. IgnoreInit => IgnoreInv
    BY IgnoringConstants DEF IgnoreInit, IgnoreInv, IgnoreType, SameRules, WaysAgree
  <1>2. IgnoreInv /\ [IgnoreNext]_ignoreVars => IgnoreInv'
    <2> SUFFICES ASSUME IgnoreInv, [IgnoreNext]_ignoreVars PROVE IgnoreInv'
      OBVIOUS
    <2>1. CASE EditRules
      BY <2>1 DEF EditRules, IgnoreInv, IgnoreType, SameRules, WaysAgree
    <2>2. CASE StartRecorder
      BY <2>2, ScanKeeps DEF StartRecorder
    <2>3. CASE StopRecorder
      BY <2>3 DEF StopRecorder, IgnoreInv, IgnoreType, SameRules, WaysAgree
    <2>4. CASE SyncByCommand
      BY <2>4, ScanKeeps DEF SyncByCommand
    <2>5. ASSUME NEW p \in Tracked, WriteFile(p) PROVE IgnoreInv'
      <3>1. {p} \in SUBSET Tracked /\ present' \subseteq Tracked /\ present' \subseteq present \cup {p}
        BY <2>5 DEF WriteFile, IgnoreInv, IgnoreType
      <3> QED BY <2>5, <3>1, NoticedAgrees DEF WriteFile
    <2>6. ASSUME NEW p \in Tracked, RemoveFile(p) PROVE IgnoreInv'
      <3>1. {p} \in SUBSET Tracked /\ present' \subseteq Tracked /\ present' \subseteq present \cup {p}
        BY <2>6 DEF RemoveFile, IgnoreInv, IgnoreType
      <3> QED BY <2>6, <3>1, NoticedAgrees DEF RemoveFile
    <2>7. ASSUME NEW p \in Tracked, ReportPath(p) PROVE IgnoreInv'
      <3>1. /\ loaded # NoRules /\ root' = root /\ ruleFile' = ruleFile /\ loaded' = loaded
            /\ edited' = edited /\ present' = present
            /\ tracked' = [tracked EXCEPT ![p] = Found(ruleFile, p)]
        BY <2>7 DEF ReportPath
      <3>2. tracked' \in [Tracked -> {"none", "live", "deleted"}]
        BY <3>1, FoundAgrees DEF IgnoreInv, IgnoreType
      <3>3. \A q \in Tracked : tracked'[q] = IF q = p THEN Found(ruleFile, p) ELSE tracked[q]
        BY <3>1 DEF IgnoreInv, IgnoreType
      <3>4. \A q \in Tracked : IsRestoreTemporary(q) => tracked'[q] = "none"
        BY <3>3, FoundAgrees DEF IgnoreInv, WaysAgree
      <3>5. ASSUME ~edited, ~RootIgnored(loaded)', NEW q \in present', InSight(q)'
            PROVE  tracked'[q] = "live"
        <4>1. InSight(q) /\ q \in Tracked /\ loaded = ruleFile /\ ~RootIgnored(loaded)
          BY <3>5, <3>1 DEF InSight, RootIgnored, IgnoreInv, IgnoreType, SameRules
        <4>2. ~ShouldIgnore(ruleFile, q, FALSE)
          BY <4>1 DEF InSight
        <4>3. CASE q = p
          BY <4>1, <4>2, <4>3, <3>5, <3>3, FoundAgrees DEF IgnoreInv
        <4>4. CASE q # p
          BY <4>1, <4>4, <3>5, <3>1, <3>3 DEF IgnoreInv, WaysAgree
        <4> QED BY <4>3, <4>4
      <3> QED BY <3>1, <3>2, <3>4, <3>5 DEF IgnoreInv, IgnoreType, SameRules, WaysAgree
    <2>8. CASE UNCHANGED ignoreVars
      BY <2>8 DEF ignoreVars, IgnoreInv, IgnoreType, SameRules, WaysAgree, InSight, RootIgnored
    <2> QED BY <2>1, <2>2, <2>3, <2>4, <2>5, <2>6, <2>7, <2>8, MoveFileKeeps DEF IgnoreNext
  <1>3. IgnoreInv => WaysAgree
    BY DEF IgnoreInv
  <1> QED BY <1>1, <1>2, <1>3, PTL DEF IgnoreSpec

-------------------------------------------------------------------------------
(* Migration: opening the database. *)

Openers == [at: {"closed", "tables", "columns", "alter", "layout", "rebuild", "indexes",
                 "status", "windows", "open"},
            column: 1..4, read: {0, 4, Current}]
SchemaType == SchemaTypeOK /\ opener \in [Opener -> Openers]

StatusesTrue == \A r \in SchemaRun : sessions[r].status = "active" => sessions[r].state = "active"

\* What is in the database once an opener has come this far; nobody takes it away.
Made(p) ==
    /\ opener[p].at = "tables" => opener[p].column = 1
    /\ opener[p].at \notin {"closed", "tables"} => tables = AllTables
    /\ opener[p].at \in {"columns", "alter"} =>
          \A i \in 1..3 : i < opener[p].column => Columns[i] \in columns
    /\ opener[p].at = "alter" => opener[p].column <= 3
    /\ opener[p].at \in {"layout", "rebuild", "indexes", "status", "windows", "open"} =>
          columns = AllColumns
    /\ opener[p].at \in {"indexes", "status", "windows", "open"} => layout = "run"
    /\ opener[p].at \in {"windows", "open"} => StatusesTrue
Progress == /\ "checkpoints" \in tables => layout # "none"
            /\ \A p \in Opener : Made(p)

\* A Run claims nothing but what it owns, and all of it at version 5; a fence is
\* never ahead of the events.
Claims(r) ==
    /\ sessions[r].claimed \subseteq Owned(sessions[r])
    /\ sessions[r].state = "none" => sessions[r].status # "active"
    /\ sessions[r].end # NoValue => sessions[r].end <= lastFileEvent
    /\ sessions[r].state # "ended" => sessions[r].end = NoValue
    /\ version = Current /\ sessions[r].state = "ended" =>
          Owned(sessions[r]) \subseteq sessions[r].claimed
Claimed == \A r \in SchemaRun : Claims(r)

SchemaInv == SchemaType /\ Progress /\ Claimed /\ NamesAreUnique

LEMMA Lists ==
    /\ DOMAIN Tables = 1..3 /\ Len(Columns) = 3
    /\ Tables[1] = "checkpoints" /\ Tables[2] = "sessions" /\ Tables[3] = "session_events"
    /\ Columns[1] = "end_event_id" /\ Columns[2] = "status" /\ Columns[3] = "event_id"
    /\ AllTables = {"checkpoints", "sessions", "session_events"}
    /\ AllColumns = {"end_event_id", "status", "event_id"}
  <1>1. /\ DOMAIN Tables = 1..3 /\ Len(Columns) = 3 /\ DOMAIN Columns = 1..3
        /\ Tables[1] = "checkpoints" /\ Tables[2] = "sessions" /\ Tables[3] = "session_events"
        /\ Columns[1] = "end_event_id" /\ Columns[2] = "status" /\ Columns[3] = "event_id"
    BY DEF Tables, Columns
  <1>2. 1..3 = {1, 2, 3}
    OBVIOUS
  <1>3. AllTables = {"checkpoints", "sessions", "session_events"}
    BY <1>1, <1>2 DEF AllTables
  <1>4. AllColumns = {"end_event_id", "status", "event_id"}
    BY <1>1, <1>2 DEF AllColumns
  <1> QED BY <1>1, <1>3, <1>4

\* A nonempty set of natural numbers has a least element ...
LEMMA MinIsLeast ==
    ASSUME NEW S \in SUBSET Nat, S # {}
    PROVE  Min(S) \in S /\ \A y \in S : Min(S) <= y
  <1> DEFINE Less == {ss \in Nat \X Nat : ss[1] < ss[2]}
  <1>1. IsWellFoundedOn(Less, Nat)
    BY NatLessThanWellFounded DEF OpToRel
  <1> HIDE DEF Less
  <1>2. PICK x \in S : \A y \in S : <<y, x>> \notin Less
    BY <1>1, WFMin
  <1>3. ASSUME NEW y \in S PROVE x <= y
    <2>1. y < x => <<y, x>> \in Less
      BY DEF Less
    <2> QED BY <1>2, <2>1
  <1>4. \E k \in S : \A y \in S : k <= y
    BY <1>3
  <1> QED BY <1>4 DEF Min

\* ... and a greatest one if it has a bound.
LEMMA MaxIsGreatest ==
    ASSUME NEW S \in SUBSET Nat, S # {}, NEW b \in Nat, \A x \in S : x <= b
    PROVE  Max(S) \in S /\ \A y \in S : y <= Max(S)
  <1> DEFINE Bounds == {k \in Nat : \A x \in S : x <= k}
             least == Min(Bounds)
  <1>1. Bounds \in SUBSET Nat /\ b \in Bounds
    OBVIOUS
  <1>2. least \in Bounds /\ \A k \in Bounds : least <= k
    <2> HIDE DEF Bounds
    <2> QED BY <1>1, MinIsLeast
  <1>3. least \in S
    <2> SUFFICES ASSUME least \notin S PROVE FALSE
      OBVIOUS
    <2>1. PICK x \in S : TRUE
      OBVIOUS
    <2>2. least \in Nat /\ \A y \in S : y <= least
      BY <1>2
    <2>3. least # 0
      BY <2>1, <2>2
    <2>4. least - 1 \in Nat /\ \A y \in S : y <= least - 1
      BY <2>2, <2>3
    <2>5. least - 1 \in Bounds
      BY <2>4
    <2>6. least <= least - 1
      BY <1>2, <2>5
    <2> HIDE DEF least
    <2> QED BY <2>2, <2>6
  <1>4. \E k \in S : \A y \in S : k >= y
    <2>1. \A y \in S : least >= y
      BY <1>2
    <2> QED BY <1>3, <2>1
  <1> HIDE DEF Bounds, least
  <1> QED BY <1>4 DEF Max

\* What an opener does changes nothing for the others.
LEMMA OpenerMoves ==
    ASSUME SchemaInv, NEW p \in Opener, NEW w \in Openers,
           opener' = [opener EXCEPT ![p] = w]
    PROVE  /\ opener' \in [Opener -> Openers] /\ opener'[p] = w
           /\ \A q \in Opener : q # p => opener'[q] = opener[q]
  BY DEF SchemaInv, SchemaType

LEMMA ProceedsTo ==
    ASSUME SchemaInv, NEW p \in Opener, NEW at, Proceeds(p, at),
           at \in {"closed", "tables", "columns", "alter", "layout", "rebuild", "indexes",
                   "status", "windows", "open"}
    PROVE  /\ opener' \in [Opener -> Openers]
           /\ opener'[p].at = at /\ opener'[p].column = opener[p].column
           /\ opener'[p].read = opener[p].read
           /\ \A q \in Opener : q # p => opener'[q] = opener[q]
  BY DEF SchemaInv, SchemaType, Openers, Proceeds

LEMMA OthersMade ==
    ASSUME SchemaInv, NEW p \in Opener,
           \A q \in Opener : q # p => opener'[q] = opener[q],
           tables \subseteq tables', tables' \subseteq AllTables,
           columns \subseteq columns', columns' \subseteq AllColumns,
           layout = "run" => layout' = "run",
           StatusesTrue /\ columns = AllColumns => StatusesTrue'
    PROVE  \A q \in Opener : q # p => Made(q)'
  <1> SUFFICES ASSUME NEW q \in Opener, q # p PROVE Made(q)'
    OBVIOUS
  <1>1. Made(q) /\ opener'[q] = opener[q]
    BY DEF SchemaInv, Progress
  <1>2. columns' = AllColumns \/ columns # AllColumns
    OBVIOUS
  <1> QED BY <1>1, <1>2 DEF Made

\* A step of one opener that leaves the rows as they are.
LEMMA SchemaMoves ==
    ASSUME SchemaInv, NEW p \in Opener,
           opener' \in [Opener -> Openers],
           \A q \in Opener : q # p => opener'[q] = opener[q],
           UNCHANGED <<version, checkpoints, copied, sessions, fileEvents, lastFileEvent>>,
           tables \subseteq tables', tables' \subseteq AllTables,
           columns \subseteq columns', columns' \subseteq AllColumns,
           layout' \in {"none", "project", "run"},
           layout = "run" => layout' = "run",
           "checkpoints" \in tables' => layout' # "none",
           indexes' \in BOOLEAN, failures' \in 0..MaxFailures,
           Made(p)'
    PROVE  SchemaInv'
  <1>1. /\ version' = version /\ checkpoints' = checkpoints /\ copied' = copied
        /\ sessions' = sessions /\ fileEvents' = fileEvents /\ lastFileEvent' = lastFileEvent
    OBVIOUS
  <1>2. SchemaType'
    BY <1>1 DEF SchemaInv, SchemaType, SchemaTypeOK
  <1>3. StatusesTrue => StatusesTrue'
    BY <1>1 DEF StatusesTrue
  <1>4. \A q \in Opener : q # p => Made(q)'
    BY <1>3, OthersMade
  <1>5. Claimed' /\ NamesAreUnique'
    BY <1>1 DEF SchemaInv, Claimed, Claims, Owned, NamesAreUnique
  <1> QED BY <1>2, <1>4, <1>5 DEF SchemaInv, Progress

LEMMA OpenKeeps == ASSUME SchemaInv, NEW p \in Opener, Open(p) PROVE SchemaInv'
  <1> DEFINE w == [at |-> "tables", column |-> 1, read |-> version]
  <1>1. w \in Openers
    BY DEF Open, SchemaInv, SchemaType, SchemaTypeOK, Openers, Current
  <1>2. /\ opener' \in [Opener -> Openers] /\ opener'[p] = w
        /\ \A q \in Opener : q # p => opener'[q] = opener[q]
    BY <1>1, OpenerMoves DEF Open
  <1>3. Made(p)'
    BY <1>2 DEF Made
  <1>4. UNCHANGED <<version, tables, columns, layout, indexes, checkpoints, copied,
                    sessions, fileEvents, lastFileEvent, failures>>
    BY DEF Open, database, tableRows
  <1> HIDE DEF w
  <1> QED BY <1>2, <1>3, <1>4, SchemaMoves DEF SchemaInv, SchemaType, SchemaTypeOK, Progress

LEMMA CreateTablesKeeps == ASSUME SchemaInv, NEW p \in Opener, CreateTables(p) PROVE SchemaInv'
  <1> DEFINE missing == {i \in DOMAIN Tables : Tables[i] \notin tables}
  <1>1. UNCHANGED <<version, indexes, checkpoints, copied, sessions, fileEvents,
                    lastFileEvent, failures>>
    BY DEF CreateTables, tableRows
  <1>2. tables \subseteq AllTables /\ columns \subseteq AllColumns /\ opener[p] \in Openers
    BY DEF SchemaInv, SchemaType, SchemaTypeOK
  <1>3. CASE missing = {}
    <2>1. /\ Proceeds(p, "columns")
          /\ UNCHANGED <<tables, columns, layout>>
      BY <1>3 DEF CreateTables
    <2>2. tables = AllTables
      BY <1>3, <1>2 DEF AllTables
    <2>3. /\ opener' \in [Opener -> Openers]
          /\ opener'[p].at = "columns" /\ opener'[p].column = opener[p].column
          /\ \A q \in Opener : q # p => opener'[q] = opener[q]
      BY <2>1, ProceedsTo
    <2>4. opener[p].column = 1
      BY DEF CreateTables, SchemaInv, Progress, Made
    <2>5. Made(p)'
      BY <2>1, <2>2, <2>3, <2>4 DEF Made
    <2> QED BY <1>1, <1>2, <2>1, <2>3, <2>5, SchemaMoves
            DEF SchemaInv, SchemaType, SchemaTypeOK, Progress
  <1>4. CASE missing # {}
    <2> DEFINE i == Min(missing)
               t == Tables[i]
    <2>1. i \in missing
      <3>1. missing \in SUBSET Nat
        BY Lists
      <3> HIDE DEF missing
      <3> QED BY <1>4, <3>1, MinIsLeast
    <2>2. t \in AllTables
      BY <2>1 DEF AllTables
    <2>3. /\ tables' = tables \cup {t} /\ columns' = columns \cup ColumnsOf(t)
          /\ layout' = IF t = "checkpoints" THEN "run" ELSE layout
          /\ opener' = opener
      BY <1>4 DEF CreateTables
    <2> HIDE DEF missing, i, t
    <2>4. ColumnsOf(t) \subseteq AllColumns
      BY <2>2, Lists DEF ColumnsOf
    <2>5. Made(p)'
      BY <2>3 DEF CreateTables, Made, SchemaInv, Progress
    <2> QED BY <1>1, <1>2, <2>2, <2>3, <2>4, <2>5, SchemaMoves
            DEF SchemaInv, SchemaType, SchemaTypeOK, Progress
  <1> QED BY <1>3, <1>4

LEMMA LookForColumnKeeps == ASSUME SchemaInv, NEW p \in Opener, LookForColumn(p) PROVE SchemaInv'
  <1> DEFINE c == opener[p].column
             w == IF c > 3 THEN [opener[p] EXCEPT !.at = "layout"]
                  ELSE IF Columns[c] \in columns THEN [opener[p] EXCEPT !.column = c + 1]
                  ELSE [opener[p] EXCEPT !.at = "alter"]
  <1>1. opener[p] \in Openers /\ opener[p].at = "columns" /\ Made(p)
    BY DEF LookForColumn, SchemaInv, SchemaType, Progress
  <1>2. opener' = [opener EXCEPT ![p] = w]
    BY Lists DEF LookForColumn
  <1>3. w \in Openers
    BY <1>1 DEF Openers
  <1>4. /\ opener' \in [Opener -> Openers] /\ opener'[p] = w
        /\ \A q \in Opener : q # p => opener'[q] = opener[q]
    BY <1>2, <1>3, OpenerMoves
  <1>5. UNCHANGED <<version, tables, columns, layout, indexes, checkpoints, copied,
                    sessions, fileEvents, lastFileEvent, failures>>
    BY DEF LookForColumn, database, tableRows
  <1>6. c \in 1..4 /\ columns \subseteq AllColumns
    BY <1>1 DEF Openers, SchemaInv, SchemaType, SchemaTypeOK
  <1>7. Made(p)'
    <2>1. CASE c > 3
      <3>1. Columns[1] \in columns /\ Columns[2] \in columns /\ Columns[3] \in columns
        BY <1>1, <1>6, <2>1 DEF Made
      <3>2. columns = AllColumns
        BY <3>1, <1>6, Lists
      <3>3. opener'[p].at = "layout"
        BY <2>1, <1>4, <1>1 DEF Openers
      <3> QED BY <3>2, <3>3, <1>1, <1>5 DEF Made
    <2>2. CASE ~(c > 3) /\ Columns[c] \in columns
      <3>1. opener'[p].at = "columns" /\ opener'[p].column = c + 1
        BY <2>2, <1>4, <1>1 DEF Openers
      <3>2. \A i \in 1..3 : i < c + 1 => Columns[i] \in columns
        BY <1>1, <1>6, <2>2 DEF Made
      <3> HIDE DEF c, w
      <3> QED BY <3>1, <3>2, <1>1, <1>5 DEF Made
    <2>3. CASE ~(c > 3) /\ Columns[c] \notin columns
      <3>1. opener'[p].at = "alter" /\ opener'[p].column = c
        BY <2>3, <1>4, <1>1 DEF Openers
      <3>2. c <= 3
        BY <1>6, <2>3
      <3> QED BY <3>1, <3>2, <1>1, <1>5 DEF Made
    <2> QED BY <2>1, <2>2, <2>3
  <1> HIDE DEF c, w
  <1> QED BY <1>4, <1>5, <1>7, SchemaMoves DEF SchemaInv, SchemaType, SchemaTypeOK, Progress

\* A new column gives the rows nothing they claim.
LEMMA AddColumnKeeps == ASSUME SchemaInv, NEW p \in Opener, AddColumn(p) PROVE SchemaInv'
  <1> DEFINE c == Columns[opener[p].column]
             w == [at |-> "columns", column |-> opener[p].column + 1, read |-> opener[p].read]
  <1>1. /\ opener[p] \in Openers /\ opener[p].at = "alter" /\ Made(p)
        /\ opener[p].column \in 1..3
    BY DEF AddColumn, SchemaInv, SchemaType, Progress, Made, Openers
  <1>2. w \in Openers /\ w.at = "columns" /\ w.column = opener[p].column + 1
    <2>2. opener[p].column + 1 \in 1..4 /\ opener[p].read \in {0, 4, Current}
      BY <1>1 DEF Openers
    <2> QED BY <2>2 DEF Openers
  <1>3. opener' = [opener EXCEPT ![p] = w]
    BY <1>1 DEF AddColumn, Openers, SchemaInv, SchemaType
  <1>4. /\ opener' \in [Opener -> Openers] /\ opener'[p] = w
        /\ \A q \in Opener : q # p => opener'[q] = opener[q]
    BY <1>2, <1>3, OpenerMoves
  <1>5. /\ c \in AllColumns /\ c \notin columns /\ columns' = columns \cup {c}
        /\ sessions' = [r \in SchemaRun |->
               IF c = "status" /\ sessions[r].state # "none"
               THEN [sessions[r] EXCEPT !.status = "active"] ELSE sessions[r]]
        /\ UNCHANGED <<version, tables, layout, indexes, checkpoints, copied,
                       fileEvents, lastFileEvent, failures>>
    BY <1>1, Lists DEF AddColumn
  <1>6. \A i \in 1..3 : i < w.column => Columns[i] \in columns'
    BY <1>1, <1>2, <1>5 DEF Made
  <1> HIDE DEF c, w
  <1>7. SchemaType'
    <2>1. \A r \in SchemaRun : sessions[r] \in Session
      BY DEF SchemaInv, SchemaType, SchemaTypeOK
    <2>2. sessions' \in [SchemaRun -> Session]
      <3>1. \A r \in SchemaRun : [sessions[r] EXCEPT !.status = "active"] \in Session
        BY <2>1 DEF Session
      <3> QED BY <1>5, <2>1, <3>1
    <2> QED BY <1>4, <1>5, <2>2 DEF SchemaInv, SchemaType, SchemaTypeOK
  <1>8. \A r \in SchemaRun : /\ sessions'[r].state = sessions[r].state
                             /\ sessions'[r].start = sessions[r].start
                             /\ sessions'[r].end = sessions[r].end
                             /\ sessions'[r].claimed = sessions[r].claimed
    <2> SUFFICES ASSUME NEW r \in SchemaRun
                 PROVE /\ sessions'[r].state = sessions[r].state
                       /\ sessions'[r].start = sessions[r].start
                       /\ sessions'[r].end = sessions[r].end
                       /\ sessions'[r].claimed = sessions[r].claimed
      OBVIOUS
    <2>1. sessions[r] \in Session
      BY DEF SchemaInv, SchemaType, SchemaTypeOK
    <2> QED BY <1>5, <2>1 DEF Session
  <1>9. Claimed'
    BY <1>5, <1>8 DEF SchemaInv, Claimed, Claims, Owned
  <1>10. NamesAreUnique'
    BY <1>5 DEF SchemaInv, NamesAreUnique
  <1>11. Progress'
    <2>1. Made(p)'
      BY <1>1, <1>2, <1>4, <1>5, <1>6 DEF Made
    <2>2. columns # AllColumns /\ columns' \subseteq AllColumns /\ tables' \subseteq AllTables
      BY <1>5 DEF SchemaInv, SchemaType, SchemaTypeOK
    <2>3. \A q \in Opener : q # p => Made(q)'
      BY <1>4, <1>5, <2>2, OthersMade
    <2> QED BY <1>5, <2>1, <2>3 DEF Progress, SchemaInv
  <1> QED BY <1>7, <1>9, <1>10, <1>11 DEF SchemaInv

LEMMA BackOutKeeps ==
    ASSUME SchemaInv, NEW p \in Opener, AddColumnTwice(p) \/ Fails(p) \/ Close(p)
    PROVE  SchemaInv'
  <1>1. /\ Proceeds(p, "closed")
        /\ UNCHANGED <<version, tables, columns, layout, indexes, checkpoints, copied,
                       sessions, fileEvents, lastFileEvent>>
    BY DEF AddColumnTwice, Fails, Close, database, tableRows
  <1>2. failures' \in 0..MaxFailures
    BY SchemaConstants
       DEF AddColumnTwice, Fails, Close, SchemaInv, SchemaType, SchemaTypeOK
  <1>3. /\ opener' \in [Opener -> Openers] /\ opener'[p].at = "closed"
        /\ \A q \in Opener : q # p => opener'[q] = opener[q]
    BY <1>1, ProceedsTo
  <1>4. Made(p)'
    BY <1>3 DEF Made
  <1> QED BY <1>1, <1>2, <1>3, <1>4, SchemaMoves
          DEF SchemaInv, SchemaType, SchemaTypeOK, Progress

LEMMA LayoutKeeps ==
    ASSUME SchemaInv, NEW p \in Opener, LookAtLayout(p) \/ Rebuild(p) \/ CreateIndexes(p)
    PROVE  SchemaInv'
  <1>1. /\ UNCHANGED <<version, tables, columns, checkpoints, copied,
                       sessions, fileEvents, lastFileEvent, failures>>
        /\ opener[p].at \in {"layout", "rebuild", "indexes"}
    BY DEF LookAtLayout, Rebuild, CreateIndexes, database, tableRows
  <1>2. Made(p) /\ ("checkpoints" \in tables => layout # "none")
        /\ layout \in {"none", "project", "run"} /\ indexes \in BOOLEAN
    BY DEF SchemaInv, Progress, SchemaType, SchemaTypeOK
  <1>3. tables = AllTables /\ columns = AllColumns /\ layout # "none"
    BY <1>1, <1>2, Lists DEF Made
  <1>4. CASE LookAtLayout(p)
    <2>1. /\ Proceeds(p, IF layout = "project" THEN "rebuild" ELSE "indexes")
          /\ UNCHANGED <<layout, indexes>>
      BY <1>4 DEF LookAtLayout, database
    <2>2. /\ opener' \in [Opener -> Openers]
          /\ opener'[p].at = IF layout = "project" THEN "rebuild" ELSE "indexes"
          /\ \A q \in Opener : q # p => opener'[q] = opener[q]
      BY <2>1, ProceedsTo
    <2>3. Made(p)'
      BY <1>1, <1>2, <1>3, <2>1, <2>2 DEF Made
    <2> QED BY <1>1, <1>2, <2>1, <2>2, <2>3, SchemaMoves
            DEF SchemaInv, SchemaType, SchemaTypeOK
  <1>5. CASE Rebuild(p) \/ CreateIndexes(p)
    <2>1. layout' = "run" /\ indexes' \in BOOLEAN
      BY <1>1, <1>2, <1>5 DEF Rebuild, CreateIndexes, Made
    <2>2. Proceeds(p, "indexes") \/ Proceeds(p, "status")
      BY <1>5 DEF Rebuild, CreateIndexes
    <2>3. /\ opener' \in [Opener -> Openers]
          /\ opener'[p].at \in {"indexes", "status"}
          /\ \A q \in Opener : q # p => opener'[q] = opener[q]
      BY <2>2, ProceedsTo
    <2>4. Made(p)'
      BY <1>1, <1>3, <2>1, <2>3 DEF Made
    <2> QED BY <1>1, <2>1, <2>3, <2>4, SchemaMoves DEF SchemaInv, SchemaType, SchemaTypeOK
  <1> QED BY <1>4, <1>5
\* The steps that touch the rows of sessions, and those that touch the events.
LEMMA SessionsMove ==
    ASSUME SchemaInv, NEW p \in Opener,
           opener' \in [Opener -> Openers],
           \A q \in Opener : q # p => opener'[q] = opener[q],
           UNCHANGED <<tables, columns, layout, indexes, checkpoints, copied, failures>>,
           version' \in {version, Current},
           lastFileEvent' \in 0..MaxFileEvents, fileEvents' \subseteq 1..lastFileEvent',
           sessions' \in [SchemaRun -> Session],
           StatusesTrue => StatusesTrue',
           Claimed', Made(p)'
    PROVE  SchemaInv'
  <1>1. SchemaType'
    BY DEF SchemaInv, SchemaType, SchemaTypeOK
  <1>2. tables \subseteq AllTables /\ columns \subseteq AllColumns
    BY DEF SchemaInv, SchemaType, SchemaTypeOK
  <1>3. \A q \in Opener : q # p => Made(q)'
    BY <1>2, OthersMade
  <1>4. NamesAreUnique'
    BY DEF SchemaInv, NamesAreUnique
  <1> QED BY <1>1, <1>3, <1>4 DEF SchemaInv, Progress

LEMMA SessionTyped ==
    ASSUME SchemaInv, NEW r \in SchemaRun
    PROVE  /\ sessions[r] \in Session /\ Claims(r)
           /\ sessions[r].claimed \subseteq 1..MaxFileEvents
           /\ Owned(sessions[r]) \subseteq 1..MaxFileEvents
           /\ Owned(sessions[r]) \subseteq fileEvents
  <1>1. /\ sessions[r] \in Session /\ Claims(r) /\ fileEvents \subseteq 1..lastFileEvent
        /\ lastFileEvent \in 0..MaxFileEvents
    BY DEF SchemaInv, SchemaType, SchemaTypeOK, Claimed
  <1>2. fileEvents \subseteq 1..MaxFileEvents
    BY <1>1, SchemaConstants
  <1> QED BY <1>1, <1>2 DEF Session, Owned

LEMMA RepairStatusKeeps == ASSUME SchemaInv, NEW p \in Opener, RepairStatus(p) PROVE SchemaInv'
  <1> DEFINE next == IF opener[p].read < Current THEN "windows" ELSE "open"
  <1>1. /\ sessions' = [r \in SchemaRun |->
               IF sessions[r].state = "ended" /\ sessions[r].status = "active"
               THEN [sessions[r] EXCEPT !.status = "completed"] ELSE sessions[r]]
        /\ Proceeds(p, next) /\ next \in {"windows", "open"} /\ opener[p].at = "status"
        /\ UNCHANGED <<version, tables, columns, layout, indexes, checkpoints, copied,
                       fileEvents, lastFileEvent, failures>>
    BY DEF RepairStatus, database
  <1> HIDE DEF next
  <1>2. /\ opener' \in [Opener -> Openers] /\ opener'[p].at \in {"windows", "open"}
        /\ \A q \in Opener : q # p => opener'[q] = opener[q]
    BY <1>1, ProceedsTo
  <1>3. \A r \in SchemaRun : /\ sessions'[r] \in Session
                             /\ sessions'[r].state = sessions[r].state
                             /\ sessions'[r].start = sessions[r].start
                             /\ sessions'[r].end = sessions[r].end
                             /\ sessions'[r].claimed = sessions[r].claimed
                             /\ sessions'[r].status = IF sessions[r].state = "ended"
                                                         /\ sessions[r].status = "active"
                                                      THEN "completed" ELSE sessions[r].status
    <2> SUFFICES ASSUME NEW r \in SchemaRun
                 PROVE  /\ sessions'[r] \in Session
                        /\ sessions'[r].state = sessions[r].state
                        /\ sessions'[r].start = sessions[r].start
                        /\ sessions'[r].end = sessions[r].end
                        /\ sessions'[r].claimed = sessions[r].claimed
                        /\ sessions'[r].status = IF sessions[r].state = "ended"
                                                    /\ sessions[r].status = "active"
                                                 THEN "completed" ELSE sessions[r].status
      OBVIOUS
    <2>1. sessions[r] \in Session
      BY SessionTyped
    <2> QED BY <1>1, <2>1 DEF Session
  <1>4. sessions' \in [SchemaRun -> Session]
    BY <1>1, <1>3
  <1>5. Claimed'
    BY <1>1, <1>3 DEF SchemaInv, Claimed, Claims, Owned
  <1>6. StatusesTrue'
    <2> SUFFICES ASSUME NEW r \in SchemaRun, sessions'[r].status = "active"
                 PROVE  sessions'[r].state = "active"
      BY DEF StatusesTrue
    <2>1. sessions[r].state \in {"none", "active", "ended"}
      BY SessionTyped DEF Session
    <2>2. sessions[r].status = "active" /\ sessions[r].state # "ended"
      BY <1>3
    <2>3. sessions[r].state # "none"
      BY <2>2 DEF SchemaInv, Claimed, Claims
    <2> QED BY <1>3, <2>1, <2>2, <2>3
  <1>7. Made(p)'
    BY <1>1, <1>2, <1>6 DEF Made, SchemaInv, Progress
  <1> QED BY <1>1, <1>2, <1>4, <1>5, <1>6, <1>7, SessionsMove
          DEF SchemaInv, SchemaType, SchemaTypeOK
LEMMA RepairWindowsKeeps ==
    ASSUME SchemaInv, NEW p \in Opener, RepairWindows(p) PROVE SchemaInv'
  <1>1. /\ ClaimOwned /\ version' = Current /\ Proceeds(p, "open") /\ opener[p].at = "windows"
        /\ UNCHANGED <<tables, columns, layout, indexes, checkpoints, copied,
                       fileEvents, lastFileEvent, failures>>
    BY DEF RepairWindows
  <1>2. /\ opener' \in [Opener -> Openers] /\ opener'[p].at = "open"
        /\ \A q \in Opener : q # p => opener'[q] = opener[q]
    BY <1>1, ProceedsTo
  <1>3. \A r \in SchemaRun :
            /\ sessions'[r] \in Session
            /\ sessions'[r].state = sessions[r].state /\ sessions'[r].status = sessions[r].status
            /\ sessions'[r].start = sessions[r].start /\ sessions'[r].end = sessions[r].end
            /\ sessions'[r].claimed = IF sessions[r].state = "ended"
                                      THEN sessions[r].claimed \cup Owned(sessions[r])
                                      ELSE sessions[r].claimed
    <2> SUFFICES ASSUME NEW r \in SchemaRun
                 PROVE
            /\ sessions'[r] \in Session
            /\ sessions'[r].state = sessions[r].state /\ sessions'[r].status = sessions[r].status
            /\ sessions'[r].start = sessions[r].start /\ sessions'[r].end = sessions[r].end
            /\ sessions'[r].claimed = IF sessions[r].state = "ended"
                                      THEN sessions[r].claimed \cup Owned(sessions[r])
                                      ELSE sessions[r].claimed
      OBVIOUS
    <2>1. sessions[r] \in Session /\ Owned(sessions[r]) \subseteq 1..MaxFileEvents
      BY SessionTyped
    <2>2. sessions'[r] = IF sessions[r].state = "ended"
              THEN [sessions[r] EXCEPT !.claimed = sessions[r].claimed \cup Owned(sessions[r])]
              ELSE sessions[r]
      BY <1>1 DEF ClaimOwned
    <2> QED BY <2>1, <2>2 DEF Session
  <1>4. sessions' \in [SchemaRun -> Session]
    BY <1>1, <1>3 DEF ClaimOwned
  <1>5. \A r \in SchemaRun : Owned(sessions[r])' = Owned(sessions[r])
    BY <1>1, <1>3 DEF Owned
  <1>6. Claimed'
    <2> SUFFICES ASSUME NEW r \in SchemaRun PROVE Claims(r)'
      BY DEF Claimed
    <2>1. Claims(r)
      BY SessionTyped
    <2> QED BY <1>1, <1>3, <1>5, <2>1 DEF Claims, Owned
  <1>7. StatusesTrue => StatusesTrue'
    BY <1>3 DEF StatusesTrue
  <1>8. Made(p)'
    BY <1>1, <1>2, <1>7 DEF Made, SchemaInv, Progress
  <1> QED BY <1>1, <1>2, <1>4, <1>6, <1>7, <1>8, SessionsMove
          DEF SchemaInv, SchemaType, SchemaTypeOK

\* A new event is beyond every fence.
LEMMA RecordEventKeeps == ASSUME SchemaInv, NEW p \in Opener, RecordEvent(p) PROVE SchemaInv'
  <1>1. /\ lastFileEvent < MaxFileEvents /\ lastFileEvent' = lastFileEvent + 1
        /\ fileEvents' = fileEvents \cup {lastFileEvent + 1}
        /\ opener' = opener /\ sessions' = sessions
        /\ UNCHANGED <<version, tables, columns, layout, indexes, checkpoints, copied, failures>>
    BY DEF RecordEvent, database
  <1>2. lastFileEvent \in Nat /\ fileEvents \subseteq 1..lastFileEvent
    BY DEF SchemaInv, SchemaType, SchemaTypeOK
  <1>3. lastFileEvent' \in 0..MaxFileEvents /\ fileEvents' \subseteq 1..lastFileEvent'
    BY <1>1, <1>2, SchemaConstants
  <1>4. Claimed'
    <2> SUFFICES ASSUME NEW r \in SchemaRun PROVE Claims(r)'
      BY DEF Claimed
    <2>1. Claims(r) /\ sessions[r] \in Session
      BY SessionTyped
    <2>2. sessions[r].end # NoValue =>
              sessions[r].end \in Nat /\ sessions[r].end < lastFileEvent + 1
      BY <1>2, <2>1 DEF Session, Claims
    <2>3. ~(sessions[r].end # NoValue /\ lastFileEvent + 1 <= sessions[r].end)
      BY <1>2, <2>2
    <2>4. Owned(sessions[r])' = Owned(sessions[r])
      BY <1>1, <2>3 DEF Owned
    <2>5. sessions[r].end # NoValue => sessions[r].end <= lastFileEvent + 1
      BY <2>2, <1>2
    <2> HIDE DEF Owned
    <2> QED BY <1>1, <2>1, <2>4, <2>5 DEF Claims
  <1>5. Made(p)'
    BY <1>1 DEF Made, StatusesTrue, SchemaInv, Progress
  <1> QED BY <1>1, <1>3, <1>4, <1>5, SessionsMove
          DEF SchemaInv, SchemaType, SchemaTypeOK, StatusesTrue

LEMMA DropEventKeeps == ASSUME SchemaInv, NEW p \in Opener, DropEvent(p) PROVE SchemaInv'
  <1> DEFINE e == Min(fileEvents)
  <1>1. /\ fileEvents' = fileEvents \ {e}
        /\ sessions' = [r \in SchemaRun |->
                           [sessions[r] EXCEPT !.claimed = sessions[r].claimed \ {e}]]
        /\ opener' = opener /\ lastFileEvent' = lastFileEvent
        /\ UNCHANGED <<version, tables, columns, layout, indexes, checkpoints, copied, failures>>
    BY DEF DropEvent, database
  <1> HIDE DEF e
  <1>2. \A r \in SchemaRun :
            /\ sessions'[r] \in Session
            /\ sessions'[r].state = sessions[r].state /\ sessions'[r].status = sessions[r].status
            /\ sessions'[r].start = sessions[r].start /\ sessions'[r].end = sessions[r].end
            /\ sessions'[r].claimed = sessions[r].claimed \ {e}
    <2> SUFFICES ASSUME NEW r \in SchemaRun
                 PROVE
            /\ sessions'[r] \in Session
            /\ sessions'[r].state = sessions[r].state /\ sessions'[r].status = sessions[r].status
            /\ sessions'[r].start = sessions[r].start /\ sessions'[r].end = sessions[r].end
            /\ sessions'[r].claimed = sessions[r].claimed \ {e}
      OBVIOUS
    <2>1. sessions[r] \in Session
      BY SessionTyped
    <2> QED BY <1>1, <2>1 DEF Session
  <1>3. sessions' \in [SchemaRun -> Session]
    BY <1>1, <1>2
  <1>4. \A r \in SchemaRun : Owned(sessions[r])' = Owned(sessions[r]) \ {e}
    BY <1>1, <1>2 DEF Owned
  <1>5. Claimed'
    <2> SUFFICES ASSUME NEW r \in SchemaRun PROVE Claims(r)'
      BY DEF Claimed
    <2>1. Claims(r)
      BY SessionTyped
    <2> QED BY <1>1, <1>2, <1>4, <2>1 DEF Claims, Owned
  <1>6. StatusesTrue => StatusesTrue'
    BY <1>2 DEF StatusesTrue
  <1>7. Made(p)'
    BY <1>1, <1>6 DEF Made, SchemaInv, Progress
  <1> QED BY <1>1, <1>3, <1>5, <1>6, <1>7, SessionsMove
          DEF SchemaInv, SchemaType, SchemaTypeOK

\* A fence is set at the greatest event that is left.
LEMMA MaxLeftBounds ==
    ASSUME SchemaInv
    PROVE  /\ MaxLeft \in 0..lastFileEvent /\ MaxLeft \in 0..MaxFileEvents
           /\ \A e \in fileEvents : e <= MaxLeft
  <1> DEFINE S == {0} \cup fileEvents
  <1>1. /\ lastFileEvent \in 0..MaxFileEvents /\ MaxFileEvents \in Nat
        /\ fileEvents \subseteq 1..lastFileEvent
    BY SchemaConstants DEF SchemaInv, SchemaType, SchemaTypeOK
  <1>2. S \in SUBSET Nat /\ S # {} /\ lastFileEvent \in Nat /\ \A x \in S : x <= lastFileEvent
    BY <1>1
  <1>3. Max(S) \in S /\ \A y \in S : y <= Max(S)
    <2> HIDE DEF S
    <2> QED BY <1>2, MaxIsGreatest
  <1>4. MaxLeft = Max(S)
    BY DEF MaxLeft
  <1>5. \A x \in S : x \in 0..lastFileEvent /\ x \in 0..MaxFileEvents
    BY <1>1
  <1> QED BY <1>3, <1>4, <1>5

LEMMA CreateCheckpointKeeps ==
    ASSUME SchemaInv, NEW p \in Opener, NEW run \in SchemaRun \cup {NoValue}, NEW name \in Name,
           CreateCheckpoint(p, run, name)
    PROVE  SchemaInv'
  <1> DEFINE ids == {0} \cup {row.id : row \in checkpoints}
             id == 1 + Max(ids)
             new == [id |-> id, run |-> run, name |-> name]
  <1>1. /\ AddsCheckpoint(run, name) /\ id <= MaxRows /\ checkpoints' = checkpoints \cup {new}
        /\ UNCHANGED <<version, tables, columns, layout, indexes, copied, sessions, fileEvents,
                       lastFileEvent, opener, failures>>
    BY DEF CreateCheckpoint, tableRows
  <1>2. checkpoints \subseteq Row /\ MaxRows \in Nat
    BY SchemaConstants DEF SchemaInv, SchemaType, SchemaTypeOK
  <1>3. Max(ids) \in Nat
    <2>1. \A row \in checkpoints : row.id \in 1..MaxRows
      BY <1>2 DEF Row
    <2>2. ids \in SUBSET Nat /\ ids # {} /\ \A x \in ids : x <= MaxRows
      BY <2>1, <1>2
    <2>3. Max(ids) \in ids
      <3> HIDE DEF ids
      <3> QED BY <2>2, <1>2, MaxIsGreatest
    <2> HIDE DEF ids
    <2> QED BY <2>2, <2>3
  <1>4. id \in 1..MaxRows
    <2> HIDE DEF ids
    <2> QED BY <1>1, <1>2, <1>3
  <1>5. new \in Row /\ new.run = run /\ new.name = name
    <2> HIDE DEF id
    <2> QED BY <1>4 DEF Row
  <1> HIDE DEF ids, id, new
  <1>6. SchemaType'
    BY <1>1, <1>2, <1>5 DEF SchemaInv, SchemaType, SchemaTypeOK
  <1>7. Claimed' /\ Progress'
    BY <1>1 DEF SchemaInv, Claimed, Claims, Owned, Progress, Made, StatusesTrue
  <1>8. NamesAreUnique'
    BY <1>1, <1>5 DEF SchemaInv, NamesAreUnique, SameName, AddsCheckpoint
  <1> QED BY <1>6, <1>7, <1>8 DEF SchemaInv

LEMMA StartSessionKeeps ==
    ASSUME SchemaInv, NEW p \in Opener, NEW r \in SchemaRun, StartSession(p, r)
    PROVE  SchemaInv'
  <1> DEFINE new == [NoSession EXCEPT !.state = "active", !.status = "active", !.start = MaxLeft]
  <1>1. /\ sessions' = [sessions EXCEPT ![r] = new]
        /\ opener' = opener /\ fileEvents' = fileEvents /\ lastFileEvent' = lastFileEvent
        /\ UNCHANGED <<version, tables, columns, layout, indexes, checkpoints, copied, failures>>
    BY DEF StartSession, database
  <1>2. /\ new \in Session /\ new.state = "active" /\ new.status = "active"
        /\ new.end = NoValue /\ new.claimed = {}
    <2>1. NoSession \in Session /\ NoSession.end = NoValue /\ NoSession.claimed = {}
      BY SchemaConstants DEF NoSession, Session
    <2> HIDE DEF new
    <2>2. /\ new.state = "active" /\ new.status = "active"
          /\ new.end = NoSession.end /\ new.claimed = NoSession.claimed
      BY <2>1 DEF new, Session
    <2>3. new \in Session
      BY <2>1, MaxLeftBounds DEF new, Session
    <2> QED BY <2>1, <2>2, <2>3
  <1>3. \A q \in SchemaRun : sessions'[q] = IF q = r THEN new ELSE sessions[q]
    BY <1>1 DEF SchemaInv, SchemaType, SchemaTypeOK
  <1> HIDE DEF new
  <1>4. sessions' \in [SchemaRun -> Session]
    BY <1>1, <1>2 DEF SchemaInv, SchemaType, SchemaTypeOK
  <1>5. Claimed'
    <2> SUFFICES ASSUME NEW q \in SchemaRun PROVE Claims(q)'
      BY DEF Claimed
    <2>1. CASE q = r
      BY <1>2, <1>3, <2>1 DEF Claims
    <2>2. CASE q # r
      <3>1. Claims(q)
        BY SessionTyped
      <3> QED BY <1>1, <1>3, <2>2, <3>1 DEF Claims, Owned
    <2> QED BY <2>1, <2>2
  <1>6. StatusesTrue => StatusesTrue'
    BY <1>2, <1>3 DEF StatusesTrue
  <1>7. Made(p)'
    BY <1>1, <1>6 DEF Made, SchemaInv, Progress
  <1> QED BY <1>1, <1>4, <1>5, <1>6, <1>7, SessionsMove
          DEF SchemaInv, SchemaType, SchemaTypeOK

\* An active Run has claimed nothing yet: when it ends it claims all it owns.
LEMMA EndSessionKeeps ==
    ASSUME SchemaInv, NEW p \in Opener, NEW r \in SchemaRun, EndSession(p, r)
    PROVE  SchemaInv'
  <1> DEFINE ended == [sessions[r] EXCEPT !.state = "ended", !.status = "completed",
                                          !.end = MaxLeft]
             owned == Owned(ended)
             new == [ended EXCEPT !.claimed = sessions[r].claimed \cup owned]
  <1>1. /\ sessions[r].state = "active"
        /\ opener' = opener /\ fileEvents' = fileEvents /\ lastFileEvent' = lastFileEvent
        /\ UNCHANGED <<version, tables, columns, layout, indexes, checkpoints, copied, failures>>
    BY DEF EndSession, database
  <1>2. sessions[r] \in Session /\ Claims(r)
    BY SessionTyped
  <1>3. sessions[r].claimed = {}
    BY <1>1, <1>2 DEF Claims, Owned
  <1>4. /\ ended.claimed = {} /\ ended.state = "ended" /\ ended.status = "completed"
        /\ ended.start = sessions[r].start /\ ended.end = MaxLeft /\ ended \in Session
    <2>1. ended \in Session
      BY <1>2, MaxLeftBounds DEF Session
    <2>2. /\ ended.claimed = sessions[r].claimed /\ ended.state = "ended"
          /\ ended.status = "completed" /\ ended.start = sessions[r].start
          /\ ended.end = MaxLeft
      BY <1>2 DEF Session
    <2> HIDE DEF ended
    <2> QED BY <1>3, <2>1, <2>2
  <1>5. sessions' = [sessions EXCEPT ![r] = new]
    BY <1>3, <1>4 DEF EndSession
  <1> HIDE DEF ended
  <1>6. owned \subseteq fileEvents
    BY DEF Owned
  <1>7. /\ new \in Session /\ new.state = "ended" /\ new.status = "completed"
        /\ new.start = ended.start /\ new.end = MaxLeft /\ new.claimed = owned
    <2>1. owned \subseteq 1..MaxFileEvents
      <3>1. /\ fileEvents \subseteq 1..lastFileEvent /\ lastFileEvent \in 0..MaxFileEvents
            /\ MaxFileEvents \in Nat
        BY SchemaConstants DEF SchemaInv, SchemaType, SchemaTypeOK
      <3> HIDE DEF owned
      <3> QED BY <1>6, <3>1
    <2> HIDE DEF owned
    <2> QED BY <1>3, <1>4, <2>1 DEF Session
  <1>8. \A q \in SchemaRun : sessions'[q] = IF q = r THEN new ELSE sessions[q]
    BY <1>5 DEF SchemaInv, SchemaType, SchemaTypeOK
  <1>9. sessions' \in [SchemaRun -> Session]
    BY <1>5, <1>7 DEF SchemaInv, SchemaType, SchemaTypeOK
  <1>10. Claimed'
    <2> SUFFICES ASSUME NEW q \in SchemaRun PROVE Claims(q)'
      BY DEF Claimed
    <2>1. CASE q = r
      <3>1. Owned(sessions[q])' = owned
        BY <1>1, <1>4, <1>7, <1>8, <2>1 DEF Owned
      <3> HIDE DEF owned, new
      <3> QED BY <1>1, <1>7, <1>8, <2>1, <3>1, MaxLeftBounds DEF Claims
    <2>2. CASE q # r
      <3>1. Claims(q)
        BY SessionTyped
      <3> QED BY <1>1, <1>8, <2>2, <3>1 DEF Claims, Owned
    <2> QED BY <2>1, <2>2
  <1> HIDE DEF owned, new
  <1>11. StatusesTrue => StatusesTrue'
    BY <1>7, <1>8 DEF StatusesTrue
  <1>12. Made(p)'
    BY <1>1, <1>11 DEF Made, SchemaInv, Progress
  <1> QED BY <1>1, <1>9, <1>10, <1>11, <1>12, SessionsMove
          DEF SchemaInv, SchemaType, SchemaTypeOK

LEMMA SchemaInitHolds == SchemaInit => SchemaInv
  <1> SUFFICES ASSUME SchemaInit PROVE SchemaInv
    OBVIOUS
  <1>1. /\ opener = [p \in Opener |-> [at |-> "closed", column |-> 1, read |-> 0]]
        /\ failures = 0 /\ copied = NoValue
    BY DEF SchemaInit
  <1>2. /\ MaxFileEvents \in Nat \ {0} /\ MaxRows \in Nat \ {0} /\ MaxFailures \in Nat
        /\ NoValue # "active"
    BY SchemaConstants
  <1>3. opener \in [Opener -> Openers] /\ \A p \in Opener : Made(p)
    BY <1>1 DEF Openers, Made
  <1>4. /\ NoSession \in Session /\ NoSession.state = "none" /\ NoSession.status = NoValue
        /\ NoSession.end = NoValue /\ NoSession.claimed = {}
    BY <1>2 DEF NoSession, Session
  <1> DEFINE First ==
          /\ version \in {0, Current + 1}
          /\ tables = IF version = 0 THEN {} ELSE AllTables
          /\ columns = IF version = 0 THEN {} ELSE AllColumns
          /\ layout = IF version = 0 THEN "none" ELSE "run"
          /\ indexes = (version # 0)
          /\ checkpoints = {}
          /\ sessions = [r \in SchemaRun |-> NoSession]
          /\ lastFileEvent = 0
          /\ fileEvents = {}
  <1>5. CASE First
    <2>1. /\ sessions \in [SchemaRun -> Session]
          /\ \A r \in SchemaRun : sessions[r] = NoSession
      BY <1>4, <1>5
    <2>2. SchemaTypeOK
      <3>1. version \in {0, 4, Current, Current + 1} /\ tables \subseteq AllTables
            /\ columns \subseteq AllColumns /\ layout \in {"none", "project", "run"}
            /\ indexes \in BOOLEAN
        BY <1>5, Lists
      <3>2. fileEvents \subseteq 1..lastFileEvent /\ lastFileEvent \in 0..MaxFileEvents
        BY <1>2, <1>5
      <3> QED BY <1>1, <1>2, <1>5, <2>1, <3>1, <3>2 DEF SchemaTypeOK
    <2>3. Claimed
      BY <1>2, <1>4, <2>1 DEF Claimed, Claims, Owned
    <2>4. "checkpoints" \in tables => layout # "none"
      BY <1>5
    <2>5. NamesAreUnique
      BY <1>5 DEF NamesAreUnique
    <2> QED BY <1>3, <2>2, <2>3, <2>4, <2>5 DEF SchemaInv, SchemaType, Progress
  <1>6. CASE ~First
    <2>1. /\ version = 4
          /\ tables \in {{"checkpoints", "sessions"}, AllTables}
          /\ columns \in SUBSET AllColumns
          /\ layout \in {"project", "run"}
          /\ indexes = FALSE
          /\ lastFileEvent = MaxFileEvents - 1
          /\ fileEvents = 1..lastFileEvent
      BY <1>6 DEF SchemaInit
    <2>2. PICK n \in Name : checkpoints = {[id |-> 1, run |-> NoValue, name |-> n]}
      BY <1>6 DEF SchemaInit
    <2>3. PICK r \in SchemaRun, old \in Session :
              /\ old.state # "none"
              /\ old.start = 0
              /\ old.end = IF old.state = "ended" /\ "end_event_id" \in columns
                           THEN lastFileEvent ELSE NoValue
              /\ old.claimed \subseteq IF "session_events" \in tables THEN Owned(old) ELSE {}
              /\ sessions = [q \in SchemaRun |-> IF q = r THEN old ELSE NoSession]
      BY <1>6 DEF SchemaInit
    <2>4. /\ sessions \in [SchemaRun -> Session]
          /\ \A q \in SchemaRun : sessions[q] = IF q = r THEN old ELSE NoSession
      BY <1>4, <2>3
    <2>5. lastFileEvent \in 0..MaxFileEvents
      BY <1>2, <2>1
    <2>6. SchemaTypeOK
      <3>1. checkpoints \subseteq Row
        BY <1>2, <2>2 DEF Row
      <3>2. version \in {0, 4, Current, Current + 1} /\ tables \subseteq AllTables
            /\ columns \subseteq AllColumns /\ layout \in {"none", "project", "run"}
            /\ indexes \in BOOLEAN /\ fileEvents \subseteq 1..lastFileEvent
        BY <2>1, Lists
      <3>3. failures \in 0..MaxFailures /\ copied \in (SUBSET Row) \cup {NoValue}
        BY <1>1, <1>2
      <3> QED BY <2>4, <2>5, <3>1, <3>2, <3>3 DEF SchemaTypeOK
    <2>7. Claimed
      <3> SUFFICES ASSUME NEW q \in SchemaRun PROVE Claims(q)
        BY DEF Claimed
      <3>1. CASE q = r
        <4>1. sessions[q] = old /\ version # Current
          BY <2>1, <2>4, <3>1 DEF Current
        <4>2. old.claimed \subseteq Owned(old)
          BY <2>3
        <4>3. old.end # NoValue => old.end <= lastFileEvent
          BY <2>3, <2>5
        <4> QED BY <2>3, <4>1, <4>2, <4>3 DEF Claims
      <3>2. CASE q # r
        <4>1. sessions[q] = NoSession /\ version # Current
          BY <2>1, <2>4, <3>2 DEF Current
        <4> QED BY <1>2, <1>4, <4>1 DEF Claims
      <3> QED BY <3>1, <3>2
    <2>8. NamesAreUnique
      BY <2>2 DEF NamesAreUnique, SameName
    <2> QED BY <1>3, <2>1, <2>6, <2>7, <2>8 DEF SchemaInv, SchemaType, Progress
  <1> QED BY <1>5, <1>6

LEMMA SchemaStepKeeps == SchemaInv /\ [SchemaNext]_schemaVars => SchemaInv'
  <1> SUFFICES ASSUME SchemaInv, [SchemaNext]_schemaVars PROVE SchemaInv'
    OBVIOUS
  <1>1. CASE UNCHANGED schemaVars
    <2>1. UNCHANGED <<version, tables, columns, layout, indexes, checkpoints, copied,
                      sessions, fileEvents, lastFileEvent, opener, failures>>
      BY <1>1 DEF schemaVars, database, tableRows
    <2> QED BY <2>1 DEF SchemaInv, SchemaType, SchemaTypeOK, Progress, Made, StatusesTrue,
                        Claimed, Claims, Owned, NamesAreUnique
  <1> QED BY <1>1, OpenKeeps, CreateTablesKeeps, LookForColumnKeeps, AddColumnKeeps,
             BackOutKeeps, LayoutKeeps, RepairStatusKeeps, RepairWindowsKeeps,
             RecordEventKeeps, DropEventKeeps, CreateCheckpointKeeps, StartSessionKeeps,
             EndSessionKeeps DEF SchemaNext

\* However many processes upgrade the database at once, and wherever they fail,
\* who has opened it finds it complete; no name is there twice; and at version 5
\* each ended window Run owns exactly the events between its fences.
THEOREM UpgradeStaysComplete == SchemaSpec => []UpgradeIsComplete
  <1>1. SchemaInv => UpgradeIsComplete
    <2> SUFFICES ASSUME SchemaInv PROVE UpgradeIsComplete
      OBVIOUS
    <2>1. ASSUME NEW p \in Opener, IsOpen(p)
          PROVE  tables = AllTables /\ columns = AllColumns /\ layout = "run" /\ StatusesTrue
      BY <2>1 DEF IsOpen, SchemaInv, Progress, Made
    <2>2. ASSUME version = Current, NEW r \in SchemaRun, sessions[r].state = "ended"
          PROVE  sessions[r].claimed = Owned(sessions[r])
      BY <2>2 DEF SchemaInv, Claimed, Claims
    <2> QED BY <2>1, <2>2 DEF UpgradeIsComplete, SchemaInv, StatusesTrue
  <1> QED BY <1>1, SchemaInitHolds, SchemaStepKeeps, PTL DEF SchemaSpec

\* No step of an upgrade, and nothing done beside it, takes a checkpoint away.
THEOREM CheckpointsKept == SchemaSpec => HistoryIsKept
  <1>1. [SchemaNext]_schemaVars => [checkpoints \subseteq checkpoints']_schemaVars
    <2> SUFFICES ASSUME SchemaNext PROVE checkpoints \subseteq checkpoints'
      OBVIOUS
    <2> USE DEF database, tableRows
    <2> QED BY DEF SchemaNext, Open, CreateTables, LookForColumn, AddColumn, AddColumnTwice,
                   LookAtLayout, Rebuild, CreateIndexes, RepairStatus, RepairWindows, Fails,
                   Close, RecordEvent, DropEvent, CreateCheckpoint, StartSession, EndSession
  <1> QED BY <1>1, PTL DEF SchemaSpec, HistoryIsKept

-------------------------------------------------------------------------------
(* Logging: the files, and who may touch them. *)

FileIds == (1..inodes) \cup {NoFile}
Line == [pid: Writer, life: Nat, level: {"head", "info", "error"}, whole: BOOLEAN]
Steps == {"off", "idle", "locked", "refreshed", "staged", "exchanged", "writing", "half"}

FilesType ==
    /\ inodes \in 0..MaxInodes
    /\ active \in FileIds /\ archive \in FileIds
    /\ staged \in [Writer -> FileIds] /\ fd \in [Writer -> FileIds]
    /\ leftover \subseteq 1..inodes
    /\ lines \in [1..MaxInodes -> Seq(Nat)]
    /\ written \in Seq(Line)
    /\ step \in [Writer -> Steps]
    /\ life \in [Writer -> Nat]
    /\ lock \in Writer \cup {Nobody}

\* Who is past the lock alone moves files, and has the newest one open.
Handles(p) ==
    /\ step[p] \notin {"off", "idle"} => lock = p
    /\ Running(p) => fd[p] # NoFile
    /\ step[p] \in {"refreshed", "staged", "exchanged", "writing", "half"} => fd[p] = active
    /\ step[p] \notin {"staged", "exchanged"} => staged[p] = NoFile
    /\ step[p] = "staged" => /\ staged[p] \notin {NoFile, active, archive}
                             /\ lines[staged[p]] = <<>>
    /\ step[p] = "exchanged" => staged[p] \notin {NoFile, active, archive} /\ lines[active] = <<>>

\* The lines of a file that is there are lines that were written.
Contents ==
    /\ inodes > 0 => active # NoFile
    /\ archive # NoFile => archive # active
    /\ \A g \in 1..MaxInodes : g > inodes => lines[g] = <<>>
    /\ \A g \in 1..MaxInodes : \A k \in DOMAIN lines[g] : lines[g][k] \in DOMAIN written

\* What is gone is older than what is kept, and that is in order.
Held(g) == ToSet(lines[g])
Kept == ({active, archive} \cup {staged[p] : p \in Writer}) \ {NoFile}
Gone(i) == i \in DOMAIN written /\ \A g \in Linked : i \notin Held(g)
Older(a, b) == a # NoFile /\ b # NoFile => \A i \in Held(a) : \A k \in Held(b) : i < k
Ordered ==
    /\ Older(archive, active)
    /\ \A p \in Writer : step[p] = "exchanged" => Older(archive, staged[p])
    /\ \A i \in DOMAIN written : Gone(i) => \A g \in Kept : \A k \in Held(g) : i < k

FilesInv == FilesType /\ (\A p \in Writer : Handles(p)) /\ Contents /\ Ordered

LEMMA EmptyHolds ==
    ASSUME NEW g, lines[g] = <<>> PROVE Held(g) = {}
  BY DEF Held, ToSet

LEMMA FileConstants ==
    /\ MaxInodes \in Nat /\ MaxLives \in Nat /\ MaxDeaths \in Nat /\ MaxBytes \in Nat
    /\ NoFile \notin Nat /\ NoFile \notin Writer
  BY LogConstants

\* Nothing is written: what was gone is gone, and what is kept keeps its order.
LEMMA GoneStays ==
    ASSUME FilesInv, lines' = lines, written' = written,
           \A g \in Linked : g \in Linked' \/ Held(g) = {},
           \A g \in Kept' : g \in Kept \/ Held(g) = {}
    PROVE  \A i \in DOMAIN written' : Gone(i)' => \A g \in Kept' : \A k \in Held(g)' : i < k
  <1>1. \A g : Held(g)' = Held(g)
    BY DEF Held
  <1>2. \A i \in DOMAIN written : Gone(i)' => Gone(i)
    BY <1>1 DEF Gone
  <1> QED BY <1>1, <1>2 DEF FilesInv, Ordered

\* open_append_0600 finds the file there is, or makes the first one.
LEMMA OpenedFile ==
    ASSUME FilesInv, NEW p \in Writer, OpenAppend(p)
    PROVE  /\ active' # NoFile /\ active' \in 1..inodes' /\ inodes' \in inodes..MaxInodes
           /\ fd' = [fd EXCEPT ![p] = active']
           /\ UNCHANGED <<archive, staged, leftover, lines>>
           /\ \/ active # NoFile /\ active' = active /\ inodes' = inodes
              \/ active = NoFile /\ inodes = 0 /\ inodes' = 1 /\ active' = 1 /\ Held(1) = {}
  <1>1. /\ Opened <= MaxInodes /\ fd' = [fd EXCEPT ![p] = Opened] /\ active' = Opened
        /\ inodes' = Max({inodes, Opened}) /\ UNCHANGED <<archive, staged, leftover, lines>>
    BY DEF OpenAppend
  <1>2. inodes \in Nat /\ inodes <= MaxInodes /\ MaxInodes \in Nat /\ active \in FileIds
    BY FileConstants DEF FilesInv, FilesType
  <1>3. CASE active # NoFile
    <2>1. Opened = active /\ active \in 1..inodes
      BY <1>2, <1>3 DEF Opened, FileIds
    <2>2. Max({inodes, active}) = inodes
      <3>1. {inodes, active} \in SUBSET Nat /\ \A x \in {inodes, active} : x <= inodes
        BY <1>2, <2>1
      <3>2. Max({inodes, active}) \in {inodes, active}
            /\ \A x \in {inodes, active} : x <= Max({inodes, active})
        BY <3>1, <1>2, MaxIsGreatest
      <3> QED BY <3>1, <3>2, <1>2, <2>1
    <2> QED BY <1>1, <1>2, <1>3, <2>1, <2>2
  <1>4. CASE active = NoFile
    <2>1. inodes = 0
      BY <1>2, <1>4 DEF FilesInv, Contents
    <2>2. Opened = 1 /\ MaxInodes >= 1
      BY <1>1, <1>2, <1>4, <2>1 DEF Opened
    <2>3. Max({0, 1}) = 1
      <3>1. {0, 1} \in SUBSET Nat /\ \A x \in {0, 1} : x <= 1
        OBVIOUS
      <3>2. Max({0, 1}) \in {0, 1} /\ \A x \in {0, 1} : x <= Max({0, 1})
        BY <3>1, MaxIsGreatest
      <3> QED BY <3>2
    <2>4. lines[1] = <<>>
      BY <1>2, <2>1, <2>2 DEF FilesInv, Contents
    <2> QED BY <1>1, <1>2, <1>4, <2>1, <2>2, <2>3, <2>4, EmptyHolds, FileConstants
  <1> QED BY <1>3, <1>4

Alone(p) == \A q \in Writer : q # p => step[q] \in {"off", "idle"}

LEMMA HolderAlone ==
    ASSUME FilesInv, NEW p \in Writer, step[p] \notin {"off", "idle"} \/ lock = Nobody
    PROVE  Alone(p)
  BY FileConstants DEF FilesInv, Handles, Alone, Nobody

\* One process moves: the others are not affected unless it is the only one
\* that is past the lock.
LEMMA WriterMoves ==
    ASSUME FilesInv, NEW p \in Writer, NEW w \in Steps, Goes(p, w),
           FilesType', Handles(p)', Contents', Ordered',
           \A q \in Writer : q # p => fd'[q] = fd[q] /\ staged'[q] = staged[q],
           UNCHANGED <<active, archive, lock, lines>> \/ Alone(p)
    PROVE  FilesInv'
  <1>1. \A q \in Writer : step'[q] = IF q = p THEN w ELSE step[q]
    BY DEF Goes, FilesInv, FilesType
  <1>2. ASSUME NEW q \in Writer, q # p PROVE Handles(q)'
    <2>1. Handles(q) /\ step'[q] = step[q] /\ fd'[q] = fd[q] /\ staged'[q] = staged[q]
      BY <1>1, <1>2 DEF FilesInv
    <2>2. CASE step[q] \in {"off", "idle"}
      BY <2>1, <2>2 DEF Handles, Running
    <2>3. CASE step[q] \notin {"off", "idle"}
      <3>1. UNCHANGED <<active, archive, lock, lines>>
        BY <1>2, <2>3 DEF Alone
      <3> QED BY <2>1, <3>1 DEF Handles, Running
    <2> QED BY <2>2, <2>3
  <1> QED BY <1>2 DEF FilesInv

LEMMA StepTyped ==
    ASSUME FilesInv, NEW p \in Writer, NEW w \in Steps, Goes(p, w)
    PROVE  /\ step' \in [Writer -> Steps] /\ step'[p] = w
           /\ \A q \in Writer : q # p => step'[q] = step[q]
  BY DEF Goes, FilesInv, FilesType

\* Nothing moves but the process from step to step.
LEMMA FilesStay ==
    ASSUME FilesInv, NEW p \in Writer, NEW w \in Steps, Goes(p, w), step[p] # "exchanged", w # "exchanged",
           lock' \in Writer \cup {Nobody}, Handles(p)', Alone(p) \/ lock' = lock,
           UNCHANGED <<files, written, fd, life>>
    PROVE  FilesInv'
  <1>1. UNCHANGED <<active, archive, staged, leftover, inodes, lines, written, fd, life>>
    BY DEF files
  <1>2. FilesType'
    BY <1>1, StepTyped DEF FilesInv, FilesType, FileIds
  <1>3. Contents'
    BY <1>1 DEF FilesInv, Contents
  <1>4. /\ Linked' = Linked /\ Kept' = Kept
        /\ \A a, b : Older(a, b)' = Older(a, b)
    BY <1>1 DEF Linked, Kept, Older, Held
  <1>5. \A q \in Writer : step'[q] = "exchanged" => step[q] = "exchanged"
    BY StepTyped
  <1>6. Ordered'
    <2>1. Older(archive, active)'
      BY <1>1 DEF FilesInv, Ordered, Older, Held
    <2>2. \A q \in Writer : step'[q] = "exchanged" => Older(archive, staged[q])'
      BY <1>1, <1>5 DEF FilesInv, Ordered, Older, Held
    <2>3. \A i \in DOMAIN written' : Gone(i)' => \A g \in Kept' : \A k \in Held(g)' : i < k
      BY <1>1, <1>4, GoneStays
    <2> QED BY <2>1, <2>2, <2>3 DEF Ordered
  <1> QED BY <1>1, <1>2, <1>3, <1>6, WriterMoves

LEMMA AcquireKeeps == ASSUME FilesInv, NEW p \in Writer, Acquire(p) PROVE FilesInv'
  <1>1. /\ step[p] = "idle" /\ lock = Nobody /\ lock' = p /\ Goes(p, "locked")
        /\ UNCHANGED <<files, written, fd, life>>
        /\ UNCHANGED <<active, archive, staged, leftover, inodes, lines>>
    BY DEF Acquire, files
  <1>2. Alone(p)
    BY <1>1, HolderAlone
  <1>3. step'[p] = "locked" /\ "locked" \in Steps
    BY <1>1, StepTyped DEF Steps
  <1>4. Handles(p)'
    BY <1>1, <1>3 DEF FilesInv, Handles, Running
  <1> QED BY <1>1, <1>2, <1>3, <1>4, FilesStay

LEMMA StaysKeeps == ASSUME FilesInv, NEW p \in Writer, Stays(p) PROVE FilesInv'
  <1>1. /\ step[p] = "refreshed" /\ Goes(p, "writing") /\ lock' = lock
        /\ UNCHANGED <<files, written, fd, life>>
        /\ UNCHANGED <<active, archive, staged, leftover, inodes, lines>>
    BY DEF Stays, files
  <1>2. step'[p] = "writing" /\ "writing" \in Steps
    BY <1>1, StepTyped DEF Steps
  <1>3. Handles(p)' /\ lock' \in Writer \cup {Nobody}
    BY <1>1, <1>2 DEF FilesInv, FilesType, Handles, Running
  <1> QED BY <1>1, <1>2, <1>3, FilesStay

\* A process opens the file: the first one to do so has made it.
LEMMA OpeningKeeps ==
    ASSUME FilesInv, NEW p \in Writer, OpenAppend(p), NEW w \in {"idle", "refreshed"}, Goes(p, w),
           w = "idle" => ~Running(p),
           w = "refreshed" => step[p] = "locked",
           life' \in [Writer -> Nat], written' = written, lock' = lock
    PROVE  FilesInv'
  <1>1. /\ active' # NoFile /\ active' \in 1..inodes' /\ inodes' \in inodes..MaxInodes
        /\ fd' = [fd EXCEPT ![p] = active']
        /\ UNCHANGED <<archive, staged, leftover, lines>>
        /\ \/ active # NoFile /\ active' = active /\ inodes' = inodes
           \/ active = NoFile /\ inodes = 0 /\ inodes' = 1 /\ active' = 1 /\ Held(1) = {}
    BY OpenedFile
  <1>2. /\ inodes \in Nat /\ inodes <= MaxInodes /\ MaxInodes \in Nat /\ inodes' \in 0..MaxInodes
        /\ fd \in [Writer -> FileIds] /\ archive \in FileIds /\ staged \in [Writer -> FileIds]
        /\ leftover \subseteq 1..inodes
    BY <1>1, FileConstants DEF FilesInv, FilesType
  <1>3. FileIds \subseteq FileIds' /\ active' \in FileIds' /\ 1..inodes \subseteq 1..inodes'
    BY <1>1, <1>2 DEF FileIds
  <1>4. w \in Steps /\ step' \in [Writer -> Steps] /\ step'[p] = w
        /\ \A q \in Writer : q # p => step'[q] = step[q]
    <2>1. w \in Steps
      BY DEF Steps
    <2> QED BY <2>1, StepTyped
  <1>5. FilesType'
    <2>1. fd' \in [Writer -> FileIds'] /\ staged' \in [Writer -> FileIds'] /\ archive' \in FileIds'
          /\ leftover' \subseteq 1..inodes'
      BY <1>1, <1>2, <1>3
    <2> QED BY <1>1, <1>2, <1>3, <1>4, <2>1 DEF FilesInv, FilesType
  <1>6. archive = NoFile \/ active # NoFile
    BY <1>1, <1>2 DEF FileIds
  <1>7. Contents'
    <2>1. archive' # NoFile => archive' # active'
      BY <1>1, <1>6 DEF FilesInv, Contents
    <2>2. \A g \in 1..MaxInodes : g > inodes' => lines'[g] = <<>>
      BY <1>1, <1>2 DEF FilesInv, Contents
    <2>3. \A g \in 1..MaxInodes : \A k \in DOMAIN lines'[g] : lines'[g][k] \in DOMAIN written'
      BY <1>1 DEF FilesInv, Contents
    <2> QED BY <1>1, <2>1, <2>2, <2>3 DEF Contents
  <1>8. step[p] \in {"off", "locked"} /\ staged[p] = NoFile
    BY DEF Running, FilesInv, Handles
  <1>9. Handles(p)'
    <2>1. fd'[p] = active' /\ staged'[p] = NoFile
      BY <1>1, <1>2, <1>8
    <2>2. w = "refreshed" => lock = p
      BY DEF FilesInv, Handles
    <2> QED BY <1>1, <1>4, <2>1, <2>2 DEF Handles, Running
  <1>10. Ordered'
    <2>1. \A g : Held(g)' = Held(g)
      BY <1>1 DEF Held
    <2>2. Older(archive, active)'
      <3>1. CASE active # NoFile
        BY <1>1, <2>1, <3>1 DEF FilesInv, Ordered, Older
      <3>2. CASE active = NoFile
        BY <1>1, <1>6, <3>2 DEF Older
      <3> QED BY <3>1, <3>2
    <2>3. \A q \in Writer : step'[q] = "exchanged" => Older(archive, staged[q])'
      BY <1>1, <1>4, <2>1 DEF FilesInv, Ordered, Older
    <2>4. \A g \in Linked : g \in Linked'
      BY <1>1 DEF Linked
    <2>5. \A g \in Kept' : g \in Kept \/ Held(g) = {}
      BY <1>1 DEF Kept
    <2>6. \A i \in DOMAIN written' : Gone(i)' => \A g \in Kept' : \A k \in Held(g)' : i < k
      BY <1>1, <2>4, <2>5, GoneStays
    <2> QED BY <2>2, <2>3, <2>6 DEF Ordered
  <1>11. UNCHANGED <<active, archive, lock, lines>> \/ Alone(p)
    <2>1. CASE active # NoFile
      BY <1>1, <2>1
    <2>2. CASE active = NoFile
      <3>1. FileIds = {NoFile}
        BY <1>1, <2>2 DEF FileIds
      <3>2. \A q \in Writer : fd[q] = NoFile
        BY <1>2, <3>1
      <3> QED BY <3>2 DEF FilesInv, Handles, Running, Alone
    <2> QED BY <2>1, <2>2
  <1>12. \A q \in Writer : q # p => fd'[q] = fd[q] /\ staged'[q] = staged[q]
    BY <1>1, <1>2
  <1> QED BY <1>4, <1>5, <1>7, <1>9, <1>10, <1>11, <1>12, WriterMoves

LEMMA RefreshKeeps == ASSUME FilesInv, NEW p \in Writer, Refresh(p) PROVE FilesInv'
  <1>1. /\ step[p] = "locked" /\ Goes(p, "refreshed") /\ lock' = lock /\ life' = life
        /\ written' = written
    BY DEF Refresh
  <1>2. CASE fd[p] = active
    <2>1. UNCHANGED <<files, fd>>
          /\ UNCHANGED <<active, archive, staged, leftover, inodes, lines>>
      BY <1>2 DEF Refresh, files
    <2>2. step'[p] = "refreshed" /\ "refreshed" \in Steps
      BY <1>1, StepTyped DEF Steps
    <2>3. Handles(p)' /\ lock' \in Writer \cup {Nobody}
      BY <1>1, <1>2, <2>1, <2>2 DEF FilesInv, FilesType, Handles, Running
    <2> QED BY <1>1, <2>1, <2>2, <2>3, FilesStay
  <1>3. CASE fd[p] # active
    <2>1. OpenAppend(p) /\ life' \in [Writer -> Nat]
      BY <1>1, <1>3 DEF Refresh, FilesInv, FilesType
    <2> QED BY <1>1, <2>1, OpeningKeeps
  <1> QED BY <1>2, <1>3

LEMMA StartKeeps ==
    ASSUME FilesInv, NEW p \in Writer, Start(p) \/ (Spawn(p) /\ ~Running(p)) PROVE FilesInv'
  <1>1. /\ OpenAppend(p) /\ Goes(p, "idle") /\ ~Running(p) /\ written' = written /\ lock' = lock
        /\ life' = [life EXCEPT ![p] = @ + 1]
    BY DEF Start, Spawn
  <1>2. life' \in [Writer -> Nat]
    BY <1>1 DEF FilesInv, FilesType
  <1> QED BY <1>1, <1>2, OpeningKeeps

LEMMA StageKeeps == ASSUME FilesInv, NEW p \in Writer, Stage(p) PROVE FilesInv'
  <1>1. /\ step[p] = "refreshed" /\ inodes < MaxInodes /\ inodes' = inodes + 1
        /\ staged' = [staged EXCEPT ![p] = inodes + 1] /\ Goes(p, "staged")
        /\ UNCHANGED <<active, archive, leftover, lines, written, fd, life, lock>>
    BY DEF Stage
  <1>2. /\ inodes \in Nat /\ inodes + 1 \in 1..inodes' /\ inodes' \in 0..MaxInodes
        /\ inodes + 1 \in 1..MaxInodes
        /\ fd \in [Writer -> FileIds] /\ archive \in FileIds /\ staged \in [Writer -> FileIds]
        /\ leftover \subseteq 1..inodes /\ active \in FileIds
        /\ NoFile \notin Nat
    BY <1>1, FileConstants DEF FilesInv, FilesType
  <1>3. FileIds \subseteq FileIds' /\ inodes + 1 \in FileIds' /\ 1..inodes \subseteq 1..inodes'
        /\ inodes + 1 \notin FileIds
    BY <1>1, <1>2 DEF FileIds
  <1>4. step' \in [Writer -> Steps] /\ step'[p] = "staged" /\ "staged" \in Steps
        /\ \A q \in Writer : q # p => step'[q] = step[q]
    BY <1>1, StepTyped DEF Steps
  <1>5. FilesType'
    <2>1. fd' \in [Writer -> FileIds'] /\ staged' \in [Writer -> FileIds'] /\ archive' \in FileIds'
          /\ active' \in FileIds' /\ leftover' \subseteq 1..inodes'
      BY <1>1, <1>2, <1>3
    <2> QED BY <1>1, <1>2, <1>4, <2>1 DEF FilesInv, FilesType
  <1>6. lines[inodes + 1] = <<>> /\ Held(inodes + 1) = {}
    BY <1>2, EmptyHolds DEF FilesInv, Contents
  <1>7. Alone(p)
    BY <1>1, HolderAlone
  <1>8. Handles(p)'
    <2>1. staged'[p] = inodes + 1 /\ fd'[p] = fd[p]
      BY <1>1, <1>2
    <2>2. staged'[p] \notin {NoFile, active', archive'} /\ lines'[staged'[p]] = <<>>
      BY <1>1, <1>2, <1>3, <1>6, <2>1
    <2> QED BY <1>1, <1>4, <2>1, <2>2 DEF FilesInv, Handles, Running
  <1>9. Contents'
    <2>1. active # NoFile
      BY <1>1 DEF FilesInv, Handles, Running
    <2>2. \A g \in 1..MaxInodes : g > inodes' => lines'[g] = <<>>
      BY <1>1, <1>2 DEF FilesInv, Contents
    <2> QED BY <1>1, <2>1, <2>2 DEF FilesInv, Contents
  <1>10. Ordered'
    <2>1. \A g : Held(g)' = Held(g)
      BY <1>1 DEF Held
    <2>2. Older(archive, active)'
      BY <1>1, <2>1 DEF FilesInv, Ordered, Older
    <2>3. \A q \in Writer : step'[q] # "exchanged"
      BY <1>4, <1>7 DEF Alone
    <2>4. \A g \in Linked : g \in Linked'
      <3>1. staged[p] = NoFile
        BY <1>1 DEF FilesInv, Handles
      <3>2. \A q \in Writer : staged[q] # NoFile => staged'[q] = staged[q]
        BY <1>1, <1>2, <3>1
      <3> QED BY <1>1, <3>2 DEF Linked
    <2>5. \A g \in Kept' : g \in Kept \/ Held(g) = {}
      <3>1. \A q \in Writer : staged'[q] = staged[q] \/ staged'[q] = inodes + 1
        BY <1>1, <1>2
      <3> QED BY <1>1, <1>6, <3>1 DEF Kept
    <2>6. \A i \in DOMAIN written' : Gone(i)' => \A g \in Kept' : \A k \in Held(g)' : i < k
      BY <1>1, <2>4, <2>5, GoneStays
    <2> QED BY <2>2, <2>3, <2>6 DEF Ordered
  <1>11. \A q \in Writer : q # p => fd'[q] = fd[q] /\ staged'[q] = staged[q]
    BY <1>1, <1>2
  <1> QED BY <1>1, <1>4, <1>5, <1>7, <1>8, <1>9, <1>10, <1>11, WriterMoves

LEMMA ExchangeKeeps == ASSUME FilesInv, NEW p \in Writer, Exchange(p) PROVE FilesInv'
  <1>1. /\ step[p] = "staged" /\ active' = staged[p]
        /\ fd' = [fd EXCEPT ![p] = staged[p]] /\ staged' = [staged EXCEPT ![p] = active]
        /\ Goes(p, "exchanged")
        /\ UNCHANGED <<archive, leftover, inodes, lines, written, life, lock>>
    BY DEF Exchange
  <1>2. /\ fd \in [Writer -> FileIds] /\ archive \in FileIds /\ staged \in [Writer -> FileIds]
        /\ active \in FileIds /\ FileIds' = FileIds
    BY <1>1 DEF FilesInv, FilesType, FileIds
  <1>3. /\ staged[p] \notin {NoFile, active, archive} /\ lines[staged[p]] = <<>>
        /\ active # NoFile /\ fd'[p] = active' /\ staged'[p] = active /\ lock = p
        /\ archive # NoFile => archive # active
    <2>1. staged[p] # NoFile => inodes > 0
      BY <1>2 DEF FileIds, FilesInv, FilesType
    <2> QED BY <1>1, <1>2, <2>1 DEF FilesInv, Handles, Contents
  <1>4. step' \in [Writer -> Steps] /\ step'[p] = "exchanged" /\ "exchanged" \in Steps
        /\ \A q \in Writer : q # p => step'[q] = step[q]
    BY <1>1, StepTyped DEF Steps
  <1>5. FilesType'
    BY <1>1, <1>2, <1>4 DEF FilesInv, FilesType
  <1>6. Alone(p)
    BY <1>1, HolderAlone
  <1>7. Handles(p)'
    BY <1>1, <1>3, <1>4 DEF Handles, Running
  <1>8. Contents'
    BY <1>1, <1>3 DEF FilesInv, Contents
  <1>9. \A g : Held(g)' = Held(g)
    BY <1>1 DEF Held
  <1>10. Ordered'
    <2>1. Held(staged[p]) = {}
      BY <1>3, EmptyHolds
    <2>2. Older(archive, active)'
      BY <1>1, <1>9, <2>1 DEF Older
    <2>3. \A q \in Writer : step'[q] = "exchanged" => Older(archive, staged[q])'
      <3> SUFFICES ASSUME NEW q \in Writer, step'[q] = "exchanged"
                   PROVE  Older(archive, staged[q])'
        OBVIOUS
      <3>1. q = p
        BY <1>4, <1>6 DEF Alone
      <3> QED BY <1>1, <1>3, <1>9, <3>1 DEF FilesInv, Ordered, Older
    <2>4. \A g \in Linked : g \in Linked'
      BY <1>1, <1>2, <1>3 DEF Linked
    <2>5. \A g \in Kept' : g \in Kept \/ Held(g) = {}
      BY <1>1, <1>2, <1>3 DEF Kept
    <2>6. \A i \in DOMAIN written' : Gone(i)' => \A g \in Kept' : \A k \in Held(g)' : i < k
      BY <1>1, <2>4, <2>5, GoneStays
    <2> QED BY <2>2, <2>3, <2>6 DEF Ordered
  <1>11. \A q \in Writer : q # p => fd'[q] = fd[q] /\ staged'[q] = staged[q]
    BY <1>1, <1>2
  <1> QED BY <1>1, <1>4, <1>5, <1>6, <1>7, <1>8, <1>10, <1>11, WriterMoves

\* The file under the temporary name leaves it: removed, kept as a leftover, or
\* made the archive.
LEMMA UnstagedType ==
    ASSUME FilesInv, NEW p \in Writer, NEW w \in Steps, Goes(p, w),
           staged' = [staged EXCEPT ![p] = NoFile],
           UNCHANGED <<active, inodes, lines, written, life>>,
           fd' \in [Writer -> FileIds], archive' \in FileIds, lock' \in Writer \cup {Nobody},
           leftover' \subseteq leftover \cup ({staged[p]} \ {NoFile})
    PROVE  /\ FilesType' /\ staged'[p] = NoFile
           /\ \A q \in Writer : q # p => staged'[q] = staged[q]
           /\ \A g : Held(g)' = Held(g)
  <1>1. FileIds' = FileIds /\ NoFile \in FileIds /\ staged \in [Writer -> FileIds]
        /\ \A g \in FileIds : g # NoFile => g \in 1..inodes
    BY DEF FileIds, FilesInv, FilesType
  <1>2. leftover' \subseteq 1..inodes'
    BY <1>1 DEF FilesInv, FilesType
  <1>3. staged' \in [Writer -> FileIds']
    BY <1>1
  <1>4. FilesType'
    BY <1>1, <1>2, <1>3, StepTyped DEF FilesInv, FilesType
  <1> QED BY <1>1, <1>4 DEF Held

LEMMA UnstageKeeps == ASSUME FilesInv, NEW p \in Writer, Unstage(p) PROVE FilesInv'
  <1>1. /\ step[p] = "staged" /\ Goes(p, "writing") /\ staged' = [staged EXCEPT ![p] = NoFile]
        /\ UNCHANGED <<active, archive, leftover, inodes, lines, written, fd, life, lock>>
    BY DEF Unstage
  <1>2. /\ step'[p] = "writing" /\ "writing" \in Steps
        /\ \A q \in Writer : q # p => step'[q] = step[q]
    BY <1>1, StepTyped DEF Steps
  <1>3. /\ FilesType' /\ staged'[p] = NoFile
        /\ \A q \in Writer : q # p => staged'[q] = staged[q]
        /\ \A g : Held(g)' = Held(g)
    BY <1>1, <1>2, UnstagedType DEF FilesInv, FilesType
  <1>4. Alone(p)
    BY <1>1, HolderAlone
  <1>5. Handles(p)' /\ Contents'
    BY <1>1, <1>2, <1>3 DEF FilesInv, Handles, Running, Contents
  <1>6. Held(staged[p]) = {}
    BY <1>1, EmptyHolds DEF FilesInv, Handles
  <1>7. Ordered'
    <2>1. Older(archive, active)'
      BY <1>1, <1>3 DEF FilesInv, Ordered, Older
    <2>2. \A q \in Writer : step'[q] # "exchanged"
      BY <1>2, <1>4 DEF Alone
    <2>3. \A g \in Linked : g \in Linked' \/ Held(g) = {}
      BY <1>1, <1>3, <1>6 DEF Linked
    <2>4. \A g \in Kept' : g \in Kept
      BY <1>1, <1>3 DEF Kept
    <2>5. \A i \in DOMAIN written' : Gone(i)' => \A g \in Kept' : \A k \in Held(g)' : i < k
      BY <1>1, <2>3, <2>4, GoneStays
    <2> QED BY <2>1, <2>2, <2>5 DEF Ordered
  <1> QED BY <1>1, <1>2, <1>3, <1>4, <1>5, <1>7, WriterMoves

\* The displaced file has the newest lines of all: the archive it replaces may go.
LEMMA ArchiveKeeps == ASSUME FilesInv, NEW p \in Writer, Archive(p) PROVE FilesInv'
  <1>1. /\ step[p] = "exchanged" /\ Goes(p, "writing") /\ staged' = [staged EXCEPT ![p] = NoFile]
        /\ UNCHANGED <<active, inodes, lines, written, fd, life, lock>>
        /\ \/ archive' = staged[p] /\ leftover' = leftover
           \/ archive' = archive /\ leftover' = leftover \cup {staged[p]}
    BY DEF Archive
  <1>2. /\ step'[p] = "writing" /\ "writing" \in Steps
        /\ \A q \in Writer : q # p => step'[q] = step[q]
    BY <1>1, StepTyped DEF Steps
  <1>3. /\ staged[p] \notin {NoFile, active, archive} /\ lines[active] = <<>>
        /\ staged[p] \in FileIds /\ archive \in FileIds /\ fd \in [Writer -> FileIds]
        /\ Older(archive, staged[p])
    BY <1>1 DEF FilesInv, FilesType, Handles, Ordered
  <1>4. /\ FilesType' /\ staged'[p] = NoFile
        /\ \A q \in Writer : q # p => staged'[q] = staged[q]
        /\ \A g : Held(g)' = Held(g)
    BY <1>1, <1>2, <1>3, UnstagedType DEF FilesInv, FilesType
  <1>5. Alone(p)
    BY <1>1, HolderAlone
  <1>6. Handles(p)' /\ Contents'
    BY <1>1, <1>2, <1>3, <1>4 DEF FilesInv, Handles, Running, Contents
  <1>7. Held(active) = {}
    BY <1>3, EmptyHolds
  <1>8. Older(archive, active)'
    BY <1>1, <1>4, <1>7 DEF Older
  <1>9. \A q \in Writer : step'[q] # "exchanged"
    BY <1>2, <1>5 DEF Alone
  <1>10. \A g \in Kept' : g \in Kept
    BY <1>1, <1>3, <1>4 DEF Kept
  <1>11. \A i \in DOMAIN written' : Gone(i)' => \A g \in Kept' : \A k \in Held(g)' : i < k
    <2>1. CASE archive' = archive /\ leftover' = leftover \cup {staged[p]}
      <3>1. \A g \in Linked : g \in Linked'
        BY <1>1, <1>4, <2>1 DEF Linked
      <3> QED BY <1>1, <1>10, <3>1, GoneStays
    <2>2. CASE archive' = staged[p] /\ leftover' = leftover
      <3> SUFFICES ASSUME NEW i \in DOMAIN written, Gone(i)', NEW g \in Kept', NEW k \in Held(g)
                   PROVE  i < k
        BY <1>1, <1>4
      <3>1. \A h \in Linked : h \in Linked' \/ h = archive
        BY <1>1, <1>4, <2>2 DEF Linked
      <3>2. Gone(i) \/ i \in Held(archive)
        BY <1>1, <1>4, <3>1 DEF Gone
      <3>3. CASE Gone(i)
        BY <1>10, <3>3 DEF FilesInv, Ordered
      <3>4. CASE i \in Held(archive) /\ ~Gone(i)
        <4>1. \A q \in Writer : staged'[q] = NoFile
          BY <1>4, <1>5 DEF FilesInv, Handles, Alone
        <4>2. g = staged[p] \/ g = active
          BY <1>1, <2>2, <4>1 DEF Kept
        <4>3. g = staged[p]
          BY <1>7, <4>2
        <4>4. archive # NoFile
          <5>1. archive = NoFile => Gone(i)
            BY <1>1, <1>4, <3>1 DEF Gone, Linked
          <5> QED BY <3>4, <5>1
        <4> QED BY <1>3, <3>4, <4>3, <4>4 DEF Older
      <3> QED BY <3>2, <3>3, <3>4
    <2> QED BY <1>1, <2>1, <2>2
  <1> QED BY <1>1, <1>2, <1>4, <1>5, <1>6, <1>8, <1>9, <1>11, WriterMoves DEF Ordered

\* A new line is later than all others, and goes to the file undo.log names.
LEMMA LineWritten ==
    ASSUME FilesInv, NEW p \in Writer, NEW level \in {"head", "info", "error"}, BeginLine(p, level)
    PROVE  /\ step[p] = "writing" /\ fd[p] = active /\ active \in 1..inodes /\ active \in 1..MaxInodes
           /\ Len(written) \in Nat /\ DOMAIN written = 1..Len(written)
           /\ DOMAIN written' = 1..Len(written) + 1 /\ written' \in Seq(Line)
           /\ Len(lines[active]) \in Nat /\ Len(lines'[active]) = Len(lines[active]) + 1
           /\ DOMAIN lines[active] = 1..Len(lines[active])
           /\ DOMAIN lines'[active] = 1..Len(lines[active]) + 1
           /\ \A i \in 1..Len(written) : written'[i] = written[i]
           /\ written'[Len(written) + 1].pid = p /\ written'[Len(written) + 1].life = life[p]
           /\ ~written'[Len(written) + 1].whole
           /\ \A k \in 1..Len(lines[active]) : lines'[active][k] = lines[active][k]
           /\ lines'[active][Len(lines[active]) + 1] = Len(written) + 1
           /\ \A g \in 1..MaxInodes : g # active => lines'[g] = lines[g]
           /\ lines' \in [1..MaxInodes -> Seq(Nat)]
  <1> DEFINE line == [pid |-> p, life |-> life[p], level |-> level, whole |-> FALSE]
  <1>1. /\ step[p] = "writing" /\ written' = Append(written, line)
        /\ lines' = [lines EXCEPT ![fd[p]] = Append(@, Len(written'))]
    BY DEF BeginLine
  <1>2. /\ fd[p] = active /\ active # NoFile /\ active \in FileIds /\ inodes \in 0..MaxInodes
        /\ written \in Seq(Line) /\ lines \in [1..MaxInodes -> Seq(Nat)]
        /\ MaxInodes \in Nat
    BY <1>1, FileConstants DEF FilesInv, FilesType, Handles, Running
  <1>3. active \in 1..inodes /\ active \in 1..MaxInodes
    BY <1>2 DEF FileIds
  <1>4. line \in Line
    BY DEF Line, FilesInv, FilesType
  <1> HIDE DEF line
  <1>5. /\ Len(written) \in Nat /\ DOMAIN written = 1..Len(written)
        /\ written' \in Seq(Line) /\ Len(written') = Len(written) + 1
        /\ DOMAIN written' = 1..Len(written) + 1
        /\ \A i \in 1..Len(written) : written'[i] = written[i]
        /\ written'[Len(written) + 1] = line
    <2>1. Len(written) \in Nat /\ DOMAIN written = 1..Len(written)
      BY <1>2, LenProperties
    <2>2. /\ written' \in Seq(Line) /\ Len(written') = Len(written) + 1
          /\ \A i \in 1..Len(written) : written'[i] = written[i]
          /\ written'[Len(written) + 1] = line
      BY <1>1, <1>2, <1>4, AppendProperties
    <2>3. DOMAIN written' = 1..Len(written')
      BY <2>2, LenProperties
    <2> QED BY <2>1, <2>2, <2>3
  <1>6. lines' = [lines EXCEPT ![active] = Append(lines[active], Len(written) + 1)]
    BY <1>1, <1>2, <1>5
  <1>7. lines[active] \in Seq(Nat) /\ lines'[active] = Append(lines[active], Len(written) + 1)
        /\ \A g \in 1..MaxInodes : g # active => lines'[g] = lines[g]
    BY <1>2, <1>3, <1>6
  <1>8. /\ Len(lines[active]) \in Nat /\ DOMAIN lines[active] = 1..Len(lines[active])
        /\ lines'[active] \in Seq(Nat) /\ Len(lines'[active]) = Len(lines[active]) + 1
        /\ DOMAIN lines'[active] = 1..Len(lines[active]) + 1
        /\ \A k \in 1..Len(lines[active]) : lines'[active][k] = lines[active][k]
        /\ lines'[active][Len(lines[active]) + 1] = Len(written) + 1
    <2>1. Len(lines[active]) \in Nat /\ DOMAIN lines[active] = 1..Len(lines[active])
      BY <1>7, LenProperties
    <2>2. Len(written) + 1 \in Nat
      BY <1>5
    <2>3. /\ lines'[active] \in Seq(Nat) /\ Len(lines'[active]) = Len(lines[active]) + 1
          /\ \A k \in 1..Len(lines[active]) : lines'[active][k] = lines[active][k]
          /\ lines'[active][Len(lines[active]) + 1] = Len(written) + 1
      BY <1>7, <2>2, AppendProperties
    <2>4. DOMAIN lines'[active] = 1..Len(lines'[active])
      BY <2>3, LenProperties
    <2> QED BY <2>1, <2>3, <2>4
  <1>9. lines' \in [1..MaxInodes -> Seq(Nat)]
    BY <1>2, <1>3, <1>6, <1>7, <1>8
  <1>13. /\ written'[Len(written) + 1].pid = p /\ written'[Len(written) + 1].life = life[p]
         /\ ~written'[Len(written) + 1].whole
    BY <1>5 DEF line
  <1>14. step[p] = "writing" /\ fd[p] = active /\ active \in 1..inodes /\ active \in 1..MaxInodes
    BY <1>1, <1>2, <1>3
  <1>15. \A g \in 1..MaxInodes : g # active => lines'[g] = lines[g]
    BY <1>7
  <1>16. /\ \A i \in 1..Len(written) : written'[i] = written[i]
         /\ \A k \in 1..Len(lines[active]) : lines'[active][k] = lines[active][k]
    BY <1>5, <1>8
  <1> QED BY <1>5, <1>8, <1>9, <1>13, <1>14, <1>15, <1>16

LEMMA HeldAfterWrite ==
    ASSUME FilesInv, NEW p \in Writer, NEW level \in {"head", "info", "error"}, BeginLine(p, level)
    PROVE  /\ Held(active)' = Held(active) \cup {Len(written) + 1}
           /\ \A g \in 1..MaxInodes : g # active => Held(g)' = Held(g)
  <1>1. ToSet(lines'[active]) = ToSet(lines[active]) \cup {Len(written) + 1}
    <2>1. 1..Len(lines[active]) + 1 = (1..Len(lines[active])) \cup {Len(lines[active]) + 1}
      BY LineWritten
    <2>2. /\ Len(lines[active]) \in Nat /\ DOMAIN lines[active] = 1..Len(lines[active])
          /\ DOMAIN lines'[active] = 1..Len(lines[active]) + 1
          /\ \A k \in 1..Len(lines[active]) : lines'[active][k] = lines[active][k]
          /\ lines'[active][Len(lines[active]) + 1] = Len(written) + 1
      BY LineWritten
    <2> QED BY <2>1, <2>2 DEF ToSet
  <1>2. active' = active
    BY DEF BeginLine
  <1>3. Held(active)' = Held(active) \cup {Len(written) + 1}
    BY <1>1, <1>2 DEF Held
  <1>4. \A g \in 1..MaxInodes : g # active => Held(g)' = Held(g)
    BY LineWritten DEF Held
  <1> QED BY <1>3, <1>4

LEMMA BeginLineKeeps ==
    ASSUME FilesInv, NEW p \in Writer, NEW level \in {"head", "info", "error"}, BeginLine(p, level)
    PROVE  FilesInv'
  <1>1. /\ step[p] = "writing" /\ Goes(p, "half")
        /\ UNCHANGED <<active, archive, staged, leftover, inodes, fd, life, lock>>
    BY DEF BeginLine
  <1> DEFINE n == Len(written)
  <1>2. /\ n \in Nat /\ DOMAIN written = 1..n /\ DOMAIN written' = 1..n + 1 /\ written' \in Seq(Line)
        /\ lines' \in [1..MaxInodes -> Seq(Nat)] /\ fd[p] = active /\ active \in 1..inodes
        /\ active \in 1..MaxInodes
    BY LineWritten
  <1>3. /\ Held(active)' = Held(active) \cup {n + 1}
        /\ \A g \in 1..MaxInodes : g # active => Held(g)' = Held(g)
    BY HeldAfterWrite
  <1>4. /\ step'[p] = "half" /\ "half" \in Steps /\ step' \in [Writer -> Steps]
        /\ \A q \in Writer : q # p => step'[q] = step[q]
    BY <1>1, StepTyped DEF Steps
  <1>5. FilesType'
    BY <1>1, <1>2, <1>4 DEF FilesInv, FilesType, FileIds
  <1>6. Alone(p)
    BY <1>1, HolderAlone
  <1>7. Handles(p)'
    BY <1>1, <1>2, <1>4 DEF FilesInv, Handles, Running
  <1>8. Contents'
    <2>1. \A g \in 1..MaxInodes : g > inodes' => lines'[g] = <<>>
      <3> SUFFICES ASSUME NEW g \in 1..MaxInodes, g > inodes PROVE lines'[g] = <<>>
        BY <1>1
      <3>1. g # active
        BY <1>2 DEF FilesInv, FilesType
      <3> QED BY <3>1, LineWritten DEF FilesInv, Contents
    <2>2. ASSUME NEW g \in 1..MaxInodes, NEW k \in DOMAIN lines'[g]
          PROVE  lines'[g][k] \in DOMAIN written'
      <3>1. CASE g # active
        <4>1. lines'[g] = lines[g]
          BY <3>1, LineWritten
        <4>2. lines[g][k] \in 1..n
          BY <1>2, <2>2, <4>1 DEF FilesInv, Contents
        <4> QED BY <1>2, <4>1, <4>2
      <3>2. CASE g = active
        <4>1. /\ Len(lines[active]) \in Nat /\ DOMAIN lines[active] = 1..Len(lines[active])
              /\ DOMAIN lines'[active] = 1..Len(lines[active]) + 1
              /\ \A j \in 1..Len(lines[active]) : lines'[active][j] = lines[active][j]
              /\ lines'[active][Len(lines[active]) + 1] = n + 1
          BY LineWritten
        <4>2. \A j \in 1..Len(lines[active]) : lines[active][j] \in 1..n
          BY <1>2, <4>1 DEF FilesInv, Contents
        <4>3. k \in 1..Len(lines[active]) \/ k = Len(lines[active]) + 1
          BY <2>2, <3>2, <4>1
        <4>4. lines'[active][k] \in 1..n \/ lines'[active][k] = n + 1
          BY <4>1, <4>2, <4>3
        <4> QED BY <1>2, <3>2, <4>4
      <3> QED BY <3>1, <3>2
    <2>3. (inodes' > 0 => active' # NoFile) /\ (archive' # NoFile => archive' # active')
      BY <1>1 DEF FilesInv, Contents
    <2> QED BY <2>1, <2>2, <2>3 DEF Contents
  <1> HIDE DEF n
  <1>9. \A g \in 1..MaxInodes : \A k \in Held(g) : k \in 1..n
    BY <1>2 DEF FilesInv, Contents, Held, ToSet
  <1>10. \A g \in (Linked \cup Kept) : g \in 1..MaxInodes
    <2>1. /\ inodes \in 0..MaxInodes /\ MaxInodes \in Nat
          /\ \A g \in FileIds : g # NoFile => g \in 1..inodes
      BY FileConstants DEF FilesInv, FilesType, FileIds
    <2>2. \A g \in (Linked \cup Kept) : g \in 1..inodes
      BY <2>1 DEF FilesInv, FilesType, Linked, Kept
    <2> QED BY <2>1, <2>2
  <1>11. Linked' = Linked /\ Kept' = Kept
    BY <1>1 DEF Linked, Kept
  <1>12. active \in Linked
    BY <1>2, FileConstants DEF Linked
  <1>13. Ordered'
    <2>1. Older(archive, active)'
      <3>1. CASE archive = NoFile
        BY <1>1, <3>1 DEF Older
      <3>2. CASE archive # NoFile
        <4>1. archive # active /\ archive \in 1..MaxInodes
          BY <3>2, <1>10 DEF FilesInv, Contents, Linked
        <4>2. Held(archive)' = Held(archive) /\ archive' = archive /\ active' = active
          BY <1>1, <1>3, <4>1
        <4>3. ASSUME NEW i \in Held(archive), NEW k \in Held(active)' PROVE i < k
          <5>1. i \in 1..n
            BY <1>9, <4>1, <4>3
          <5>2. CASE k \in Held(active)
            BY <1>2, <3>2, <4>3, <5>2, FileConstants DEF FilesInv, Ordered, Older
          <5>3. CASE k = n + 1
            BY <1>2, <5>1, <5>3
          <5> QED BY <1>3, <4>3, <5>2, <5>3
        <4> QED BY <4>2, <4>3 DEF Older
      <3> QED BY <3>1, <3>2
    <2>2. \A q \in Writer : step'[q] # "exchanged"
      BY <1>4, <1>6 DEF Alone
    <2>3. ASSUME NEW i \in DOMAIN written', Gone(i)', NEW g \in Kept', NEW k \in Held(g)'
          PROVE  i < k
      <3>1. i \notin Held(active)'
        BY <1>1, <1>11, <1>12, <2>3 DEF Gone
      <3>2. i \in DOMAIN written
        BY <1>2, <1>3, <2>3, <3>1
      <3>3. \A h \in Linked : i \notin Held(h)
        <4> SUFFICES ASSUME NEW h \in Linked, i \in Held(h) PROVE FALSE
          OBVIOUS
        <4>1. i \in Held(h)'
          <5>1. CASE h = active
            BY <1>1, <1>3, <5>1
          <5>2. CASE h # active
            BY <1>3, <1>10, <5>2
          <5> QED BY <5>1, <5>2
        <4> QED BY <1>11, <2>3, <4>1 DEF Gone
      <3>4. Gone(i) /\ g \in Kept
        BY <1>11, <2>3, <3>2, <3>3 DEF Gone
      <3>5. CASE k \in Held(g)
        BY <3>2, <3>4, <3>5 DEF FilesInv, Ordered
      <3>6. CASE k = n + 1
        BY <1>2, <3>2, <3>6
      <3>7. k \in Held(g) \/ k = n + 1
        <4>1. CASE g = active
          BY <1>1, <1>3, <2>3, <4>1
        <4>2. CASE g # active
          BY <1>3, <1>10, <2>3, <3>4, <4>2
        <4> QED BY <4>1, <4>2
      <3> QED BY <3>5, <3>6, <3>7
    <2> QED BY <2>1, <2>2, <2>3 DEF Ordered
  <1>14. \A q \in Writer : q # p => fd'[q] = fd[q] /\ staged'[q] = staged[q]
    BY <1>1
  <1>15. "half" \in Steps /\ Goes(p, "half")
    BY <1>1, <1>4
  <1> QED BY <1>5, <1>6, <1>7, <1>8, <1>13, <1>14, <1>15, WriterMoves

\* The rest of a line: which lines there are, and in which file, is as it was.
LEMMA FinishLineKeeps ==
    ASSUME FilesInv, NEW p \in Writer, NEW level \in {"info", "error"}, FinishLine(p, level)
    PROVE  /\ FilesInv'
           /\ DOMAIN written' = DOMAIN written
           /\ \A i \in DOMAIN written : /\ written'[i].pid = written[i].pid
                                        /\ written'[i].life = written[i].life
                                        /\ (written'[i] = written[i] \/ written'[i].level # "head")
  <1> DEFINE n == Len(written)
             line == [written[n] EXCEPT !.level = level, !.whole = TRUE]
  <1>1. /\ step[p] = "half" /\ Goes(p, "idle") /\ lock' = Nobody
        /\ written' = [written EXCEPT ![n] = line]
        /\ UNCHANGED <<active, archive, staged, leftover, inodes, lines, fd, life>>
    BY DEF FinishLine, files
  <1>2. /\ n \in Nat /\ DOMAIN written = 1..n /\ written \in Seq(Line)
        /\ \A i \in 1..n : written[i] \in Line
    <2>1. written \in Seq(Line)
      BY DEF FilesInv, FilesType
    <2> QED BY <2>1, LenProperties
  <1>3. n \in 1..n => /\ line \in Line /\ line.pid = written[n].pid
                      /\ line.life = written[n].life /\ line.level # "head"
    BY <1>2 DEF Line
  <1> HIDE DEF n, line
  <1>4. /\ DOMAIN written' = 1..n /\ \A i \in 1..n : written'[i] = IF i = n THEN line ELSE written[i]
    BY <1>1, <1>2
  <1>5. written' \in Seq(Line)
    <2>1. written' = [i \in 1..n |-> written'[i]]
      BY <1>1, <1>2, <1>4
    <2>2. written' \in [1..n -> Line]
      BY <1>2, <1>3, <1>4, <2>1
    <2> QED BY <1>2, <2>2
  <1>6. \A i \in DOMAIN written : /\ written'[i].pid = written[i].pid
                                 /\ written'[i].life = written[i].life
                                 /\ (written'[i] = written[i] \/ written'[i].level # "head")
    BY <1>2, <1>3, <1>4
  <1>7. /\ step'[p] = "idle" /\ "idle" \in Steps /\ step' \in [Writer -> Steps]
        /\ \A q \in Writer : q # p => step'[q] = step[q]
    BY <1>1, StepTyped DEF Steps
  <1>8. FilesType' /\ Alone(p) /\ Handles(p)'
    BY <1>1, <1>5, <1>7, HolderAlone DEF FilesInv, FilesType, FileIds, Handles, Running
  <1>9. Contents' /\ Ordered'
    <2>1. Contents'
      BY <1>1, <1>2, <1>4 DEF FilesInv, Contents
    <2>2. Linked' = Linked /\ Kept' = Kept /\ \A g : Held(g)' = Held(g)
      BY <1>1 DEF Linked, Kept, Held
    <2>3. Older(archive, active)'
      BY <1>1, <2>2 DEF FilesInv, Ordered, Older
    <2>4. \A q \in Writer : step'[q] # "exchanged"
      BY <1>7, <1>8 DEF Alone
    <2>5. \A i \in DOMAIN written' : Gone(i)' => \A g \in Kept' : \A k \in Held(g)' : i < k
      BY <1>2, <1>4, <2>2 DEF FilesInv, Ordered, Gone
    <2> QED BY <2>1, <2>3, <2>4, <2>5 DEF Ordered
  <1>10. \A q \in Writer : q # p => fd'[q] = fd[q] /\ staged'[q] = staged[q]
    BY <1>1
  <1>11. FilesInv'
    BY <1>1, <1>7, <1>8, <1>9, <1>10, WriterMoves
  <1>12. DOMAIN written' = DOMAIN written
    BY <1>2, <1>4
  <1> QED BY <1>6, <1>11, <1>12

LEMMA GiveUpKeeps == ASSUME FilesInv, NEW p \in Writer, GiveUp(p) PROVE FilesInv'
  <1>1. /\ step[p] \in {"locked", "writing", "half"} /\ Goes(p, "idle") /\ lock' = Nobody
        /\ UNCHANGED <<files, written, fd, life>>
    BY DEF GiveUp
  <1>2. /\ step'[p] = "idle" /\ "idle" \in Steps
        /\ \A q \in Writer : q # p => step'[q] = step[q]
    BY <1>1, StepTyped DEF Steps
  <1>3. Alone(p) /\ Handles(p)'
    BY <1>1, <1>2, HolderAlone DEF FilesInv, Handles, Running, files
  <1> QED BY <1>1, <1>2, <1>3, FilesStay

LEMMA DiesKeeps == ASSUME FilesInv, NEW p \in Writer, Exit(p) \/ Kill(p) PROVE FilesInv'
  <1>1. /\ Goes(p, "off") /\ fd' = [fd EXCEPT ![p] = NoFile]
        /\ leftover' = leftover \cup ({staged[p]} \ {NoFile})
        /\ staged' = [staged EXCEPT ![p] = NoFile]
        /\ lock' = IF lock = p THEN Nobody ELSE lock
        /\ UNCHANGED <<active, archive, inodes, lines, written, life>>
    BY DEF Exit, Kill, Dies
  <1>2. /\ step'[p] = "off" /\ "off" \in Steps
        /\ \A q \in Writer : q # p => step'[q] = step[q]
    BY <1>1, StepTyped DEF Steps
  <1>3. /\ fd' \in [Writer -> FileIds] /\ fd'[p] = NoFile
        /\ \A q \in Writer : q # p => fd'[q] = fd[q]
        /\ archive' \in FileIds /\ lock' \in Writer \cup {Nobody}
    <2>1. NoFile \in FileIds /\ fd \in [Writer -> FileIds] /\ archive \in FileIds
          /\ lock \in Writer \cup {Nobody}
      BY DEF FileIds, FilesInv, FilesType
    <2> QED BY <1>1, <2>1
  <1>4. /\ FilesType' /\ staged'[p] = NoFile
        /\ \A q \in Writer : q # p => staged'[q] = staged[q]
        /\ \A g : Held(g)' = Held(g)
    BY <1>1, <1>2, <1>3, UnstagedType
  <1>5. lock' = lock \/ Alone(p)
    BY <1>1, FileConstants DEF FilesInv, Handles, Alone, Nobody
  <1>6. Handles(p)' /\ Contents'
    BY <1>1, <1>2, <1>4 DEF FilesInv, Handles, Running, Contents
  <1>7. Ordered'
    <2>1. Older(archive, active)'
      BY <1>1, <1>4 DEF FilesInv, Ordered, Older
    <2>2. \A q \in Writer : step'[q] = "exchanged" => Older(archive, staged[q])'
      BY <1>1, <1>2, <1>4 DEF FilesInv, Ordered, Older
    <2>3. \A g \in Linked : g \in Linked'
      BY <1>1, <1>4 DEF Linked
    <2>4. \A g \in Kept' : g \in Kept
      BY <1>1, <1>4 DEF Kept
    <2>5. \A i \in DOMAIN written' : Gone(i)' => \A g \in Kept' : \A k \in Held(g)' : i < k
      BY <1>1, <2>3, <2>4, GoneStays
    <2> QED BY <2>1, <2>2, <2>5 DEF Ordered
  <1> QED BY <1>1, <1>2, <1>3, <1>4, <1>5, <1>6, <1>7, WriterMoves

LEMMA LogInitHolds == LogInit => FilesInv
  <1> SUFFICES ASSUME LogInit PROVE FilesInv
    OBVIOUS
  <1>1. /\ active = NoFile /\ archive = NoFile /\ staged = [p \in Writer |-> NoFile]
        /\ leftover = {} /\ inodes = 0 /\ lines = [i \in 1..MaxInodes |-> <<>>]
        /\ written = <<>> /\ fd = [p \in Writer |-> NoFile]
        /\ step = [p \in Writer |-> "off"] /\ life = [p \in Writer |-> 0] /\ lock = Nobody
    BY DEF LogInit
  <1>2. <<>> \in Seq(Nat) /\ <<>> \in Seq(Line) /\ DOMAIN written = {}
    BY <1>1
  <1>3. FilesType
    BY <1>1, <1>2, FileConstants DEF FilesType, FileIds, Steps
  <1>4. \A p \in Writer : Handles(p)
    BY <1>1 DEF Handles, Running
  <1>5. Contents
    BY <1>1 DEF Contents
  <1>6. Ordered
    BY <1>1, <1>2 DEF Ordered, Older
  <1> QED BY <1>3, <1>4, <1>5, <1>6 DEF FilesInv

(* The launcher: which lines of a file are before its cursor. *)

LaunchType ==
    launch \in [at: {"idle", "cursor", "waiting", "done"},
                cursor: [file: Nat \cup {NoFile}, offset: Nat],
                free: SUBSET Writer, child: Writer \cup {Nobody}, life: Nat,
                reason: SUBSET Nat, there: SUBSET Nat, torn: SUBSET Nat]

\* A line is of the life its process had then, or of an earlier one.
Lives == \A i \in DOMAIN written : written[i].life <= life[written[i].pid]

\* A file only grows after the cursor was taken from it.
CursorStands ==
    launch.cursor.file # NoFile =>
        /\ launch.cursor.file \in 1..MaxInodes
        /\ launch.cursor.offset <= Len(lines[launch.cursor.file])

\* Since the cursor was taken, none of the free ids has written to undo.log ...
AtCursor ==
    launch.at = "cursor" =>
        /\ \A q \in launch.free : ~Running(q)
        /\ active # NoFile => \A k \in DOMAIN lines[active] :
               k > Offset => written[lines[active][k]].pid \notin launch.free
\* ... so what the child's id has written there later is the child's, and what
\* it has written before is of an earlier life.
AtWaiting ==
    launch.at = "waiting" =>
        /\ active # NoFile /\ launch.child \in Writer /\ launch.life = life[launch.child]
        /\ launch.cursor.file # NoFile => \A k \in 1..launch.cursor.offset :
               LET line == written[lines[launch.cursor.file][k]]
               IN line.pid = launch.child => line.life < launch.life
        /\ \A k \in DOMAIN lines[active] : k > Offset =>
               LET line == written[lines[active][k]]
               IN line.pid = launch.child => line.life = launch.life

\* The lines of a file are in the order they were begun, and a whole line has its head.
Growing ==
    /\ \A g \in 1..MaxInodes : \A j, k \in DOMAIN lines[g] : j < k => lines[g][j] < lines[g][k]
    /\ \A i \in DOMAIN written : written[i].level = "head" => ~written[i].whole

LaunchInv == /\ LaunchType /\ Lives /\ CursorStands /\ Growing /\ AtCursor /\ AtWaiting
             /\ ReasonIsTheRecorders

LEMMA LinesTyped ==
    ASSUME FilesInv
    PROVE  /\ active # NoFile => active \in 1..MaxInodes
           /\ \A g \in 1..MaxInodes : /\ lines[g] \in Seq(Nat) /\ Len(lines[g]) \in Nat
                                       /\ DOMAIN lines[g] = 1..Len(lines[g])
           /\ \A g \in 1..MaxInodes : \A k \in DOMAIN lines[g] : lines[g][k] \in DOMAIN written
           /\ Len(written) \in Nat /\ DOMAIN written = 1..Len(written)
           /\ \A i \in DOMAIN written : written[i].pid \in Writer /\ written[i].life \in Nat
           /\ \A q \in Writer : life[q] \in Nat
  <1>1. /\ inodes \in 0..MaxInodes /\ active \in FileIds /\ lines \in [1..MaxInodes -> Seq(Nat)]
        /\ written \in Seq(Line) /\ life \in [Writer -> Nat] /\ MaxInodes \in Nat
    BY FileConstants DEF FilesInv, FilesType
  <1>2. active # NoFile => active \in 1..MaxInodes
    BY <1>1 DEF FileIds
  <1>3. ASSUME NEW g \in 1..MaxInodes
        PROVE  lines[g] \in Seq(Nat) /\ Len(lines[g]) \in Nat /\ DOMAIN lines[g] = 1..Len(lines[g])
    <2>1. lines[g] \in Seq(Nat)
      BY <1>1
    <2> QED BY <2>1, LenProperties
  <1>4. Len(written) \in Nat /\ DOMAIN written = 1..Len(written)
    BY <1>1, LenProperties
  <1>5. \A i \in DOMAIN written : written[i] \in Line
    BY <1>1, <1>4
  <1>6. \A i \in DOMAIN written : written[i].pid \in Writer /\ written[i].life \in Nat
    BY <1>5 DEF Line
  <1> QED BY <1>1, <1>2, <1>3, <1>4, <1>6 DEF FilesInv, Contents

\* What neither writes nor starts a process.
LEMMA LaunchStays ==
    ASSUME FilesInv, LaunchInv, UNCHANGED <<lines, written, life, launch>>,
           \/ active' = active
           \/ active' # NoFile /\ lines'[active'] = <<>>,
           \A q \in Writer : ~Running(q) => ~Running(q)'
    PROVE  LaunchInv'
  <1>1. LaunchType' /\ Lives' /\ CursorStands' /\ Growing' /\ ReasonIsTheRecorders'
    BY DEF LaunchInv, LaunchType, Lives, CursorStands, Growing, ReasonIsTheRecorders
  <1>2. /\ \A q \in launch.free : q \in Writer
        /\ lines' = lines /\ written' = written /\ life' = life /\ launch' = launch
    BY DEF LaunchInv, LaunchType
  <1>3. CASE active' = active
    <2>1. Offset' = Offset
      BY <1>2, <1>3 DEF Offset
    <2> QED BY <1>1, <1>2, <1>3, <2>1 DEF LaunchInv, AtCursor, AtWaiting
  <1>4. CASE active' # NoFile /\ lines'[active'] = <<>>
    <2>1. DOMAIN lines'[active'] = {}
      BY <1>4
    <2>2. AtCursor'
      BY <1>2, <2>1 DEF LaunchInv, AtCursor
    <2>3. AtWaiting'
      BY <1>2, <1>4, <2>1 DEF LaunchInv, AtWaiting
    <2> QED BY <1>1, <2>2, <2>3 DEF LaunchInv
  <1> QED BY <1>3, <1>4

LEMMA FileStepsLaunch ==
    ASSUME FilesInv, LaunchInv, NEW p \in Writer,
           \/ Acquire(p) \/ Refresh(p) \/ Stays(p) \/ Stage(p) \/ Exchange(p)
           \/ Unstage(p) \/ Archive(p) \/ GiveUp(p) \/ Exit(p) \/ Kill(p)
    PROVE  LaunchInv'
  <1>1. UNCHANGED <<lines, written, life, launch>>
    BY DEF Acquire, Refresh, Stays, Stage, Exchange, Unstage, Archive, GiveUp, Exit, Kill, Dies, files,
           OpenAppend
  <1>2. Running(p) /\ step \in [Writer -> Steps]
    BY DEF Acquire, Refresh, Stays, Stage, Exchange, Unstage, Archive, GiveUp, Exit, Kill, Running,
           FilesInv, FilesType
  <1>3. \E w : Goes(p, w)
    BY DEF Acquire, Refresh, Stays, Stage, Exchange, Unstage, Archive, GiveUp, Exit, Kill, Dies
  <1>4. \A q \in Writer : ~Running(q) => ~Running(q)'
    BY <1>2, <1>3 DEF Goes, Running
  <1>5. \/ active' = active
        \/ active' # NoFile /\ lines'[active'] = <<>>
    <2>1. CASE Refresh(p)
      <3>1. fd[p] # NoFile
        BY <1>2 DEF FilesInv, Handles
      <3>2. active # NoFile
        <4>1. inodes > 0
          BY <1>2, <3>1 DEF FilesInv, FilesType, FileIds
        <4> QED BY <4>1 DEF FilesInv, Contents
      <3>3. fd[p] = active => active' = active
        BY <2>1 DEF Refresh, files
      <3>4. fd[p] # active => OpenAppend(p)
        BY <2>1 DEF Refresh
      <3>5. OpenAppend(p) => active' = active
        BY <3>2, OpenedFile
      <3> QED BY <3>3, <3>4, <3>5
    <2>2. CASE Exchange(p)
      BY <2>2 DEF Exchange, FilesInv, Handles
    <2>3. CASE ~Refresh(p) /\ ~Exchange(p)
      BY <2>3 DEF Acquire, Stays, Stage, Unstage, Archive, GiveUp, Exit, Kill, Dies, files
    <2> QED BY <2>1, <2>2, <2>3
  <1> QED BY <1>1, <1>4, <1>5, LaunchStays

\* What an open changes in undo.log: nothing, or there was none and it is empty.
LEMMA OpenedLines ==
    ASSUME FilesInv, NEW p \in Writer, OpenAppend(p)
    PROVE  /\ lines' = lines /\ active' # NoFile
           /\ active # NoFile => active' = active
           /\ active = NoFile => DOMAIN lines'[active'] = {}
  <1>1. lines' = lines /\ active' # NoFile /\ (active # NoFile => active' = active)
    BY OpenedFile
  <1>2. ASSUME active = NoFile PROVE DOMAIN lines'[active'] = {}
    <2>1. inodes = 0 /\ active' = 1 /\ active' \in 1..inodes' /\ inodes' \in inodes..MaxInodes
      BY <1>2, OpenedFile
    <2>2. 1 \in 1..MaxInodes
      BY <2>1, FileConstants
    <2>3. lines[1] = <<>>
      BY <2>1, <2>2 DEF FilesInv, Contents
    <2> QED BY <1>1, <2>1, <2>3
  <1> QED BY <1>1, <1>2

LEMMA StartLaunch ==
    ASSUME FilesInv, LaunchInv, NEW p \in Writer, Start(p) PROVE LaunchInv'
  <1>1. /\ ~Running(p) /\ launch.child # p /\ OpenAppend(p) /\ Goes(p, "idle")
        /\ life' = [life EXCEPT ![p] = @ + 1] /\ written' = written
        /\ launch' = [launch EXCEPT !.free = @ \ {p}]
    BY DEF Start
  <1>2. /\ lines' = lines /\ active' # NoFile
        /\ active # NoFile => active' = active
        /\ active = NoFile => DOMAIN lines'[active'] = {}
    BY <1>1, OpenedLines
  <1>3. /\ launch'.at = launch.at /\ launch'.cursor = launch.cursor
        /\ launch'.free = launch.free \ {p} /\ launch'.child = launch.child
        /\ launch'.life = launch.life /\ launch'.reason = launch.reason
        /\ launch'.there = launch.there /\ launch'.torn = launch.torn /\ LaunchType'
    <2> DEFINE free == launch.free \ {p}
    <2>1. launch' = [launch EXCEPT !.free = free] /\ free \in SUBSET Writer
      BY <1>1 DEF LaunchInv, LaunchType
    <2> HIDE DEF free
    <2>2. /\ launch'.at = launch.at /\ launch'.cursor = launch.cursor
          /\ launch'.free = free /\ launch'.child = launch.child
          /\ launch'.life = launch.life /\ launch'.reason = launch.reason
          /\ launch'.there = launch.there /\ launch'.torn = launch.torn
      BY <2>1 DEF LaunchInv, LaunchType
    <2>3. LaunchType'
      BY <2>1 DEF LaunchInv, LaunchType
    <2> QED BY <2>2, <2>3 DEF free
  <1>4. /\ \A q \in Writer : life'[q] = IF q = p THEN life[q] + 1 ELSE life[q]
        /\ \A q \in Writer : q # p => step'[q] = step[q]
    BY <1>1 DEF FilesInv, FilesType, Goes
  <1>5. Lives'
    <2> SUFFICES ASSUME NEW i \in DOMAIN written PROVE written[i].life <= life'[written[i].pid]
      BY <1>1 DEF Lives
    <2>1. written[i].pid \in Writer /\ written[i].life \in Nat /\ life[written[i].pid] \in Nat
      BY LinesTyped
    <2>2. written[i].life <= life[written[i].pid]
      BY DEF LaunchInv, Lives
    <2> QED BY <1>4, <2>1, <2>2
  <1>6. CursorStands' /\ Growing'
    BY <1>1, <1>2, <1>3 DEF LaunchInv, CursorStands, Growing
  <1>7. active # NoFile => Offset' = Offset
    BY <1>2, <1>3 DEF Offset
  <1>8. AtCursor'
    <2> SUFFICES ASSUME launch.at = "cursor" PROVE AtCursor'
      BY <1>3 DEF AtCursor
    <2>1. \A q \in launch'.free : q \in Writer /\ q # p /\ ~Running(q)
      BY <1>3 DEF LaunchInv, LaunchType, AtCursor
    <2>2. \A q \in launch'.free : ~Running(q)'
      BY <1>4, <2>1 DEF Running
    <2>3. CASE active = NoFile
      BY <1>2, <2>2, <2>3 DEF AtCursor
    <2>4. CASE active # NoFile
      BY <1>1, <1>2, <1>3, <1>7, <2>2, <2>4 DEF LaunchInv, AtCursor
    <2> QED BY <2>3, <2>4
  <1>9. AtWaiting'
    <2> SUFFICES ASSUME launch.at = "waiting" PROVE AtWaiting'
      BY <1>3 DEF AtWaiting
    <2>1. active # NoFile /\ launch.child \in Writer /\ launch.life = life[launch.child]
      BY DEF LaunchInv, AtWaiting
    <2>2. life'[launch.child] = life[launch.child]
      BY <1>1, <1>4, <2>1
    <2> QED BY <1>1, <1>2, <1>3, <1>7, <2>1, <2>2 DEF LaunchInv, AtWaiting
  <1>10. ReasonIsTheRecorders'
    BY <1>3 DEF LaunchInv, ReasonIsTheRecorders
  <1> QED BY <1>3, <1>5, <1>6, <1>8, <1>9, <1>10 DEF LaunchInv

\* A free id has written nothing since the cursor: the new life begins there.
LEMMA SpawnLaunch ==
    ASSUME FilesInv, LaunchInv, NEW p \in Writer, Spawn(p) PROVE LaunchInv' /\ ~Running(p)
  <1>1. /\ launch.at = "cursor" /\ p \in launch.free /\ OpenAppend(p) /\ Goes(p, "idle")
        /\ life' = [life EXCEPT ![p] = @ + 1] /\ written' = written
        /\ launch' = [launch EXCEPT !.at = "waiting", !.free = {}, !.child = p, !.life = life[p] + 1]
    BY DEF Spawn
  <1>2. /\ lines' = lines /\ active' # NoFile
        /\ active # NoFile => active' = active
        /\ active = NoFile => DOMAIN lines'[active'] = {}
    BY <1>1, OpenedLines
  <1>3. life[p] \in Nat
    BY LinesTyped
  <1>4. /\ launch'.at = "waiting" /\ launch'.cursor = launch.cursor
        /\ launch'.free = {} /\ launch'.child = p /\ launch'.life = life[p] + 1
        /\ LaunchType'
    <2> DEFINE new == life[p] + 1
    <2>1. new \in Nat
      BY <1>3
    <2>2. launch' = [launch EXCEPT !.at = "waiting", !.free = {}, !.child = p, !.life = new]
      BY <1>1
    <2> HIDE DEF new
    <2>3. /\ launch'.at = "waiting" /\ launch'.cursor = launch.cursor
          /\ launch'.free = {} /\ launch'.child = p /\ launch'.life = new
      BY <2>2 DEF LaunchInv, LaunchType
    <2>4. LaunchType'
      BY <2>1, <2>2 DEF LaunchInv, LaunchType
    <2> QED BY <2>3, <2>4 DEF new
  <1>5. \A q \in Writer : life'[q] = IF q = p THEN life[q] + 1 ELSE life[q]
    BY <1>1 DEF FilesInv, FilesType
  <1>6. \A i \in DOMAIN written : /\ written[i].pid \in Writer /\ written[i].life \in Nat
                                  /\ life[written[i].pid] \in Nat
                                  /\ written[i].life <= life[written[i].pid]
    BY LinesTyped DEF LaunchInv, Lives
  <1>7. Lives'
    BY <1>1, <1>5, <1>6 DEF Lives
  <1>8. CursorStands' /\ Growing'
    BY <1>1, <1>2, <1>4 DEF LaunchInv, CursorStands, Growing
  <1>9. active # NoFile => Offset' = Offset
    BY <1>2, <1>4 DEF Offset
  <1>10. launch.cursor.file # NoFile => \A k \in 1..launch.cursor.offset :
            LET line == written[lines[launch.cursor.file][k]]
            IN line.pid = p => line.life < life[p] + 1
    <2> SUFFICES ASSUME launch.cursor.file # NoFile, NEW k \in 1..launch.cursor.offset,
                        written[lines[launch.cursor.file][k]].pid = p
                 PROVE  written[lines[launch.cursor.file][k]].life < life[p] + 1
      OBVIOUS
    <2>1. /\ launch.cursor.file \in 1..MaxInodes /\ launch.cursor.offset \in Nat
          /\ launch.cursor.offset <= Len(lines[launch.cursor.file])
      BY DEF LaunchInv, LaunchType, CursorStands
    <2>2. k \in DOMAIN lines[launch.cursor.file]
      BY <2>1, LinesTyped
    <2>3. lines[launch.cursor.file][k] \in DOMAIN written
      BY <2>1, <2>2, LinesTyped
    <2> QED BY <1>3, <1>6, <2>3
  <1>11. active # NoFile => \A k \in DOMAIN lines[active] :
             k > Offset => written[lines[active][k]].pid # p
    BY <1>1 DEF LaunchInv, AtCursor
  <1>12. AtWaiting'
    <2>1. launch'.life = life'[launch'.child]
      BY <1>4, <1>5
    <2>2. \A k \in DOMAIN lines'[active'] : k > Offset' =>
              LET line == written'[lines'[active'][k]]
              IN line.pid = p => line.life = launch'.life
      BY <1>1, <1>2, <1>9, <1>11
    <2> QED BY <1>1, <1>2, <1>4, <1>10, <2>1, <2>2 DEF AtWaiting
  <1>13. AtCursor' /\ ReasonIsTheRecorders'
    BY <1>4 DEF AtCursor, ReasonIsTheRecorders
  <1>14. ~Running(p)
    BY <1>1 DEF LaunchInv, AtCursor
  <1> QED BY <1>4, <1>7, <1>8, <1>12, <1>13, <1>14 DEF LaunchInv

LEMMA TakeCursorLaunch == ASSUME FilesInv, LaunchInv, TakeCursor PROVE LaunchInv'
  <1> DEFINE c == IF active = NoFile THEN NoCursor
                  ELSE [file |-> active, offset |-> Len(lines[active])]
  <1>1. /\ launch' = [launch EXCEPT !.at = "cursor", !.cursor = c,
                                    !.free = {p \in Writer : ~Running(p)}]
        /\ UNCHANGED <<active, lines, written, step, life>>
    BY DEF TakeCursor, files
  <1>2. /\ active # NoFile => /\ active \in 1..MaxInodes /\ Len(lines[active]) \in Nat
                              /\ DOMAIN lines[active] = 1..Len(lines[active])
        /\ c \in [file: Nat \cup {NoFile}, offset: Nat]
    <2>1. active # NoFile => /\ active \in 1..MaxInodes /\ Len(lines[active]) \in Nat
                            /\ DOMAIN lines[active] = 1..Len(lines[active])
      BY LinesTyped
    <2> QED BY <2>1 DEF NoCursor
  <1>3. /\ active # NoFile => c.file = active /\ c.offset = Len(lines[active])
        /\ active = NoFile => c.file = NoFile
    BY DEF NoCursor
  <1> HIDE DEF c
  <1>4. /\ launch'.at = "cursor" /\ launch'.cursor = c
        /\ launch'.free = {p \in Writer : ~Running(p)} /\ LaunchType'
    <2> DEFINE free == {p \in Writer : ~Running(p)}
    <2>1. launch' = [launch EXCEPT !.at = "cursor", !.cursor = c, !.free = free]
          /\ free \in SUBSET Writer
      BY <1>1
    <2> HIDE DEF free
    <2>2. launch'.at = "cursor" /\ launch'.cursor = c /\ launch'.free = free
      BY <2>1 DEF LaunchInv, LaunchType
    <2>3. LaunchType'
      BY <1>2, <2>1 DEF LaunchInv, LaunchType
    <2> QED BY <2>2, <2>3 DEF free
  <1>5. CursorStands' /\ Growing' /\ Lives'
    BY <1>1, <1>2, <1>3, <1>4 DEF LaunchInv, CursorStands, Growing, Lives
  <1>6. active # NoFile => Offset' = Len(lines[active])
    BY <1>1, <1>2, <1>3, <1>4 DEF Offset
  <1>7. AtCursor'
    <2>1. \A q \in launch'.free : ~Running(q)'
      BY <1>1, <1>4 DEF Running
    <2>2. active # NoFile => \A k \in DOMAIN lines[active] : ~(k > Len(lines[active]))
      BY <1>2
    <2> QED BY <1>1, <1>6, <2>1, <2>2 DEF AtCursor
  <1>8. AtWaiting' /\ ReasonIsTheRecorders'
    BY <1>4 DEF AtWaiting, ReasonIsTheRecorders
  <1> QED BY <1>4, <1>5, <1>7, <1>8 DEF LaunchInv

LEMMA BeginLaunch ==
    ASSUME FilesInv, LaunchInv, NEW p \in Writer, NEW level \in {"head", "info", "error"}, BeginLine(p, level)
    PROVE  LaunchInv'
  <1> DEFINE n == Len(written)
             m == Len(lines[active])
  <1>1. /\ step[p] = "writing" /\ n \in Nat /\ DOMAIN written = 1..n /\ DOMAIN written' = 1..n + 1
        /\ active \in 1..MaxInodes /\ active # NoFile
        /\ m \in Nat /\ Len(lines'[active]) = m + 1 /\ DOMAIN lines[active] = 1..m
        /\ DOMAIN lines'[active] = 1..m + 1
        /\ \A i \in 1..n : written'[i] = written[i]
        /\ written'[n + 1].pid = p /\ written'[n + 1].life = life[p] /\ ~written'[n + 1].whole
        /\ \A k \in 1..m : lines'[active][k] = lines[active][k]
        /\ lines'[active][m + 1] = n + 1
    <2>1. active # NoFile
      BY LineWritten, FileConstants
    <2> QED BY <2>1, LineWritten
  <1>2. \A g \in 1..MaxInodes : g # active => lines'[g] = lines[g]
    BY LineWritten
  <1>3. active' = active /\ life' = life /\ launch' = launch /\ Goes(p, "half")
    BY DEF BeginLine
  <1>4. \A q \in Writer : ~Running(q) => ~Running(q)'
    BY <1>1, <1>3 DEF Goes, Running, FilesInv, FilesType
  <1>5. \A g \in 1..MaxInodes : \A k \in DOMAIN lines[g] : lines[g][k] \in 1..n
    BY <1>1, LinesTyped
  <1>6. \A g \in 1..MaxInodes : Len(lines'[g]) \in Nat /\ Len(lines[g]) \in Nat
                                /\ Len(lines[g]) <= Len(lines'[g])
                                /\ \A k \in 1..Len(lines[g]) :
                                       lines[g][k] \in 1..n /\ lines'[g][k] = lines[g][k]
    <2> SUFFICES ASSUME NEW g \in 1..MaxInodes
                 PROVE  /\ Len(lines'[g]) \in Nat /\ Len(lines[g]) \in Nat
                        /\ Len(lines[g]) <= Len(lines'[g])
                        /\ \A k \in 1..Len(lines[g]) :
                               lines[g][k] \in 1..n /\ lines'[g][k] = lines[g][k]
      OBVIOUS
    <2>1. Len(lines[g]) \in Nat /\ DOMAIN lines[g] = 1..Len(lines[g])
      BY LinesTyped
    <2>2. CASE g = active
      <3>1. Len(lines[g]) = m /\ Len(lines'[g]) = m + 1
            /\ \A k \in 1..m : lines'[g][k] = lines[g][k]
        BY <1>1, <2>2
      <3>2. \A k \in 1..m : lines[g][k] \in 1..n
        BY <1>5, <2>1, <3>1
      <3> HIDE DEF n, m
      <3> QED BY <1>1, <3>1, <3>2
    <2>3. CASE g # active
      <3>1. lines'[g] = lines[g]
        BY <1>2, <2>3
      <3> QED BY <1>5, <2>1, <3>1
    <2> QED BY <2>2, <2>3
  <1> HIDE DEF n, m
  <1>7. Lives'
    <2> SUFFICES ASSUME NEW i \in 1..n + 1 PROVE written'[i].life <= life[written'[i].pid]
      BY <1>1, <1>3 DEF Lives
    <2>1. CASE i = n + 1
      BY <1>1, <2>1, LinesTyped
    <2>2. CASE i # n + 1
      <3>1. i \in 1..n
        BY <1>1, <2>2
      <3> QED BY <1>1, <3>1 DEF LaunchInv, Lives
    <2> QED BY <2>1, <2>2
  <1>8. CursorStands'
    <2> SUFFICES ASSUME launch.cursor.file # NoFile
                 PROVE  /\ launch.cursor.file \in 1..MaxInodes
                        /\ launch.cursor.offset <= Len(lines'[launch.cursor.file])
      BY <1>3 DEF CursorStands
    <2>1. /\ launch.cursor.file \in 1..MaxInodes /\ launch.cursor.offset \in Nat
          /\ launch.cursor.offset <= Len(lines[launch.cursor.file])
      BY DEF LaunchInv, LaunchType, CursorStands
    <2> QED BY <1>6, <2>1
  <1>9. Offset' = Offset /\ Offset \in Nat
    <2>1. launch.cursor.offset \in Nat
      BY DEF LaunchInv, LaunchType
    <2>2. CASE active = launch.cursor.file
      <3>1. m >= launch.cursor.offset /\ m + 1 >= launch.cursor.offset
        BY <1>1, <2>1, <2>2 DEF LaunchInv, CursorStands, m
      <3> QED BY <1>1, <1>3, <2>1, <2>2, <3>1 DEF Offset, m
    <2>3. CASE active # launch.cursor.file
      BY <1>3, <2>3 DEF Offset
    <2> QED BY <2>2, <2>3
  <1>10. ASSUME NEW k \in DOMAIN lines'[active]
         PROVE  \/ /\ k \in DOMAIN lines[active]
                   /\ written'[lines'[active][k]] = written[lines[active][k]]
                \/ written'[lines'[active][k]].pid = p /\ written'[lines'[active][k]].life = life[p]
    <2>1. CASE k = m + 1
      BY <1>1, <2>1
    <2>2. CASE k # m + 1
      <3>1. k \in 1..m
        BY <1>1, <1>10, <2>2
      <3>2. lines[active][k] \in 1..n
        BY <1>1, <1>5, <3>1
      <3> QED BY <1>1, <3>1, <3>2
    <2> QED BY <2>1, <2>2
  <1>11. AtCursor'
    <2> SUFFICES ASSUME launch.at = "cursor" PROVE AtCursor'
      BY <1>3 DEF AtCursor
    <2>1. \A q \in launch.free : q \in Writer /\ ~Running(q) /\ ~Running(q)'
      BY <1>4 DEF LaunchInv, LaunchType, AtCursor
    <2>2. p \notin launch.free
      BY <1>1, <2>1 DEF Running
    <2>3. \A k \in DOMAIN lines[active] : k > Offset => written[lines[active][k]].pid \notin launch.free
      BY <1>1 DEF LaunchInv, AtCursor
    <2>4. \A k \in DOMAIN lines'[active] : k > Offset =>
              written'[lines'[active][k]].pid \notin launch.free
      BY <1>10, <2>2, <2>3
    <2> QED BY <1>3, <1>9, <2>1, <2>4 DEF AtCursor
  <1>12. AtWaiting'
    <2> SUFFICES ASSUME launch.at = "waiting" PROVE AtWaiting'
      BY <1>3 DEF AtWaiting
    <2>1. launch.child \in Writer /\ launch.life = life[launch.child]
      BY DEF LaunchInv, AtWaiting
    <2>2. \A k \in DOMAIN lines[active] : k > Offset =>
              (written[lines[active][k]].pid = launch.child
                 => written[lines[active][k]].life = launch.life)
      BY DEF LaunchInv, AtWaiting
    <2>3. \A k \in DOMAIN lines'[active] : k > Offset =>
              (written'[lines'[active][k]].pid = launch.child
                 => written'[lines'[active][k]].life = launch.life)
      BY <1>10, <2>1, <2>2
    <2>4. ASSUME launch.cursor.file # NoFile, NEW k \in 1..launch.cursor.offset,
                 written'[lines'[launch.cursor.file][k]].pid = launch.child
          PROVE  written'[lines'[launch.cursor.file][k]].life < launch.life
      <3>1. /\ launch.cursor.file \in 1..MaxInodes /\ launch.cursor.offset \in Nat
            /\ launch.cursor.offset <= Len(lines[launch.cursor.file])
        BY <2>4 DEF LaunchInv, LaunchType, CursorStands
      <3>2. k \in 1..Len(lines[launch.cursor.file])
        BY <1>6, <3>1
      <3>3. written'[lines'[launch.cursor.file][k]] = written[lines[launch.cursor.file][k]]
        BY <1>1, <1>6, <3>1, <3>2
      <3> QED BY <2>4, <3>3 DEF LaunchInv, AtWaiting
    <2> QED BY <1>1, <1>3, <1>9, <2>1, <2>3, <2>4 DEF AtWaiting
  <1>13. LaunchType' /\ ReasonIsTheRecorders'
    BY <1>3 DEF LaunchInv, LaunchType, ReasonIsTheRecorders
  <1>14. \A g \in 1..MaxInodes : \A j, k \in DOMAIN lines'[g] :
            j < k => lines'[g][j] < lines'[g][k]
    <2> SUFFICES ASSUME NEW g \in 1..MaxInodes, NEW j \in DOMAIN lines'[g],
                        NEW k \in DOMAIN lines'[g], j < k
                 PROVE  lines'[g][j] < lines'[g][k]
      OBVIOUS
    <2>1. CASE g # active
      BY <1>2, <2>1 DEF LaunchInv, Growing
    <2>2. CASE g = active
      <3>1. j \in 1..m /\ lines'[active][j] = lines[active][j] /\ lines[active][j] \in 1..n
        BY <1>1, <1>5, <2>2
      <3>2. CASE k = m + 1
        BY <1>1, <2>2, <3>1, <3>2
      <3>3. CASE k # m + 1
        <4>1. k \in 1..m
          BY <1>1, <2>2, <3>3
        <4> QED BY <1>1, <2>2, <3>1, <4>1 DEF LaunchInv, Growing
      <3> QED BY <3>2, <3>3
    <2> QED BY <2>1, <2>2
  <1>15. \A i \in DOMAIN written' : written'[i].level = "head" => ~written'[i].whole
    <2>1. \A i \in 1..n : written[i].level = "head" => ~written[i].whole
      BY <1>1 DEF LaunchInv, Growing
    <2>2. \A i \in 1..n + 1 : i \in 1..n \/ i = n + 1
      BY <1>1
    <2> QED BY <1>1, <2>1, <2>2
  <1>16. Growing'
    BY <1>14, <1>15 DEF Growing
  <1> QED BY <1>7, <1>8, <1>11, <1>12, <1>13, <1>16 DEF LaunchInv

\* The rest of a line changes neither whose it is nor where.
LEMMA FinishLaunch ==
    ASSUME FilesInv, LaunchInv, NEW p \in Writer, NEW level \in {"info", "error"}, FinishLine(p, level)
    PROVE  LaunchInv'
  <1>1. /\ step[p] = "half" /\ Goes(p, "idle")
        /\ UNCHANGED <<active, inodes, lines, life, launch>>
    BY DEF FinishLine, files
  <1>2. /\ DOMAIN written' = DOMAIN written
        /\ \A i \in DOMAIN written : /\ written'[i].pid = written[i].pid
                                     /\ written'[i].life = written[i].life
                                     /\ (written'[i] = written[i] \/ written'[i].level # "head")
    BY FinishLineKeeps
  <1>3. \A q \in Writer : ~Running(q) => ~Running(q)'
    BY <1>1 DEF Goes, Running, FilesInv, FilesType
  <1>4. \A g \in 1..MaxInodes : \A k \in DOMAIN lines[g] :
            /\ written'[lines[g][k]].pid = written[lines[g][k]].pid
            /\ written'[lines[g][k]].life = written[lines[g][k]].life
    BY <1>2, LinesTyped
  <1>5. LaunchType' /\ CursorStands' /\ ReasonIsTheRecorders' /\ Offset' = Offset
    BY <1>1 DEF LaunchInv, LaunchType, CursorStands, ReasonIsTheRecorders, Offset
  <1>10. Growing'
    BY <1>1, <1>2 DEF LaunchInv, Growing
  <1>6. Lives'
    BY <1>1, <1>2 DEF LaunchInv, Lives
  <1>7. active # NoFile => active \in 1..MaxInodes
    BY LinesTyped
  <1>8. AtCursor'
    <2> SUFFICES ASSUME launch.at = "cursor" PROVE AtCursor'
      BY <1>1 DEF AtCursor
    <2>1. \A q \in launch.free : ~Running(q)'
      BY <1>3 DEF LaunchInv, LaunchType, AtCursor
    <2>2. active # NoFile => \A k \in DOMAIN lines[active] :
              k > Offset => written'[lines[active][k]].pid \notin launch.free
      BY <1>4, <1>7 DEF LaunchInv, AtCursor
    <2> QED BY <1>1, <1>5, <2>1, <2>2 DEF AtCursor
  <1>9. AtWaiting'
    <2> SUFFICES ASSUME launch.at = "waiting" PROVE AtWaiting'
      BY <1>1 DEF AtWaiting
    <2>1. active # NoFile /\ launch.child \in Writer /\ launch.life = life[launch.child]
      BY DEF LaunchInv, AtWaiting
    <2>2. ASSUME launch.cursor.file # NoFile, NEW k \in 1..launch.cursor.offset,
                 written'[lines[launch.cursor.file][k]].pid = launch.child
          PROVE  written'[lines[launch.cursor.file][k]].life < launch.life
      <3>1. /\ launch.cursor.file \in 1..MaxInodes /\ launch.cursor.offset \in Nat
            /\ launch.cursor.offset <= Len(lines[launch.cursor.file])
        BY <2>2 DEF LaunchInv, LaunchType, CursorStands
      <3>2. k \in DOMAIN lines[launch.cursor.file]
        BY <3>1, LinesTyped
      <3> QED BY <1>4, <2>2, <3>1, <3>2 DEF LaunchInv, AtWaiting
    <2>3. \A k \in DOMAIN lines[active] : k > Offset =>
              (written'[lines[active][k]].pid = launch.child
                 => written'[lines[active][k]].life = launch.life)
      BY <1>4, <1>7, <2>1 DEF LaunchInv, AtWaiting
    <2> QED BY <1>1, <1>5, <2>1, <2>2, <2>3 DEF AtWaiting
  <1> QED BY <1>5, <1>6, <1>8, <1>9, <1>10 DEF LaunchInv


\* What SubSeq leaves out is the first part.
LEMMA ReadLines ==
    ASSUME NEW s \in Seq(Nat), NEW o \in Nat
    PROVE  LET r == SubSeq(s, o + 1, Len(s)) IN
           /\ r \in Seq(Nat)
           /\ \A i \in DOMAIN r : o + i \in DOMAIN s /\ r[i] = s[o + i]
           /\ ToSet(r) = {s[k] : k \in {j \in DOMAIN s : j > o}}
  <1> DEFINE r == SubSeq(s, o + 1, Len(s))
             n == Len(s)
  <1>1. n \in Nat /\ DOMAIN s = 1..n /\ \A i \in 1..n : s[i] \in Nat
    BY LenProperties
  <1>2. /\ r \in Seq(Nat) /\ Len(r) = IF o + 1 <= n THEN n - (o + 1) + 1 ELSE 0
        /\ \A i \in 1..n - (o + 1) + 1 : r[i] = s[(o + 1) + i - 1]
    <2>1. o + 1 \in Int /\ n \in Int /\ \A i \in o + 1 .. n : s[i] \in Nat
      BY <1>1
    <2> QED BY <2>1, SubSeqProperties
  <1>3. DOMAIN r = 1..Len(r) /\ Len(r) \in Nat
    BY <1>2, LenProperties
  <1> HIDE DEF r, n
  <1>4. ASSUME NEW i \in DOMAIN r PROVE o + i \in {j \in DOMAIN s : j > o} /\ r[i] = s[o + i]
    <2>1. i \in 1..n - (o + 1) + 1 /\ o + i \in 1..n /\ o + i > o
      BY <1>1, <1>2, <1>3, <1>4
    <2>2. r[i] = s[o + i]
      <3>1. r[i] = s[(o + 1) + i - 1]
        BY <1>2, <2>1
      <3>2. (o + 1) + i - 1 = o + i
        BY <2>1
      <3> QED BY <3>1, <3>2
    <2> QED BY <1>1, <2>1, <2>2
  <1>5. ASSUME NEW k \in {j \in DOMAIN s : j > o} PROVE \E i \in DOMAIN r : r[i] = s[k]
    <2>1. k \in 1..n /\ k > o
      BY <1>1
    <2>2. k - o \in DOMAIN r /\ k - o \in 1..n - (o + 1) + 1
      BY <1>1, <1>2, <1>3, <2>1
    <2>3. r[k - o] = s[k]
      <3>1. r[k - o] = s[(o + 1) + (k - o) - 1]
        BY <1>2, <2>2
      <3>2. (o + 1) + (k - o) - 1 = k
        BY <2>1
      <3> QED BY <3>1, <3>2
    <2> QED BY <2>2, <2>3
  <1>6. ToSet(r) = {s[k] : k \in {j \in DOMAIN s : j > o}}
    BY <1>4, <1>5 DEF ToSet
  <1>7. \A i \in DOMAIN r : o + i \in DOMAIN s /\ r[i] = s[o + i]
    BY <1>4
  <1> QED BY <1>2, <1>6, <1>7 DEF r, n

\* The message that is reported: from an error of the process to past the last
\* one, and nothing in it begins a structured line of its own.
LEMMA LatestErrorIs ==
    ASSUME NEW s \in Seq(Nat), NEW pid, Errors(ToSet(s), pid) # {}
    PROVE  \E from, last \in DOMAIN s :
              /\ s[from] \in Errors(ToSet(s), pid) /\ s[last] \in Errors(ToSet(s), pid)
              /\ \A k \in DOMAIN s : s[k] \in Errors(ToSet(s), pid) => k <= last
              /\ from <= last /\ Continues(s, from, last)
              /\ LatestError(s, pid) =
                     {s[k] : k \in {k \in DOMAIN s : k >= from /\ Continues(s, from, k)}}
  <1> DEFINE found == {k \in DOMAIN s : s[k] \in Errors(ToSet(s), pid)}
             last == Max(found)
             heads == {j \in found : Continues(s, j, last)}
             from == Min(heads)
  <1>1. Len(s) \in Nat /\ DOMAIN s = 1..Len(s)
    BY LenProperties
  <1>2. found # {} /\ found \in SUBSET Nat /\ \A x \in found : x <= Len(s)
    <2>1. PICK i \in Errors(ToSet(s), pid) : TRUE
      OBVIOUS
    <2>2. i \in ToSet(s)
      BY <2>1 DEF Errors
    <2>3. PICK k \in DOMAIN s : s[k] = i
      BY <2>2 DEF ToSet
    <2>4. k \in found
      BY <2>1, <2>3
    <2> QED BY <1>1, <2>4
  <1>3. LatestError(s, pid) =
            {s[k] : k \in {k \in DOMAIN s : k >= from /\ Continues(s, from, k)}}
    BY <1>2 DEF LatestError
  <1> HIDE DEF found
  <1>4. last \in found /\ \A k \in found : k <= last
    BY <1>1, <1>2, MaxIsGreatest
  <1> HIDE DEF last
  <1>5. last \in Nat /\ Continues(s, last, last)
    <2>1. last \in Nat
      BY <1>2, <1>4
    <2>2. last + 1 .. last = {}
      BY <2>1
    <2> QED BY <2>1, <2>2 DEF Continues
  <1>6. heads # {} /\ heads \in SUBSET Nat
    BY <1>2, <1>4, <1>5
  <1> HIDE DEF heads
  <1>7. from \in heads
    BY <1>6, MinIsLeast
  <1> HIDE DEF from
  <1>8. from \in found /\ Continues(s, from, last) /\ from <= last
    BY <1>4, <1>7 DEF heads
  <1>9. from \in DOMAIN s /\ last \in DOMAIN s
    BY <1>4, <1>8 DEF found
  <1> QED BY <1>3, <1>4, <1>8, <1>9 DEF found

\* The errors behind the cursor are those of the child, and all of them.
LEMMA LookForReasonLaunch == ASSUME FilesInv, LaunchInv, LookForReason PROVE LaunchInv'
  <1> DEFINE read == SubSeq(lines[active], Offset + 1, Len(lines[active]))
             found == Errors(ToSet(read), launch.child)
             error == LatestError(read, launch.child)
             torn == {i \in error : ~written[i].whole}
             there == {i \in Errors(ToSet(lines[active]), launch.child) :
                           written[i].life = launch.life}
  <1>1. PICK reason \in {error, {}} :
           /\ launch.at = "waiting" /\ UNCHANGED <<active, lines, written, step, life>>
           /\ reason = {} => error = {} \/ \E i \in torn : error = {i}
           /\ launch' = [launch EXCEPT !.at = "done", !.reason = reason, !.torn = torn,
                                       !.there = there]
    BY DEF LookForReason, files
  <1>2. /\ active # NoFile /\ active \in 1..MaxInodes /\ lines[active] \in Seq(Nat)
        /\ DOMAIN lines[active] = 1..Len(lines[active]) /\ Len(lines[active]) \in Nat
        /\ \A k \in DOMAIN lines[active] : lines[active][k] \in 1..Len(written)
        /\ Len(written) \in Nat
    <2>1. active # NoFile
      BY <1>1 DEF LaunchInv, AtWaiting
    <2> QED BY <2>1, LinesTyped
  <1>3. Offset \in Nat /\ (Offset > 0 => active = launch.cursor.file /\ Offset = launch.cursor.offset)
    BY DEF Offset, LaunchInv, LaunchType
  <1>4. /\ ToSet(read) = {lines[active][k] : k \in {j \in DOMAIN lines[active] : j > Offset}}
        /\ read \in Seq(Nat)
        /\ \A k \in DOMAIN read : /\ Offset + k \in DOMAIN lines[active]
                                /\ read[k] = lines[active][Offset + k]
    <2> HIDE DEF read
    <2>1. \A s \in Seq(Nat) : \A o \in Nat :
              LET r == SubSeq(s, o + 1, Len(s)) IN
              /\ r \in Seq(Nat)
              /\ \A i \in DOMAIN r : o + i \in DOMAIN s /\ r[i] = s[o + i]
              /\ ToSet(r) = {s[k] : k \in {j \in DOMAIN s : j > o}}
      BY ReadLines
    <2> QED BY <1>2, <1>3, <2>1 DEF read
  <1>5. ToSet(lines[active]) = {lines[active][k] : k \in DOMAIN lines[active]}
    BY DEF ToSet
  <1>6. \A k \in DOMAIN lines[active] : written[lines[active][k]].pid = launch.child =>
            (k > Offset <=> written[lines[active][k]].life = launch.life)
    <2> SUFFICES ASSUME NEW k \in DOMAIN lines[active],
                        written[lines[active][k]].pid = launch.child
                 PROVE  k > Offset <=> written[lines[active][k]].life = launch.life
      OBVIOUS
    <2>1. k > Offset => written[lines[active][k]].life = launch.life
      BY <1>1 DEF LaunchInv, AtWaiting
    <2>2. ASSUME ~(k > Offset) PROVE written[lines[active][k]].life # launch.life
      <3>1. Offset > 0 /\ k \in 1..Offset
        BY <1>2, <1>3, <2>2
      <3>2. k \in 1..launch.cursor.offset /\ active = launch.cursor.file
        BY <1>3, <3>1
      <3>3. written[lines[active][k]].life < launch.life
        BY <1>1, <1>2, <3>2 DEF LaunchInv, AtWaiting
      <3>4. launch.life \in Nat /\ written[lines[active][k]].life \in Nat
        BY LinesTyped, <1>2 DEF LaunchInv, LaunchType
      <3> QED BY <3>3, <3>4
    <2> QED BY <2>1, <2>2
  <1> HIDE DEF read
  <1>7. found = there
    BY <1>4, <1>5, <1>6 DEF Errors
  <1>8. there \subseteq 1..Len(written)
    BY <1>2, <1>5 DEF Errors
  <1>9. /\ \A j, k \in DOMAIN read : j < k => read[j] < read[k]
        /\ \A k \in DOMAIN read : read[k] \in 1..Len(written)
        /\ DOMAIN read = 1..Len(read) /\ Len(read) \in Nat
    <2>1. DOMAIN read = 1..Len(read) /\ Len(read) \in Nat
      BY <1>4, LenProperties
    <2>2. \A j, k \in DOMAIN read : j < k => Offset + j < Offset + k
      BY <1>3, <2>1
    <2> QED BY <1>2, <1>4, <2>1, <2>2 DEF LaunchInv, Growing
  <1>10. /\ error \subseteq 1..Len(written) /\ error \in SUBSET Nat
         /\ there = {} => error = {}
    <2>1. found = {} => error = {}
      <3> HIDE DEF read
      <3>1. \A k \in DOMAIN read : read[k] \in ToSet(read)
        BY DEF ToSet
      <3> QED BY DEF LatestError
    <2>2. found # {} => error \subseteq {read[k] : k \in DOMAIN read}
      <3> HIDE DEF read
      <3> QED BY <1>4, LatestErrorIs
    <2> QED BY <1>2, <1>7, <1>9, <2>1, <2>2
  <1>11. there # {} =>
            /\ Max(there) \in error
            /\ \E i \in error \cap there : \A k \in error : i <= k
            /\ error \ {Max(there)} # {} => torn # {}
    <2> SUFFICES ASSUME there # {}
                 PROVE  /\ Max(there) \in error
                        /\ \E i \in error \cap there : \A k \in error : i <= k
                        /\ error \ {Max(there)} # {} => torn # {}
      OBVIOUS
    <2> HIDE DEF read
    <2>1. PICK from, last \in DOMAIN read :
              /\ read[from] \in found /\ read[last] \in found
              /\ \A k \in DOMAIN read : read[k] \in found => k <= last
              /\ from <= last /\ Continues(read, from, last)
              /\ error = {read[k] : k \in {k \in DOMAIN read : k >= from /\ Continues(read, from, k)}}
      BY <1>4, <1>7, LatestErrorIs
    <2> HIDE DEF error, there
    <2>2. from \in Nat /\ last \in Nat
      BY <1>9, <2>1
    <2>3. read[last] \in error /\ read[from] \in error
      <3>1. from + 1 .. from = {}
        BY <2>2
      <3>2. Continues(read, from, from)
        BY <3>1 DEF Continues
      <3> QED BY <2>1, <2>2, <3>2
    <2>4. Max(there) = read[last]
      <3>1. Max(there) \in there /\ \A y \in there : y <= Max(there)
        <4>1. there \in SUBSET Nat /\ \A x \in there : x <= Len(written)
          BY <1>2, <1>8
        <4> QED BY <1>2, <4>1, MaxIsGreatest
      <3>2. PICK k \in DOMAIN read : read[k] = Max(there)
        BY <1>7, <3>1 DEF Errors, ToSet
      <3>3. k <= last
        BY <1>7, <2>1, <3>1, <3>2
      <3>4. read[k] <= read[last]
        BY <1>9, <2>1, <2>2, <3>2, <3>3
      <3>5. read[last] <= Max(there)
        BY <1>7, <2>1, <3>1
      <3> QED BY <1>2, <1>9, <2>1, <3>2, <3>4, <3>5
    <2>5. \A k \in error : read[from] <= k
      BY <1>9, <2>1, <2>2
    <2>6. ASSUME NEW k \in DOMAIN read, k > from, Continues(read, from, k) PROVE torn # {}
      <3>1. /\ k \in Nat /\ k - 1 \in DOMAIN read /\ k - 1 >= from /\ k >= from
            /\ k \in from + 1 .. k /\ from + 1 .. k - 1 \subseteq from + 1 .. k
        BY <1>9, <2>2, <2>6
      <3>2. Continues(read, from, k - 1)
        BY <2>6, <3>1 DEF Continues
      <3>3. read[k] \in error
        BY <2>1, <2>6, <3>1
      <3>6. read[k - 1] \in error
        <4> DEFINE j == k - 1
        <4>1. j \in DOMAIN read /\ j >= from /\ Continues(read, from, j)
          BY <3>1, <3>2
        <4> HIDE DEF j
        <4>2. read[j] \in error
          BY <2>1, <4>1
        <4> QED BY <4>2 DEF j
      <3>4. ~written[read[k - 1]].whole \/ written[read[k]].level = "head"
        BY <2>6, <3>1 DEF Continues, Structured
      <3>5. read[k] \in DOMAIN written
        BY <1>9, LinesTyped
      <3> QED BY <3>3, <3>4, <3>5, <3>6 DEF LaunchInv, Growing
    <2>7. ASSUME error \ {read[last]} # {} PROVE torn # {}
      <3>1. PICK k \in DOMAIN read : k >= from /\ Continues(read, from, k) /\ read[k] # read[last]
        BY <2>1, <2>7
      <3>2. CASE k > from
        BY <2>6, <3>1, <3>2
      <3>3. CASE k = from
        <4>1. last > from
          BY <2>1, <2>2, <3>1, <3>3
        <4> QED BY <2>1, <2>6, <4>1
      <3> QED BY <1>9, <2>2, <3>1, <3>2, <3>3
    <2>8. read[from] \in error \cap there
      BY <1>7, <2>1, <2>3
    <2> QED BY <2>3, <2>4, <2>5, <2>7, <2>8
  <1>12. torn \subseteq error
    OBVIOUS
  <1> HIDE DEF found, there, error, torn
  <1>13. /\ launch'.at = "done" /\ launch'.cursor = launch.cursor
         /\ launch'.reason = reason /\ launch'.there = there /\ launch'.torn = torn
    BY <1>1 DEF LaunchInv, LaunchType
  <1>14. LaunchType'
    <2>1. reason \in SUBSET Nat /\ torn \in SUBSET Nat /\ there \in SUBSET Nat
      BY <1>1, <1>2, <1>8, <1>10, <1>12
    <2> QED BY <1>1, <2>1 DEF LaunchInv, LaunchType
  <1>15. ReasonIsTheRecorders'
    <2>1. CASE there = {}
      BY <1>1, <1>10, <1>13, <2>1 DEF ReasonIsTheRecorders
    <2>2. CASE there # {} /\ reason = error
      <3>1. torn # {} => error \cap torn # {}
        BY <1>12
      <3> QED BY <1>11, <1>13, <2>2, <3>1 DEF ReasonIsTheRecorders
    <2>3. CASE there # {} /\ reason = {}
      <3>1. Max(there) \in torn
        BY <1>1, <1>11, <2>3
      <3> QED BY <1>13, <2>3, <3>1 DEF ReasonIsTheRecorders
    <2> QED BY <1>1, <2>1, <2>2, <2>3
  <1>16. Lives' /\ CursorStands' /\ Growing'
    BY <1>1, <1>13 DEF LaunchInv, Lives, CursorStands, Growing
  <1> QED BY <1>13, <1>14, <1>15, <1>16 DEF LaunchInv, AtCursor, AtWaiting

LEMMA LaunchInitHolds == LogInit => LaunchInv
  <1> SUFFICES ASSUME LogInit PROVE LaunchInv
    OBVIOUS
  <1>1. /\ launch = [at |-> "idle", cursor |-> NoCursor, free |-> {}, child |-> Nobody,
                     life |-> 0, reason |-> {}, there |-> {}, torn |-> {}]
        /\ written = <<>>
    BY DEF LogInit
  <1>2. LaunchType /\ launch.at = "idle" /\ launch.cursor.file = NoFile
    BY <1>1 DEF LaunchType, NoCursor
  <1>3. Lives /\ Growing
    BY <1>1 DEF LogInit, Lives, Growing
  <1> QED BY <1>2, <1>3 DEF LaunchInv, CursorStands, AtCursor, AtWaiting, ReasonIsTheRecorders

LEMMA LogInvariant == LogSpec => [](FilesInv /\ LaunchInv)
  <1>1. FilesInv /\ LaunchInv /\ [LogNext]_logVars => FilesInv' /\ LaunchInv'
    <2> SUFFICES ASSUME FilesInv, LaunchInv, [LogNext]_logVars PROVE FilesInv' /\ LaunchInv'
      OBVIOUS
    <2>1. ASSUME NEW p \in Writer,
                 \/ Acquire(p) \/ Refresh(p) \/ Stays(p) \/ Stage(p) \/ Exchange(p)
                 \/ Unstage(p) \/ Archive(p) \/ GiveUp(p) \/ Exit(p) \/ Kill(p)
          PROVE  FilesInv' /\ LaunchInv'
      BY <2>1, AcquireKeeps, RefreshKeeps, StaysKeeps, StageKeeps, ExchangeKeeps, UnstageKeeps,
         ArchiveKeeps, GiveUpKeeps, DiesKeeps, FileStepsLaunch
    <2>2. ASSUME NEW p \in Writer, Start(p) PROVE FilesInv' /\ LaunchInv'
      BY <2>2, StartKeeps, StartLaunch
    <2>3. ASSUME NEW p \in Writer, Spawn(p) PROVE FilesInv' /\ LaunchInv'
      BY <2>3, StartKeeps, SpawnLaunch
    <2>4. ASSUME NEW p \in Writer, NEW level \in {"head", "info", "error"}, BeginLine(p, level)
          PROVE  FilesInv' /\ LaunchInv'
      BY <2>4, BeginLineKeeps, BeginLaunch
    <2>6. ASSUME NEW p \in Writer, NEW level \in {"info", "error"}, FinishLine(p, level)
          PROVE  FilesInv' /\ LaunchInv'
      BY <2>6, FinishLineKeeps, FinishLaunch
    <2>5. CASE TakeCursor \/ LookForReason \/ UNCHANGED logVars
      <3>1. UNCHANGED <<active, archive, staged, leftover, inodes, lines, written, fd, step,
                        life, lock>>
        BY <2>5 DEF TakeCursor, LookForReason, logVars, files
      <3>2. FilesInv'
        <4>1. FilesType' /\ Contents' /\ \A p \in Writer : Handles(p)'
          BY <3>1 DEF FilesInv, FilesType, FileIds, Handles, Running, Contents
        <4>2. Ordered'
          BY <3>1 DEF FilesInv, Ordered, Older, Held, Kept, Gone, Linked
        <4> QED BY <4>1, <4>2 DEF FilesInv
      <3>3. UNCHANGED logVars => LaunchInv'
        <4> SUFFICES ASSUME UNCHANGED logVars PROVE LaunchInv'
          OBVIOUS
        <4>1. UNCHANGED <<lines, written, life, launch, active, step>>
          BY DEF logVars, files
        <4> QED BY <4>1, LaunchStays DEF Running
      <3> QED BY <2>5, <3>2, <3>3, TakeCursorLaunch, LookForReasonLaunch
    <2> QED BY <2>1, <2>2, <2>3, <2>4, <2>5, <2>6 DEF LogNext
  <1> QED BY <1>1, LogInitHolds, LaunchInitHolds, PTL DEF LogSpec

\* However many processes write, rotate and die, undo.log stays there, and what
\* lines are gone are older than all in undo.log and undo.log.1.
THEOREM NewestLinesStay == LogSpec => []NewestLinesKept
  <1>1. FilesInv => NewestLinesKept
    <2> SUFFICES ASSUME FilesInv PROVE NewestLinesKept
      OBVIOUS
    <2>1. ASSUME NEW i \in DOMAIN written \ LinesIn(Linked), NEW k \in LinesIn({active, archive})
          PROVE  i < k
      <3>1. Gone(i)
        BY <2>1 DEF Gone, LinesIn, Linked, Held
      <3>2. PICK g \in {active, archive} \ {NoFile} : k \in Held(g)
        BY <2>1 DEF LinesIn, Held
      <3>3. g \in Kept
        BY <3>2 DEF Kept
      <3> QED BY <3>1, <3>2, <3>3, <2>1 DEF FilesInv, Ordered
    <2> QED BY <2>1 DEF NewestLinesKept, FilesInv, Contents
  <1> QED BY <1>1, LogInvariant, PTL

\* The reason `undo start` reports is the last error in undo.log of the process
\* it started, whatever else had the same id before, and rotated or not.
THEOREM ReasonsTrue == LogSpec => []ReasonIsTheRecorders
  <1>1. LaunchInv => ReasonIsTheRecorders
    BY DEF LaunchInv
  <1> QED BY <1>1, LogInvariant, PTL

-------------------------------------------------------------------------------
(* The agent's configuration (HookSetup)                                   *)

HookGroups == SUBSET (Installer \cup UserHook)
Configs == [HookEvent -> Seq(HookGroups)]
ConfigType == Configs \cup {Unusable, NoConfig}
SetupType ==
    /\ config \in ConfigType
    /\ setup \in [Installer -> [at : {"idle", "merge", "persist"}, read : ConfigType,
                                stale : BOOLEAN]]
    /\ installed \in Installer \cup {NoOne}
    /\ \A i \in Installer : setup[i].at = "persist" => setup[i].read # Unusable

\* What the user last left is in the file, and in what a setup has read unless
\* the user has saved since.
Untouched ==
    /\ saved = OwnHooks(config)
    /\ \A i \in Installer :
          setup[i].at # "idle" /\ ~setup[i].stale => OwnHooks(setup[i].read) = saved
\* One hook of Undo for each event, in a group of its own.
Managed(groups, i) ==
    /\ \A n \in DOMAIN groups : groups[n] \cap Installer \subseteq {i}
    /\ \E k \in DOMAIN groups : {n \in DOMAIN groups : groups[n] \cap Installer # {}} = {k}
OneHook ==
    installed # NoOne => Usable(config) /\ \A e \in HookEvent : Managed(config[e], installed)
SetupInv == SetupType /\ Untouched /\ OneHook

\* Numbers have one each of the places in their order.
LEMMA PlacesFill ==
    ASSUME NEW S \in SUBSET Nat, IsFiniteSet(S)
    PROVE  /\ Cardinality(S) \in Nat
           /\ \A k \in 1 .. Cardinality(S) :
                 \E x \in S : Cardinality({y \in S : y < x}) = k - 1
           /\ \A x \in S : \E k \in 1 .. Cardinality(S) :
                 Cardinality({y \in S : y < x}) = k - 1
           /\ \A x, y \in S :
                 Cardinality({z \in S : z < x}) = Cardinality({z \in S : z < y}) => x = y
  <1> DEFINE Below(x) == {y \in S : y < x}
             place == [x \in S |-> Cardinality(Below(x)) + 1]
             N == Cardinality(S)
  <1>1. N \in Nat
    BY FS_CardinalityType
  <1>2. ASSUME NEW x \in S
        PROVE  IsFiniteSet(Below(x)) /\ Cardinality(Below(x)) \in Nat /\ Cardinality(Below(x)) < N
    <2>1. Below(x) \in SUBSET S /\ x \notin Below(x)
      OBVIOUS
    <2>2. IsFiniteSet(Below(x)) /\ Cardinality(Below(x)) <= N /\ Below(x) # S
      BY <2>1, FS_Subset
    <2>3. Cardinality(Below(x)) # N
      BY <2>1, <2>2, FS_Subset
    <2>4. Cardinality(Below(x)) \in Nat
      BY <2>2, FS_CardinalityType
    <2> HIDE DEF Below, N
    <2> QED
      BY <1>1, <2>2, <2>3, <2>4
  <1>3. ASSUME NEW x \in S, NEW y \in S, x < y
        PROVE  Cardinality(Below(x)) < Cardinality(Below(y))
    <2>1. Below(x) \in SUBSET Below(y) /\ x \in Below(y) /\ x \notin Below(x)
      <3>1. x \in Nat /\ y \in Nat /\ \A z \in S : z \in Nat
        OBVIOUS
      <3>2. \A z \in S : z < x => z < y
        BY <1>3, <3>1
      <3>3. ~(x < x)
        BY <3>1
      <3> QED
        BY <1>3, <3>2, <3>3, Zenon
    <2>2. Cardinality(Below(x)) <= Cardinality(Below(y)) /\ Below(x) # Below(y)
      BY <1>2, <2>1, FS_Subset
    <2>3. Cardinality(Below(x)) # Cardinality(Below(y))
      BY <1>2, <2>1, <2>2, FS_Subset
    <2> HIDE DEF Below
    <2> QED
      BY <1>2, <2>2, <2>3
  <1>4. ASSUME NEW x \in S, NEW y \in S, Cardinality(Below(x)) = Cardinality(Below(y))
        PROVE  x = y
    <2>1. ~(x < y) /\ ~(y < x)
      BY <1>2, <1>3, <1>4
    <2> QED
      BY <2>1
  <1> HIDE DEF Below, N
  <1>5. \A x \in S : place[x] \in 1 .. N
    BY <1>1, <1>2
  <1>6. place \in Injection(S, 1 .. N)
    BY <1>2, <1>4, <1>5 DEF Injection, IsInjective
  <1>7. IsFiniteSet(1 .. N) /\ Cardinality(1 .. N) = N
    <2>1. Cardinality(1 .. N) = IF 1 > N THEN 0 ELSE N - 1 + 1
      BY <1>1, FS_Interval
    <2> QED
      BY <1>1, <2>1, FS_Interval
  <1>8. place \in Surjection(S, 1 .. N)
    BY <1>6, <1>7, FS_Injection DEF N
  <1>9. ASSUME NEW k \in 1 .. N PROVE \E x \in S : Cardinality(Below(x)) = k - 1
    <2>1. PICK x \in S : place[x] = k
      BY <1>8 DEF Surjection
    <2>2. Cardinality(Below(x)) = k - 1
      BY <1>1, <1>2, <2>1
    <2> QED
      BY <2>2
  <1>10. ASSUME NEW x \in S PROVE \E k \in 1 .. N : Cardinality(Below(x)) = k - 1
    <2>1. Cardinality(Below(x)) = place[x] - 1
      BY <1>2
    <2> QED
      BY <1>5, <2>1
  <1> QED
    BY <1>1, <1>4, <1>9, <1>10 DEF Below, N

\* What a merge keeps of the groups of one event.
LEMMA PreservedKeeps ==
    ASSUME NEW groups \in Seq(HookGroups)
    PROVE  /\ Preserved(groups) \in Seq(HookGroups)
           /\ \A k \in DOMAIN Preserved(groups) : \E n \in DOMAIN groups :
                 Preserved(groups)[k] = groups[n] \cap UserHook
           /\ \A n \in DOMAIN groups : groups[n] \cap UserHook # {} =>
                 \E k \in DOMAIN Preserved(groups) :
                    Preserved(groups)[k] = groups[n] \cap UserHook
  <1> DEFINE S == Staying(groups)
             Rank(n) == Cardinality({m \in S : m < n})
             Chosen(k) == CHOOSE n \in S : Rank(n) = k - 1
             N == Cardinality(S)
  <1>1. ASSUME NEW n \in DOMAIN groups PROVE Foreign(groups[n]) = groups[n] \cap UserHook
    BY <1>1 DEF HookGroups, Foreign, IsUndoHook
  <1>2. S \in SUBSET Nat /\ IsFiniteSet(S) /\ S \subseteq DOMAIN groups
    <2>1. DOMAIN groups = 1 .. Len(groups) /\ Len(groups) \in Nat
      OBVIOUS
    <2>2. IsFiniteSet(1 .. Len(groups))
      BY <2>1, FS_Interval
    <2>3. S \subseteq 1 .. Len(groups)
      BY <2>1 DEF Staying
    <2> QED
      BY <2>1, <2>2, <2>3, FS_Subset
  <1>3. /\ N \in Nat
        /\ \A k \in 1 .. N : \E x \in S : Rank(x) = k - 1
        /\ \A x \in S : \E k \in 1 .. N : Rank(x) = k - 1
        /\ \A x, y \in S : Rank(x) = Rank(y) => x = y
    <2> HIDE DEF S
    <2> QED
      BY <1>2, PlacesFill, Zenon
  <1>4. Preserved(groups) = [k \in 1 .. N |-> Foreign(groups[Chosen(k)])]
    BY DEF Preserved, AheadOf
  <1> HIDE DEF S, Rank, N
  <1>5. ASSUME NEW k \in 1 .. N PROVE Chosen(k) \in S /\ Rank(Chosen(k)) = k - 1
    BY <1>3
  <1> HIDE DEF Chosen
  <1>6. ASSUME NEW k \in 1 .. N
        PROVE  /\ Chosen(k) \in DOMAIN groups
               /\ Preserved(groups)[k] = groups[Chosen(k)] \cap UserHook
    BY <1>1, <1>2, <1>4, <1>5
  <1>7. DOMAIN Preserved(groups) = 1 .. N
    BY <1>4
  <1>8. \A k \in 1 .. N : Preserved(groups)[k] \in HookGroups
    BY <1>6 DEF HookGroups
  <1>9. Preserved(groups) \in [1 .. N -> HookGroups]
    BY <1>4, <1>8
  <1>10. Preserved(groups) \in Seq(HookGroups)
    BY <1>3, <1>9
  <1>11. ASSUME NEW n \in DOMAIN groups, groups[n] \cap UserHook # {}
         PROVE  \E k \in 1 .. N : Preserved(groups)[k] = groups[n] \cap UserHook
    <2>1. n \in S
      BY <1>1, <1>11 DEF S, Staying
    <2>2. PICK k \in 1 .. N : Rank(n) = k - 1
      BY <1>3, <2>1
    <2>3. Chosen(k) = n
      BY <1>3, <1>5, <2>1, <2>2
    <2> QED
      BY <1>6, <2>3
  <1> QED
    BY <1>6, <1>7, <1>10, <1>11

LEMMA HooksAre ==
    ASSUME NEW s, NEW h
    PROVE  h \in UNION ToSet(s) <=> \E k \in DOMAIN s : h \in s[k]
  BY Zenon DEF ToSet

\* A merge keeps the user's hooks and leaves one of Undo's.
LEMMA MergeKeeps ==
    ASSUME NEW groups \in Seq(HookGroups), NEW i \in Installer
    PROVE  /\ MergedEvent(groups, i) \in Seq(HookGroups)
           /\ (UNION ToSet(MergedEvent(groups, i))) \cap UserHook
                 = (UNION ToSet(groups)) \cap UserHook
           /\ Managed(MergedEvent(groups, i), i)
  <1> DEFINE s == Preserved(groups)
             t == MergedEvent(groups, i)
  <1>1. s \in Seq(HookGroups)
    BY PreservedKeeps
  <1>2. {i} \in HookGroups /\ {i} \cap UserHook = {} /\ {i} \cap Installer = {i}
    BY SetupConstants DEF HookGroups
  <1>3. t = Append(s, {i})
    BY DEF MergedEvent
  <1>4. ASSUME NEW k \in DOMAIN s
        PROVE  s[k] \cap Installer = {} /\ \E n \in DOMAIN groups : s[k] = groups[n] \cap UserHook
    BY <1>4, PreservedKeeps, SetupConstants
  <1>5. ASSUME NEW n \in DOMAIN groups, NEW h \in groups[n] \cap UserHook
        PROVE  \E k \in DOMAIN s : h \in s[k]
    BY <1>5, PreservedKeeps
  <1> HIDE DEF s, t
  <1>6. /\ t \in Seq(HookGroups) /\ DOMAIN s = 1 .. Len(s) /\ Len(s) \in Nat
        /\ DOMAIN t = 1 .. Len(s) + 1 /\ t[Len(s) + 1] = {i}
        /\ \A k \in DOMAIN s : t[k] = s[k] /\ k \in DOMAIN t
    BY <1>1, <1>2, <1>3
  <1>7. ASSUME NEW k \in DOMAIN t PROVE k = Len(s) + 1 \/ (k \in DOMAIN s /\ t[k] = s[k])
    BY <1>6
  <1>8. (UNION ToSet(t)) \cap UserHook = (UNION ToSet(groups)) \cap UserHook
    <2>1. ASSUME NEW h \in UserHook, NEW k \in DOMAIN t, h \in t[k]
          PROVE  \E n \in DOMAIN groups : h \in groups[n]
      <3>1. k \in DOMAIN s /\ h \in s[k]
        BY <1>2, <1>6, <1>7, <2>1
      <3> QED
        BY <1>4, <3>1
    <2>2. ASSUME NEW h \in UserHook, NEW n \in DOMAIN groups, h \in groups[n]
          PROVE  \E k \in DOMAIN t : h \in t[k]
      BY <1>5, <1>6, <2>2
    <2>3. \A h \in UserHook : h \in UNION ToSet(t) <=> h \in UNION ToSet(groups)
      BY <2>1, <2>2, HooksAre, Zenon
    <2> QED
      BY <2>3, Zenon
  <1>9. Managed(t, i)
    <2>1. \A n \in DOMAIN t : t[n] \cap Installer \subseteq {i}
      BY <1>2, <1>4, <1>6, <1>7
    <2>2. \A n \in DOMAIN t : t[n] \cap Installer # {} <=> n = Len(s) + 1
      <3>1. ASSUME NEW n \in DOMAIN t, t[n] \cap Installer # {} PROVE n = Len(s) + 1
        BY <1>4, <1>7, <3>1
      <3>2. t[Len(s) + 1] \cap Installer # {}
        BY <1>2, <1>6
      <3> QED
        BY <3>1, <3>2
    <2>3. Len(s) + 1 \in DOMAIN t
      BY <1>6
    <2>4. {n \in DOMAIN t : t[n] \cap Installer # {}} = {Len(s) + 1}
      BY <2>2, <2>3
    <2> QED
      BY <2>1, <2>3, <2>4 DEF Managed
  <1> QED
    BY <1>6, <1>8, <1>9 DEF t

LEMMA ConfigsApart ==
    /\ Unusable \notin Configs /\ NoConfig \notin Configs /\ Unusable # NoConfig
    /\ \A c \in ConfigType : Usable(c) <=> c \in Configs
    /\ Empty \in Configs
    /\ \A e \in HookEvent : OwnHooks(Empty)[e] = {} /\ OwnHooks(NoConfig)[e] = {}
  <1>1. Unusable \notin Configs /\ NoConfig \notin Configs /\ Unusable # NoConfig
    BY SetupConstants DEF Configs, HookGroups
  <1>2. \A c \in ConfigType : Usable(c) <=> c \in Configs
    BY <1>1 DEF ConfigType, Usable
  <1>3. << >> \in Seq(HookGroups) /\ ToSet(<< >>) = {}
    BY DEF ToSet
  <1>4. Empty \in Configs
    BY <1>3 DEF Empty, Configs
  <1>5. ASSUME NEW e \in HookEvent PROVE OwnHooks(Empty)[e] = {} /\ OwnHooks(NoConfig)[e] = {}
    BY <1>3 DEF OwnHooks, HooksOf, Empty, Usable
  <1> QED
    BY <1>1, <1>2, <1>4, <1>5

LEMMA OwnAre ==
    ASSUME NEW c, Usable(c), NEW e \in HookEvent
    PROVE  OwnHooks(c)[e] = (UNION ToSet(c[e])) \cap UserHook
  <1>1. OwnHooks(c)[e] = HooksOf(c, e) \cap UserHook
    BY DEF OwnHooks
  <1> QED
    BY <1>1, Zenon DEF HooksOf

LEMMA MergedKeeps ==
    ASSUME NEW c \in ConfigType, c # Unusable, NEW i \in Installer
    PROVE  /\ Merged(c, i) \in Configs /\ OwnHooks(Merged(c, i)) = OwnHooks(c)
           /\ \A e \in HookEvent : Managed(Merged(c, i)[e], i)
  <1> DEFINE base == IF c = NoConfig THEN Empty ELSE c
             d == Merged(c, i)
  <1>1. base \in Configs
    BY ConfigsApart DEF ConfigType
  <1>2. ASSUME NEW e \in HookEvent
        PROVE  /\ base[e] \in Seq(HookGroups)
              /\ OwnHooks(base)[e] = (UNION ToSet(base[e])) \cap UserHook
               /\ OwnHooks(c)[e] = OwnHooks(base)[e]
    <2>1. base[e] \in Seq(HookGroups) /\ Usable(base)
      BY <1>1, <1>2, ConfigsApart DEF Configs, ConfigType
    <2>2. OwnHooks(base)[e] = (UNION ToSet(base[e])) \cap UserHook
      BY <2>1, <1>2, OwnAre
    <2>3. OwnHooks(c)[e] = OwnHooks(base)[e]
      BY <1>2, ConfigsApart
    <2> QED
      BY <2>1, <2>2, <2>3
  <1>3. d = [e \in HookEvent |-> MergedEvent(base[e], i)]
    BY DEF Merged
  <1> HIDE DEF d
  <1>4. ASSUME NEW e \in HookEvent
        PROVE  /\ d[e] = MergedEvent(base[e], i) /\ d[e] \in Seq(HookGroups)
               /\ (UNION ToSet(d[e])) \cap UserHook = (UNION ToSet(base[e])) \cap UserHook
               /\ Managed(d[e], i)
    <2>1. d[e] = MergedEvent(base[e], i) /\ base[e] \in Seq(HookGroups)
      BY <1>2, <1>3
    <2> HIDE DEF base
    <2> QED
      BY <2>1, MergeKeeps
  <1>5. d \in Configs /\ Usable(d)
    <2>1. d \in Configs
      BY <1>3, <1>4 DEF Configs
    <2> QED
      BY <2>1, ConfigsApart DEF ConfigType
  <1>6. ASSUME NEW e \in HookEvent PROVE OwnHooks(d)[e] = OwnHooks(c)[e]
    <2>1. OwnHooks(d)[e] = (UNION ToSet(d[e])) \cap UserHook
      BY <1>5, <1>6, OwnAre
    <2> QED
      BY <2>1, <1>2, <1>4
  <1>7. OwnHooks(d) = OwnHooks(c)
    <2>1. DOMAIN OwnHooks(d) = HookEvent /\ DOMAIN OwnHooks(c) = HookEvent
          /\ OwnHooks(d) = [e \in HookEvent |-> OwnHooks(d)[e]]
          /\ OwnHooks(c) = [e \in HookEvent |-> OwnHooks(c)[e]]
      BY DEF OwnHooks
    <2> QED
      BY <1>6, <2>1
  <1> QED
    BY <1>4, <1>5, <1>7 DEF d

\* What the user may leave in the file: one more group, or one more hook in a
\* group; Undo's hooks stay what they are.
LEMMA AddedGroup ==
    ASSUME NEW groups \in Seq(HookGroups), NEW h \in UserHook
    PROVE  /\ Append(groups, {h}) \in Seq(HookGroups)
           /\ \A i : Managed(groups, i) => Managed(Append(groups, {h}), i)
  <1> DEFINE t == Append(groups, {h})
  <1>1. {h} \in HookGroups /\ {h} \cap Installer = {}
    BY SetupConstants DEF HookGroups
  <1>2. /\ t \in Seq(HookGroups) /\ DOMAIN groups = 1 .. Len(groups) /\ Len(groups) \in Nat
        /\ DOMAIN t = 1 .. Len(groups) + 1 /\ t[Len(groups) + 1] = {h}
        /\ \A k \in DOMAIN groups : t[k] = groups[k]
    BY <1>1
  <1> HIDE DEF t
  <1>3. \A n : n \in DOMAIN t /\ t[n] \cap Installer # {}
                <=> n \in DOMAIN groups /\ groups[n] \cap Installer # {}
    <2>1. \A n \in DOMAIN groups : n \in DOMAIN t
      BY <1>2
    <2>2. \A n \in DOMAIN t : n \in DOMAIN groups \/ n = Len(groups) + 1
      BY <1>2
    <2> QED
      BY <1>1, <1>2, <2>1, <2>2
  <1>4. ASSUME NEW i, Managed(groups, i) PROVE Managed(t, i)
    <2>1. PICK k \in DOMAIN groups : {n \in DOMAIN groups : groups[n] \cap Installer # {}} = {k}
      BY <1>4 DEF Managed
    <2>2. {n \in DOMAIN t : t[n] \cap Installer # {}} = {k}
      BY <1>3, <2>1
    <2>3. \A n \in DOMAIN t : t[n] \cap Installer \subseteq {i}
      BY <1>2, <1>3, <1>4 DEF Managed
    <2>4. k \in DOMAIN t
      BY <2>2
    <2> QED
      BY <2>2, <2>3, <2>4 DEF Managed
  <1> QED
    BY <1>2, <1>4 DEF t

LEMMA AddedBeside ==
    ASSUME NEW groups \in Seq(HookGroups), NEW m \in DOMAIN groups, NEW h \in UserHook
    PROVE  /\ [groups EXCEPT ![m] = @ \cup {h}] \in Seq(HookGroups)
           /\ \A i : Managed(groups, i) => Managed([groups EXCEPT ![m] = @ \cup {h}], i)
  <1> DEFINE t == [groups EXCEPT ![m] = @ \cup {h}]
  <1>1. h \notin Installer /\ groups[m] \cup {h} \in HookGroups
    BY SetupConstants DEF HookGroups
  <1>2. /\ t \in Seq(HookGroups) /\ DOMAIN t = DOMAIN groups
        /\ \A k \in DOMAIN groups : t[k] = IF k = m THEN groups[m] \cup {h} ELSE groups[k]
    BY <1>1
  <1> HIDE DEF t
  <1>3. \A k \in DOMAIN groups : t[k] \cap Installer = groups[k] \cap Installer
    BY <1>1, <1>2
  <1>4. \A i : Managed(groups, i) => Managed(t, i)
    BY <1>2, <1>3 DEF Managed
  <1> QED
    BY <1>2, <1>4 DEF t

LEMMA SetupStarts == SetupInit => SetupInv
  <1> SUFFICES ASSUME SetupInit PROVE SetupInv
    OBVIOUS
  <1>1. config \in ConfigType
    BY ConfigsApart DEF SetupInit, ConfigType
  <1>2. SetupType
    BY <1>1 DEF SetupInit, SetupType, ConfigType
  <1>3. saved = OwnHooks(config)
    <2>1. \A e \in HookEvent : OwnHooks(config)[e] = {}
      <3>1. \A e \in HookEvent : OwnHooks(Unusable)[e] = {}
        BY DEF OwnHooks, Usable
      <3> QED
        BY <3>1, ConfigsApart DEF SetupInit
    <2>2. OwnHooks(config) = [e \in HookEvent |-> OwnHooks(config)[e]]
      BY DEF OwnHooks
    <2> QED
      BY <2>1, <2>2 DEF SetupInit
  <1>4. Untouched
    BY <1>3 DEF SetupInit, Untouched
  <1>5. OneHook
    BY DEF SetupInit, OneHook
  <1> QED
    BY <1>2, <1>4, <1>5 DEF SetupInv

LEMMA PersistKeeps ==
    ASSUME SetupInv, NEW i \in Installer, Persist(i)
    PROVE  SetupInv'
  <1> DEFINE c == setup[i].read
  <1> USE DEF SetupInv
  <1>1. c \in ConfigType /\ c # Unusable /\ setup[i].at = "persist"
    BY DEF SetupType, Persist
  <1>2. /\ config' = Merged(c, i) /\ config' \in Configs /\ OwnHooks(config') = OwnHooks(c)
        /\ \A e \in HookEvent : Managed(config'[e], i)
    BY <1>1, MergedKeeps DEF Persist
  <1>3. /\ config' \in ConfigType /\ Usable(config')
    BY <1>2, ConfigsApart DEF ConfigType
  <1>4. saved' = OwnHooks(config') /\ (~setup[i].stale => saved' = saved)
    BY <1>1, <1>2 DEF Untouched, Persist, SetupType
  <1>5. setup' = [j \in Installer |-> [setup[j] EXCEPT
           !.at = IF j = i THEN "idle" ELSE @, !.stale = @ \/ setup[i].stale]]
    BY DEF Persist
  <1>6. ASSUME NEW j \in Installer
        PROVE  /\ setup'[j] \in [at : {"idle", "merge", "persist"}, read : ConfigType,
                                  stale : BOOLEAN]
               /\ setup'[j].at = IF j = i THEN "idle" ELSE setup[j].at
               /\ setup'[j].read = setup[j].read
               /\ setup'[j].stale = (setup[j].stale \/ setup[i].stale)
    BY <1>5, <1>6 DEF SetupType
  <1>7. SetupType'
    BY <1>1, <1>3, <1>5, <1>6 DEF SetupType, Persist
  <1>8. Untouched'
    <2>1. ASSUME NEW j \in Installer, setup'[j].at # "idle", ~setup'[j].stale
          PROVE  OwnHooks(setup'[j].read) = saved'
      BY <1>4, <1>6, <2>1 DEF Untouched
    <2> QED
      BY <1>4, <2>1 DEF Untouched
  <1>9. OneHook'
    BY <1>2, <1>3 DEF OneHook, Persist
  <1> QED
    BY <1>7, <1>8, <1>9

\* Whatever the user saves, it is enough that the file is well formed, and that
\* Undo's hooks are as they were if a setup is still said to have put them.
LEMMA SaveKeeps ==
    ASSUME SetupInv, NEW c, NEW whose, Save(c, whose), c \in ConfigType,
           whose \in {NoOne, installed},
           whose # NoOne => Usable(c) /\ \A e \in HookEvent : Managed(c[e], whose)
    PROVE  SetupInv'
  <1> USE DEF SetupInv
  <1>1. config' = c /\ installed' = whose /\ saved' = OwnHooks(c)
        /\ setup' = [i \in Installer |-> [setup[i] EXCEPT !.stale = TRUE]]
    BY DEF Save
  <1>2. ASSUME NEW j \in Installer
        PROVE  /\ setup'[j] \in [at : {"idle", "merge", "persist"}, read : ConfigType,
                                  stale : BOOLEAN]
               /\ setup'[j].at = setup[j].at /\ setup'[j].read = setup[j].read
               /\ setup'[j].stale
    BY <1>1, <1>2 DEF SetupType
  <1>3. SetupType'
    BY <1>1, <1>2 DEF SetupType
  <1>4. Untouched'
    BY <1>1, <1>2 DEF Untouched
  <1>5. OneHook'
    BY <1>1 DEF OneHook
  <1> QED
    BY <1>3, <1>4, <1>5

LEMMA AddHookKeeps ==
    ASSUME SetupInv, NEW e \in HookEvent, NEW h \in UserHook, AddHook(e, h)
    PROVE  SetupInv'
  <1> DEFINE c == IF config = NoConfig THEN Empty ELSE config
             wide == [c EXCEPT ![e] = Append(@, {h})]
             beside(n) == [c EXCEPT ![e][n] = @ \cup {h}]
  <1>1. c \in Configs /\ installed \in Installer \cup {NoOne}
    BY ConfigsApart DEF SetupInv, SetupType, AddHook, ConfigType
  <1>2. installed # NoOne => c = config /\ \A f \in HookEvent : Managed(c[f], installed)
    BY DEF SetupInv, OneHook, Usable
  <1> HIDE DEF c
  <1>3. c[e] \in Seq(HookGroups)
    BY <1>1 DEF Configs
  <1>4. ASSUME NEW s \in Seq(HookGroups), \A i : Managed(c[e], i) => Managed(s, i),
               Save([c EXCEPT ![e] = s], installed)
        PROVE  SetupInv'
    <2>1. [c EXCEPT ![e] = s] \in Configs
      BY <1>1, <1>4 DEF Configs
    <2>2. [c EXCEPT ![e] = s] \in ConfigType /\ Usable([c EXCEPT ![e] = s])
      BY <2>1, ConfigsApart DEF ConfigType
    <2>3. ASSUME installed # NoOne, NEW f \in HookEvent
          PROVE  Managed([c EXCEPT ![e] = s][f], installed)
      <3>1. [c EXCEPT ![e] = s][f] = IF f = e THEN s ELSE c[f]
        BY <1>1 DEF Configs
      <3> QED
        BY <1>2, <1>4, <2>3, <3>1
    <2> QED
      BY <1>4, <2>2, <2>3, SaveKeeps
  <1>5. CASE Save(wide, installed)
    <2>1. wide = [c EXCEPT ![e] = Append(c[e], {h})]
      BY <1>1 DEF Configs
    <2> QED
      BY <1>3, <1>4, <1>5, <2>1, AddedGroup
  <1>6. ASSUME NEW n \in DOMAIN c[e], Save(beside(n), installed) PROVE SetupInv'
    <2>1. beside(n) = [c EXCEPT ![e] = [c[e] EXCEPT ![n] = @ \cup {h}]]
      BY <1>1 DEF Configs
    <2> QED
      BY <1>3, <1>4, <1>6, <2>1, AddedBeside
  <1> QED
    BY <1>5, <1>6 DEF AddHook, c

LEMMA CopyGroupKeeps ==
    ASSUME SetupInv, NEW e \in HookEvent, CopyGroup(e)
    PROVE  SetupInv'
  <1>1. config \in Configs
    BY ConfigsApart DEF SetupInv, SetupType, CopyGroup
  <1>2. PICK n \in DOMAIN config[e] : Save([config EXCEPT ![e] = Append(@, config[e][n])], NoOne)
    BY DEF CopyGroup
  <1>3. config[e] \in Seq(HookGroups)
    BY <1>1 DEF Configs
  <1>4. Append(config[e], config[e][n]) \in Seq(HookGroups)
    BY <1>3
  <1>5. [config EXCEPT ![e] = Append(@, config[e][n])] \in ConfigType
    BY <1>1, <1>4 DEF Configs, ConfigType
  <1> QED
    BY <1>2, <1>5, SaveKeeps

LEMMA RemoveGroupKeeps ==
    ASSUME SetupInv, NEW e \in HookEvent, RemoveGroup(e)
    PROVE  SetupInv'
  <1>1. config \in Configs
    BY ConfigsApart DEF SetupInv, SetupType, RemoveGroup
  <1>2. PICK n \in DOMAIN config[e] : Save([config EXCEPT ![e] = RemoveAt(@, n)], NoOne)
    BY DEF RemoveGroup
  <1>3. config[e] \in Seq(HookGroups)
    BY <1>1 DEF Configs
  <1>4. RemoveAt(config[e], n) \in Seq(HookGroups)
    BY <1>3 DEF RemoveAt
  <1>5. [config EXCEPT ![e] = RemoveAt(@, n)] \in ConfigType
    BY <1>1, <1>4 DEF Configs, ConfigType
  <1> QED
    BY <1>2, <1>5, SaveKeeps

LEMMA SetupGoesOn == SetupInv /\ [SetupNext]_setupVars => SetupInv'
  <1> SUFFICES ASSUME SetupInv, [SetupNext]_setupVars PROVE SetupInv'
    OBVIOUS
  <1>1. ASSUME NEW i \in Installer, ReadConfig(i) PROVE SetupInv'
    <2>1. setup' = [setup EXCEPT ![i] = [at |-> "merge", read |-> config, stale |-> FALSE]]
          /\ UNCHANGED <<config, installed, saved>>
      BY <1>1 DEF ReadConfig
    <2>2. SetupType'
      BY <2>1 DEF SetupInv, SetupType
    <2>3. Untouched'
      BY <2>1 DEF SetupInv, SetupType, Untouched
    <2> QED
      BY <2>1, <2>2, <2>3 DEF SetupInv, OneHook
  <1>2. ASSUME NEW i \in Installer, Prepare(i) \/ SetupEnds(i) PROVE SetupInv'
    <2>1. UNCHANGED <<config, installed, saved>> /\ setup[i].at # "idle"
      BY <1>2 DEF Prepare, SetupEnds
    <2>2. PICK at \in {"idle", "persist"} :
             /\ setup' = [setup EXCEPT ![i].at = at]
             /\ at = "persist" => setup[i].read # Unusable
      BY <1>2, Zenon DEF Prepare, SetupEnds, Reaches
    <2>3. SetupType'
      BY <2>1, <2>2 DEF SetupInv, SetupType
    <2>4. Untouched'
      BY <2>1, <2>2 DEF SetupInv, SetupType, Untouched
    <2> QED
      BY <2>1, <2>3, <2>4 DEF SetupInv, OneHook
  <1>3. ASSUME NEW i \in Installer, Persist(i) PROVE SetupInv'
    BY <1>3, PersistKeeps
  <1>4. ASSUME NEW e \in HookEvent,
               (\E h \in UserHook : AddHook(e, h)) \/ CopyGroup(e) \/ RemoveGroup(e)
        PROVE  SetupInv'
    BY <1>4, AddHookKeeps, CopyGroupKeeps, RemoveGroupKeeps
  <1>5. CASE Spoil
    <2>1. Unusable \in ConfigType
      BY DEF ConfigType
    <2> QED
      BY <1>5, <2>1, SaveKeeps DEF Spoil
  <1>6. CASE UNCHANGED setupVars
    BY <1>6 DEF setupVars, SetupInv, SetupType, Untouched, OneHook
  <1> QED
    BY <1>1, <1>2, <1>3, <1>4, <1>5, <1>6 DEF SetupNext

\* However often setups run, overlap and die, the hooks the user left in the
\* agent's configuration stay, but for what was saved between a setup's read
\* and its rename, and a setup that succeeded leaves one hook of Undo's for
\* each event, its own.
THEOREM SetupStaysMerged == SetupSpec => []SetupMerges
  <1>1. SetupInv => SetupMerges
    <2> SUFFICES ASSUME SetupInv PROVE SetupMerges
      OBVIOUS
    <2>1. \A e \in HookEvent : saved[e] \subseteq OwnHooks(config)[e]
      BY DEF SetupInv, Untouched
    <2>2. ASSUME installed # NoOne, NEW e \in HookEvent
          PROVE  UndoHooks(e) = {installed} /\ Cardinality(GroupsWithUndo(e)) = 1
      <3>1. Managed(config[e], installed) /\ installed \in Installer
        BY <2>2 DEF SetupInv, SetupType, OneHook
      <3>2. PICK k \in DOMAIN config[e] : GroupsWithUndo(e) = {k}
        BY <3>1 DEF Managed, GroupsWithUndo
      <3>3. Cardinality(GroupsWithUndo(e)) = 1
        BY <3>2, FS_Singleton
      <3>4. \A h : h \in HooksOf(config, e) <=> \E n \in DOMAIN config[e] : h \in config[e][n]
        BY HooksAre, Zenon DEF HooksOf
      <3>5. \A h \in UndoHooks(e) : h = installed
        BY <3>1, <3>4 DEF UndoHooks, Managed
      <3>6. installed \in config[e][k]
        <4>1. k \in GroupsWithUndo(e)
          BY <3>2
        <4>2. config[e][k] \cap Installer # {}
              /\ config[e][k] \cap Installer \subseteq {installed}
          BY <4>1, <3>1 DEF GroupsWithUndo, Managed
        <4> QED
          BY <4>2
      <3>7. installed \in UndoHooks(e)
        BY <3>1, <3>4, <3>6 DEF UndoHooks
      <3> QED
        BY <3>3, <3>5, <3>7
    <2> QED
      BY <2>1, <2>2 DEF SetupMerges
  <1> QED
    BY <1>1, SetupStarts, SetupGoesOn, PTL DEF SetupSpec

===============================================================================
