------------------------ MODULE SnapshotStore_proofs ------------------------
(***************************************************************************)
(* The safety of the snapshot store for every set of processes, paths and  *)
(* contents.                                                               *)
(***************************************************************************)
EXTENDS SnapshotStore, TLAPS

\* Hashes referred to by an event younger than the operations in flight.
Covered == FreshHashes \cup readopted

LockMatchesLocation(p) ==
    /\ lock[p] = "exclusive" <=> pc[p] \in {"dropEvents", "mark", "sweep"}
    /\ pc[p] \in {"publish", "commit", "scan", "planIntent"} => lock[p] = "shared"
    /\ pc[p] \in {"idle", "refresh", "commitDelete", "wantShared", "wantExclusive"}
         => lock[p] = "none"

OpShape(p) ==
    /\ pc[p] = "idle" => op[p] = NoOp
    /\ pc[p] \in {"refresh", "publish", "commit", "savePlan"} => op[p].hash \in Hash
    /\ pc[p] = "wantShared" /\ op[p].kind \notin {"scan", "intent"} => op[p].hash \in Hash
    /\ pc[p] = "scan" => op[p].kind = "scan"
    /\ pc[p] = "wantShared" => Read(op[p]) = {}
    /\ op[p].kind = "scan" => op[p].dst = Path
    /\ pc[p] = "refresh" =>
         \A q \in op[p].dst : op[p].seen[q] = [hash |-> op[p].hash, live |-> TRUE]
    /\ \A q \in Path : op[p].seen[q].live => op[p].seen[q].hash \in Hash

\* A row that is no longer what the operation read was changed by a commit
\* whose event is still young, so both its old and its new content are pinned.
ChangeCovered(p) ==
    \A q \in op[p].src \cup op[p].dst :
        rows[q] # op[p].seen[q] =>
            /\ rows[q].live => rows[q].hash \in Covered
            /\ op[p].seen[q].live => op[p].seen[q].hash \in Covered

InFlightKept(p) ==
    /\ pc[p] = "commit" => op[p].hash \in snaps
    /\ pc[p] = "scan" => {op[p].found[q] : q \in Changed(op[p])} \subseteq snaps
    /\ pc[p] = "savePlan" /\ lock[p] = "shared" => op[p].hash \in snaps \cup readopted

SweepSeesPins(p) ==
    pc[p] = "sweep" =>
        /\ Pinned \subseteq op[p].live \cup readopted
        /\ \A r \in refs : r.role = "cur" => r.hash \in op[p].live

Local(p) ==
    /\ LockMatchesLocation(p)
    /\ OpShape(p)
    /\ ChangeCovered(p)
    /\ InFlightKept(p)
    /\ SweepSeesPins(p)

Exclusion ==
    \A p, q \in Proc : p # q /\ lock[p] = "exclusive" => lock[q] = "none"

RowsConsistent == \A q \in Path : rows[q].live => rows[q].hash \in Hash

IInv ==
    /\ TypeOK
    /\ Exclusion
    /\ RowsConsistent
    /\ \A p \in Proc : Local(p)
    /\ ReferencedSnapshotsKept
    /\ CapturedContentKept

-----------------------------------------------------------------------------
(* Facts about the helpers                                                 *)

\* Inserting events adds their hashes to the referenced ones, all of them
\* young, and nothing else.
LEMMA InsertedHashes ==
    ASSUME NEW current, NEW previous, InsertEvents(current, previous)
    PROVE  /\ RefHashes' = RefHashes \cup current \cup previous
           /\ FreshHashes' = FreshHashes \cup current \cup previous
           /\ \A r \in refs' : r \in refs \/ r.role = "prev" \/ r.hash \in current
  <1>1. /\ \A h : h \in RefHashes <=> \E r \in refs : r.hash = h
        /\ \A h : h \in RefHashes' <=> \E r \in refs' : r.hash = h
        /\ \A h : h \in FreshHashes <=> \E r \in refs : ~r.aged /\ r.hash = h
        /\ \A h : h \in FreshHashes' <=> \E r \in refs' : ~r.aged /\ r.hash = h
    BY DEF RefHashes, FreshHashes
  <1>2. \A r : r \in refs' <=>
          \/ r \in refs
          \/ \E h \in current : r = [hash |-> h, role |-> "cur", aged |-> FALSE]
          \/ \E h \in previous : r = [hash |-> h, role |-> "prev", aged |-> FALSE]
    BY DEF InsertEvents, Fresh
  <1>3. \A h \in current : [hash |-> h, role |-> "cur", aged |-> FALSE] \in refs'
    BY <1>2
  <1>4. \A h \in previous : [hash |-> h, role |-> "prev", aged |-> FALSE] \in refs'
    BY <1>2
  <1>5. \A r \in refs' : \/ r \in refs
                         \/ r.hash \in current /\ r.role = "cur" /\ ~r.aged
                         \/ r.hash \in previous /\ r.role = "prev" /\ ~r.aged
    BY <1>2
  <1>6. refs \subseteq refs'
    BY <1>2
  <1>7. ASSUME NEW h PROVE h \in RefHashes' <=> h \in RefHashes \cup current \cup previous
    <2>1. h \in current => \E r \in refs' : r.hash = h
      BY <1>3
    <2>2. h \in previous => \E r \in refs' : r.hash = h
      BY <1>4
    <2> QED
      BY <1>1, <1>5, <1>6, <2>1, <2>2
  <1>8. ASSUME NEW h PROVE h \in FreshHashes' <=> h \in FreshHashes \cup current \cup previous
    <2>1. h \in current => \E r \in refs' : ~r.aged /\ r.hash = h
      BY <1>3
    <2>2. h \in previous => \E r \in refs' : ~r.aged /\ r.hash = h
      BY <1>4
    <2> QED
      BY <1>1, <1>5, <1>6, <2>1, <2>2
  <1> QED
    BY <1>5, <1>7, <1>8

\* The hashes read from existing rows, path by path.
LEMMA SeenLiveElements ==
    ASSUME NEW o, NEW paths, NEW h
    PROVE  h \in SeenLive(o, paths) <=>
             h # None /\ \E q \in paths : o.seen[q].live /\ o.seen[q].hash = h
  BY DEF SeenLive, NonNull

\* What is pinned, element by element.
LEMMA PinnedElements ==
    ASSUME NEW h
    PROVE  h \in Pinned <=>
             \/ h \in RefHashes
             \/ h # None /\ \E q \in Path : rows[q].live /\ rows[q].hash = h
             \/ \E r \in recs : r.guarded /\ r.target = h
  BY DEF Pinned, NonNull, LiveRowHashes

-----------------------------------------------------------------------------
(* One step of p and the other processes                                   *)

\* What a step of p does to a row leaves the old and the new content pinned by
\* a young event.
RowChangesCovered ==
    \A q \in Path : rows'[q] # rows[q] =>
        /\ rows[q].live => rows[q].hash \in Covered'
        /\ rows'[q].live => rows'[q].hash \in Covered'

\* What process r relies on survives a step of another process that grows the
\* set of young references, shrinks the store only when r has no shared lock
\* and pins something new only when r is not sweeping.
LEMMA OtherProcess ==
    ASSUME NEW r \in Proc, TypeOK, Local(r),
           pc'[r] = pc[r], op'[r] = op[r], lock'[r] = lock[r],
           Covered \subseteq Covered',
           readopted \subseteq readopted',
           RowChangesCovered,
           lock[r] = "shared" => snaps \subseteq snaps',
           pc[r] = "sweep" => /\ Pinned' \subseteq Pinned \cup readopted'
                              /\ \A x \in refs' : x.role = "cur" => x \in refs
    PROVE  Local(r)'
  <1>1. LockMatchesLocation(r)'
    BY DEF Local, LockMatchesLocation
  <1>2. OpShape(r)'
    BY DEF Local, OpShape
  <1>3. ChangeCovered(r)'
    <2> SUFFICES ASSUME NEW q \in op[r].src \cup op[r].dst,
                        rows'[q] # op[r].seen[q]
                 PROVE  /\ rows'[q].live => rows'[q].hash \in Covered'
                        /\ op[r].seen[q].live => op[r].seen[q].hash \in Covered'
      BY DEF ChangeCovered
    <2>1. q \in Path
      BY DEF TypeOK, Op
    <2>2. CASE rows'[q] = rows[q]
      BY <2>2 DEF Local, ChangeCovered
    <2>3. CASE rows'[q] # rows[q]
      BY <2>1, <2>3 DEF RowChangesCovered, Local, ChangeCovered
    <2> QED
      BY <2>2, <2>3
  <1>4. InFlightKept(r)'
    BY <1>1 DEF Local, LockMatchesLocation, InFlightKept, Changed, Read
  <1>5. SweepSeesPins(r)'
    BY DEF Local, SweepSeesPins
  <1> QED
    BY <1>1, <1>2, <1>3, <1>4, <1>5 DEF Local

\* The invariant after a step of p, from what the step did to p itself and to
\* the shared state.
LEMMA StepOfProcess ==
    ASSUME IInv, NEW p \in Proc,
           \A r \in Proc \ {p} : pc'[r] = pc[r] /\ op'[r] = op[r] /\ lock'[r] = lock[r],
           TypeOK', Exclusion', RowsConsistent', Local(p)',
           ReferencedSnapshotsKept', CapturedContentKept',
           Covered \subseteq Covered',
           readopted \subseteq readopted',
           RowChangesCovered,
           lock[p] # "exclusive" => snaps \subseteq snaps',
           lock[p] = "none" => /\ Pinned' \subseteq Pinned \cup readopted'
                               /\ \A x \in refs' : x.role = "cur" => x \in refs
    PROVE  IInv'
  <1> SUFFICES ASSUME NEW r \in Proc, r # p
               PROVE  Local(r)'
    BY DEF IInv
  <1>1. /\ lock[r] = "shared" => lock[p] # "exclusive"
        /\ pc[r] = "sweep" => lock[p] = "none"
    BY DEF IInv, Exclusion, Local, LockMatchesLocation
  <1> QED
    BY <1>1, OtherProcess DEF IInv

\* A step that only moves p along, without touching what processes share.
LEMMA LocalStep ==
    ASSUME IInv, NEW p \in Proc,
           \A r \in Proc \ {p} : pc'[r] = pc[r] /\ op'[r] = op[r] /\ lock'[r] = lock[r],
           UNCHANGED <<snaps, refs, rows, recs, readopted>>,
           TypeOK', Exclusion', Local(p)'
    PROVE  IInv'
  <1>1. Covered' = Covered /\ Pinned' = Pinned
    BY DEF Covered, FreshHashes, Pinned, RefHashes, LiveRowHashes
  <1>2. RowsConsistent' /\ ReferencedSnapshotsKept' /\ CapturedContentKept'
    BY <1>1 DEF IInv, RowsConsistent, ReferencedSnapshotsKept, CapturedContentKept
  <1>3. RowChangesCovered
    BY DEF RowChangesCovered
  <1> QED
    BY <1>1, <1>2, <1>3, StepOfProcess

\* Ending an operation leaves nothing to protect.
LEMMA IdleLocal ==
    ASSUME NEW p \in Proc, TypeOK, Finish(p)
    PROVE  /\ Local(p)'
           /\ \A r \in Proc \ {p} : pc'[r] = pc[r] /\ op'[r] = op[r] /\ lock'[r] = lock[r]
           /\ pc' \in [Proc -> Location]
           /\ op' \in [Proc -> Op]
           /\ lock' \in [Proc -> {"none", "shared", "exclusive"}]
  <1>1. NoOp \in Op
    BY DEF NoOp, Op, Kind, HashOrNone, Row, NoRow
  <1>2. pc'[p] = "idle" /\ lock'[p] = "none" /\ op'[p] = NoOp
    BY DEF Finish, TypeOK
  <1>3. Local(p)'
    BY <1>2 DEF Local, LockMatchesLocation, OpShape, ChangeCovered, InFlightKept,
                SweepSeesPins, NoOp, NoRow
  <1> QED
    BY <1>1, <1>3 DEF Finish, TypeOK, Location

-----------------------------------------------------------------------------
(* The steps, by kind                                                      *)

\* Starting an operation: its locals are what it has just read.
LEMMA BeginStep ==
    ASSUME IInv, NEW p \in Proc,
           NEW location \in {"refresh", "commitDelete", "wantShared", "savePlan", "wantExclusive"},
           NEW o \in Op,
           Begin(p, location, o),
           location \in {"refresh", "savePlan"} => o.hash \in Hash,
           location = "wantShared" /\ o.kind \notin {"scan", "intent"} => o.hash \in Hash,
           o.kind = "scan" => o.dst = Path,
           \A q \in Path : o.found[q] = None,
           location = "refresh" =>
             \A q \in o.dst : o.seen[q] = [hash |-> o.hash, live |-> TRUE],
           \A q \in Path : o.seen[q] = NoRow \/ o.seen[q] = rows[q],
           \A q \in o.src \cup o.dst : o.seen[q] = rows[q]
    PROVE  IInv'
  <1>1. /\ pc[p] = "idle" /\ lock[p] = "none"
        /\ pc'[p] = location /\ op'[p] = o /\ lock'[p] = "none"
    BY DEF IInv, TypeOK, Begin, Goto, Local, LockMatchesLocation
  <1>2. \A r \in Proc \ {p} : pc'[r] = pc[r] /\ op'[r] = op[r] /\ lock'[r] = lock[r]
    BY DEF IInv, TypeOK, Begin, Goto
  <1>3. TypeOK'
    BY DEF IInv, TypeOK, Begin, Goto, Location
  <1>4. Exclusion'
    BY DEF IInv, Exclusion, Begin
  <1>5. Local(p)'
    <2>1. LockMatchesLocation(p)'
      BY <1>1 DEF LockMatchesLocation
    <2>2. OpShape(p)'
      <3>1. \A q \in Path : o.seen[q].live => o.seen[q].hash \in Hash
        <4>1. ~NoRow.live
          BY DEF NoRow
        <4> QED
          BY <4>1 DEF IInv, RowsConsistent
      <3> QED
        BY <1>1, <3>1 DEF OpShape, Read
    <2>3. ChangeCovered(p)'
      BY <1>1 DEF ChangeCovered, Begin
    <2>4. InFlightKept(p)' /\ SweepSeesPins(p)'
      BY <1>1 DEF InFlightKept, SweepSeesPins
    <2> QED
      BY <2>1, <2>2, <2>3, <2>4 DEF Local
  <1> QED
    BY <1>2, <1>3, <1>4, <1>5, LocalStep DEF Begin

\* The rows read into an operation's locals.
LEMMA ReadRowsType ==
    ASSUME TypeOK, NEW paths \in SUBSET Path
    PROVE  /\ ReadRows(paths) \in [Path -> Row]
           /\ \A q \in Path : ReadRows(paths)[q] = NoRow \/ ReadRows(paths)[q] = rows[q]
           /\ \A q \in paths : ReadRows(paths)[q] = rows[q]
  BY DEF TypeOK, ReadRows, Row, NoRow, HashOrNone

LEMMA NoOpType == NoOp \in Op
  BY DEF NoOp, Op, Kind, HashOrNone, Row, NoRow

LEMMA StartSteps ==
    ASSUME IInv, NEW p \in Proc,
           \/ \E q \in Path, h \in Hash : StartCapture(p, q, h)
           \/ \E old, new \in Path, h \in Hash : StartRename(p, old, new, h)
           \/ \E q \in Path : StartDelete(p, q)
           \/ \E walk \in SUBSET Path : StartScan(p, walk)
           \/ StartPlan(p)
           \/ StartIntentPlan(p)
           \/ StartPrune(p)
    PROVE  IInv'
  <1> USE NoOpType DEF NoOp
  <1>1. ASSUME NEW q \in Path, NEW h \in Hash, StartCapture(p, q, h)
        PROVE  IInv'
    <2> DEFINE o == [NoOp EXCEPT !.kind = "capture", !.dst = {q}, !.hash = h,
                                 !.seen = ReadRows({q})]
    <2>1. o \in Op
      BY ReadRowsType DEF IInv, Op, Kind, HashOrNone
    <2>2. /\ o.kind = "capture" /\ o.src = {} /\ o.dst = {q} /\ o.hash = h /\ o.seen = ReadRows({q})
          /\ \A x \in Path : o.found[x] = None
      OBVIOUS
    <2>3. rows[q] \in Row
      BY DEF IInv, TypeOK
    <2>4. PICK location \in {"refresh", "wantShared"} :
            /\ Begin(p, location, o)
            /\ location = "refresh" => rows[q].live /\ rows[q].hash = h
      BY <1>1 DEF StartCapture
    <2>5. location = "refresh" => rows[q] = [hash |-> h, live |-> TRUE]
      BY <2>3, <2>4 DEF Row
    <2> HIDE DEF o
    <2> QED
      BY <2>1, <2>2, <2>4, <2>5, ReadRowsType, BeginStep DEF IInv
  <1>2. ASSUME NEW old \in Path, NEW new \in Path, NEW h \in Hash, StartRename(p, old, new, h)
        PROVE  IInv'
    <2> DEFINE o == [NoOp EXCEPT !.kind = "rename", !.src = {old}, !.dst = {new},
                                 !.hash = h, !.seen = ReadRows({old, new})]
    <2>1. o \in Op
      BY ReadRowsType DEF IInv, Op, Kind, HashOrNone
    <2>2. /\ o.kind = "rename" /\ o.src = {old} /\ o.dst = {new} /\ o.hash = h
          /\ o.seen = ReadRows({old, new})
          /\ \A x \in Path : o.found[x] = None
      OBVIOUS
    <2>3. PICK location \in {"refresh", "wantShared"} :
            /\ Begin(p, location, o)
            /\ location = "refresh" => rows[new] = [hash |-> h, live |-> TRUE]
      BY <1>2 DEF StartRename
    <2> HIDE DEF o
    <2> QED
      BY <2>1, <2>2, <2>3, ReadRowsType, BeginStep DEF IInv
  <1>3. ASSUME NEW q \in Path, StartDelete(p, q)
        PROVE  IInv'
    <2> DEFINE o == [NoOp EXCEPT !.kind = "delete", !.dst = {q}, !.seen = ReadRows({q})]
    <2>1. o \in Op
      BY ReadRowsType DEF IInv, Op, Kind, HashOrNone
    <2>2. /\ o.kind = "delete" /\ o.src = {} /\ o.dst = {q} /\ o.seen = ReadRows({q})
          /\ \A x \in Path : o.found[x] = None
      OBVIOUS
    <2>3. Begin(p, "commitDelete", o)
      BY <1>3 DEF StartDelete
    <2> HIDE DEF o
    <2> QED
      BY <2>1, <2>2, <2>3, ReadRowsType, BeginStep DEF IInv
  <1>4. ASSUME NEW walk \in SUBSET Path, StartScan(p, walk)
        PROVE  IInv'
    <2> DEFINE o == [NoOp EXCEPT !.kind = "scan", !.dst = Path, !.seen = rows,
                                 !.todo = walk, !.walk = walk]
    <2>1. o \in Op
      BY DEF IInv, TypeOK, Op, Kind, HashOrNone
    <2>2. /\ o.kind = "scan" /\ o.src = {} /\ o.dst = Path /\ o.seen = rows
          /\ \A x \in Path : o.found[x] = None
      OBVIOUS
    <2>3. Begin(p, "wantShared", o)
      BY <1>4 DEF StartScan
    <2> HIDE DEF o
    <2> QED
      BY <2>1, <2>2, <2>3, BeginStep
  <1>5. CASE StartPlan(p)
    <2>1. PICK h \in RefHashes \cup {r.target : r \in recs} :
            Begin(p, "savePlan", [NoOp EXCEPT !.kind = "plan", !.hash = h])
      BY <1>5 DEF StartPlan
    <2>2. h \in Hash
      BY DEF IInv, TypeOK, RefHashes, Ref, Rec
    <2> DEFINE o == [NoOp EXCEPT !.kind = "plan", !.hash = h]
    <2>3. o \in Op
      BY <2>2 DEF Op, Kind, HashOrNone
    <2>4. /\ o.kind = "plan" /\ o.src = {} /\ o.dst = {} /\ o.hash = h
          /\ \A q \in Path : o.seen[q] = NoRow /\ o.found[q] = None
      OBVIOUS
    <2>5. Begin(p, "savePlan", o)
      BY <2>1
    <2> HIDE DEF o
    <2> QED
      BY <2>2, <2>3, <2>4, <2>5, BeginStep
  <1>6. CASE StartIntentPlan(p)
    <2> DEFINE o == [NoOp EXCEPT !.kind = "intent"]
    <2>1. o \in Op
      BY DEF Op, Kind
    <2>2. /\ o.kind = "intent" /\ o.src = {} /\ o.dst = {} /\ \A q \in Path : o.seen[q] = NoRow /\ o.found[q] = None
      OBVIOUS
    <2>3. Begin(p, "wantShared", o)
      BY <1>6 DEF StartIntentPlan
    <2> HIDE DEF o
    <2> QED
      BY <2>1, <2>2, <2>3, BeginStep
  <1>7. CASE StartPrune(p)
    <2> DEFINE o == [NoOp EXCEPT !.kind = "prune"]
    <2>1. o \in Op
      BY DEF Op, Kind
    <2>2. /\ o.kind = "prune" /\ o.src = {} /\ o.dst = {} /\ \A q \in Path : o.seen[q] = NoRow /\ o.found[q] = None
      OBVIOUS
    <2>3. Begin(p, "wantExclusive", o)
      BY <1>7 DEF StartPrune
    <2> HIDE DEF o
    <2> QED
      BY <2>1, <2>2, <2>3, BeginStep
  <1> QED
    BY <1>1, <1>2, <1>3, <1>4, <1>5, <1>6, <1>7

\* Taking either side of the lock.
LEMMA LockSteps ==
    ASSUME IInv, NEW p \in Proc, AcquireShared(p) \/ AcquireExclusive(p)
    PROVE  IInv'
  <1>1. CASE AcquireShared(p)
    <2>1. PICK location \in {"scan", "planIntent", "publish"} :
            /\ pc[p] = "wantShared" /\ pc'[p] = location
            /\ pc' = [pc EXCEPT ![p] = location]
            /\ location = "scan" <=> op[p].kind = "scan"
            /\ location = "publish" => op[p].kind \notin {"scan", "intent"}
            /\ op' = op /\ lock'[p] = "shared"
      BY <1>1 DEF AcquireShared, Goto, IInv, TypeOK
    <2>2. TypeOK'
      BY <1>1, <2>1 DEF IInv, TypeOK, AcquireShared, Location
    <2>3. Exclusion'
      BY <1>1 DEF IInv, TypeOK, Exclusion, AcquireShared, SharedAvailable
    <2>4. LockMatchesLocation(p)'
      BY <2>1 DEF LockMatchesLocation
    <2>5. OpShape(p)'
      BY <2>1 DEF IInv, Local, OpShape
    <2>6. ChangeCovered(p)'
      BY <1>1 DEF IInv, Local, ChangeCovered, AcquireShared, Covered, FreshHashes
    <2>7. InFlightKept(p)' /\ SweepSeesPins(p)'
      <3>1. Changed(op[p]) = {}
        BY <2>1 DEF IInv, Local, OpShape, Changed
      <3> QED
        BY <2>1, <3>1 DEF InFlightKept, SweepSeesPins
    <2> QED
      BY <1>1, <2>2, <2>3, <2>4, <2>5, <2>6, <2>7, LocalStep
        DEF AcquireShared, Goto, IInv, TypeOK, Local
  <1>2. CASE AcquireExclusive(p)
    <2>1. /\ pc[p] = "wantExclusive" /\ pc'[p] = "dropEvents"
          /\ op' = op /\ lock'[p] = "exclusive"
      BY <1>2 DEF AcquireExclusive, Goto, IInv, TypeOK
    <2>2. TypeOK'
      BY <1>2 DEF IInv, TypeOK, AcquireExclusive, Goto, Location
    <2>3. Exclusion'
      BY <1>2 DEF IInv, TypeOK, Exclusion, AcquireExclusive, ExclusiveAvailable
    <2>4. Local(p)'
      <3>1. LockMatchesLocation(p)'
        BY <2>1 DEF LockMatchesLocation
      <3>2. OpShape(p)'
        BY <2>1 DEF IInv, Local, OpShape
      <3>3. ChangeCovered(p)'
        BY <1>2 DEF IInv, Local, ChangeCovered, AcquireExclusive, Covered, FreshHashes
      <3>4. InFlightKept(p)' /\ SweepSeesPins(p)'
        BY <2>1 DEF InFlightKept, SweepSeesPins
      <3> QED
        BY <3>1, <3>2, <3>3, <3>4 DEF Local
    <2> QED
      BY <1>2, <2>2, <2>3, <2>4, LocalStep DEF AcquireExclusive, Goto, IInv, TypeOK
  <1> QED
    BY <1>1, <1>2

\* A step that at most grows the store: what was kept is still kept.
LEMMA StoreGrows ==
    ASSUME IInv, NEW p \in Proc,
           \A r \in Proc \ {p} : pc'[r] = pc[r] /\ op'[r] = op[r],
           UNCHANGED <<refs, rows, recs, lock, readopted>>,
           snaps \subseteq snaps',
           TypeOK', Local(p)'
    PROVE  IInv'
  <1>1. Covered' = Covered /\ Pinned' = Pinned
    BY DEF Covered, FreshHashes, Pinned, RefHashes, LiveRowHashes
  <1>2. RowsConsistent' /\ ReferencedSnapshotsKept' /\ CapturedContentKept' /\ Exclusion'
    BY <1>1 DEF IInv, RowsConsistent, ReferencedSnapshotsKept, CapturedContentKept, Exclusion
  <1>3. RowChangesCovered
    BY DEF RowChangesCovered
  <1> QED
    BY <1>1, <1>2, <1>3, StepOfProcess

\* Writing snapshots and choosing targets while the lock is held shared.
LEMMA PublishSteps ==
    ASSUME IInv, NEW p \in Proc,
           \/ Publish(p)
           \/ \E q \in Path : SkipFile(p, q)
           \/ \E q \in Path, h \in Hash : ScanFile(p, q, h)
           \/ \E h \in Hash : PlanDirect(p, h)
           \/ \E h \in Hash : PlanMerge(p, h)
    PROVE  IInv'
  <1> USE DEF IInv
  <1>1. CASE Publish(p)
    <2>1. pc[p] = "publish" /\ pc'[p] = "commit" /\ op[p].hash \in Hash /\ lock[p] = "shared"
      BY <1>1 DEF Publish, Goto, TypeOK, Local, OpShape, LockMatchesLocation
    <2>2. TypeOK'
      BY <1>1, <2>1 DEF TypeOK, Publish, Goto, Location
    <2>3. LockMatchesLocation(p)' /\ OpShape(p)'
      BY <1>1, <2>1 DEF Publish, Local, LockMatchesLocation, OpShape
    <2>4. ChangeCovered(p)'
      BY <1>1 DEF Publish, Local, ChangeCovered, Covered, FreshHashes
    <2>5. InFlightKept(p)' /\ SweepSeesPins(p)'
      BY <1>1, <2>1 DEF Publish, InFlightKept, SweepSeesPins
    <2> QED
      BY <1>1, <2>2, <2>3, <2>4, <2>5, StoreGrows DEF Publish, Goto, TypeOK, Local
  <1>2. ASSUME NEW q \in Path, SkipFile(p, q)
        PROVE  IInv'
    <2>1. /\ pc[p] = "scan" /\ pc'[p] = "scan" /\ op[p] \in Op
          /\ op'[p] = [op[p] EXCEPT !.todo = @ \ {q}]
      BY <1>2 DEF SkipFile, TypeOK
    <2>2. op'[p] \in Op
      BY <2>1 DEF Op
    <2>3. TypeOK'
      BY <1>2, <2>2 DEF TypeOK, SkipFile
    <2>4. /\ op'[p].kind = op[p].kind /\ op'[p].src = op[p].src /\ op'[p].dst = op[p].dst
          /\ op'[p].hash = op[p].hash /\ op'[p].seen = op[p].seen
          /\ op'[p].found = op[p].found
      BY <2>1 DEF Op
    <2>5. LockMatchesLocation(p)' /\ OpShape(p)'
      BY <1>2, <2>1, <2>4 DEF SkipFile, Local, LockMatchesLocation, OpShape
    <2>6. ChangeCovered(p)'
      BY <1>2, <2>4 DEF SkipFile, Local, ChangeCovered, Covered, FreshHashes
    <2>7. Changed(op'[p]) = Changed(op[p])
      BY <2>4 DEF Changed, Read
    <2>8. InFlightKept(p)' /\ SweepSeesPins(p)'
      BY <1>2, <2>1, <2>4, <2>7 DEF SkipFile, Local, InFlightKept, SweepSeesPins
    <2> QED
      BY <1>2, <2>3, <2>5, <2>6, <2>8, StoreGrows DEF SkipFile, TypeOK, Local
  <1>3. ASSUME NEW q \in Path, NEW h \in Hash, ScanFile(p, q, h)
        PROVE  IInv'
    <2>1. /\ pc[p] = "scan" /\ pc'[p] = "scan" /\ op[p] \in Op
          /\ op'[p] = [op[p] EXCEPT !.todo = @ \ {q}, !.found[q] = h]
      BY <1>3 DEF ScanFile, TypeOK
    <2>2. op'[p] \in Op
      <3>1. op[p].found \in [Path -> HashOrNone] /\ op[p].todo \in SUBSET Path
        BY <2>1 DEF Op
      <3>2. [op[p].found EXCEPT ![q] = h] \in [Path -> HashOrNone]
        BY <3>1 DEF HashOrNone
      <3> DEFINE found == [op[p].found EXCEPT ![q] = h]
                 todo == op[p].todo \ {q}
      <3>3. op'[p] = [op[p] EXCEPT !.todo = todo, !.found = found]
        BY <2>1
      <3>4. todo \in SUBSET Path
        BY <3>1
      <3> HIDE DEF found, todo
      <3> QED
        BY <2>1, <3>2, <3>3, <3>4 DEF Op, found
    <2>3. TypeOK'
      BY <1>3, <2>2 DEF TypeOK, ScanFile
    <2>4. /\ op'[p].kind = op[p].kind /\ op'[p].src = op[p].src /\ op'[p].dst = op[p].dst
          /\ op'[p].hash = op[p].hash /\ op'[p].seen = op[p].seen
          /\ op'[p].found = [op[p].found EXCEPT ![q] = h]
      BY <2>1 DEF Op
    <2>5. LockMatchesLocation(p)' /\ OpShape(p)'
      BY <1>3, <2>1, <2>4 DEF ScanFile, Local, LockMatchesLocation, OpShape
    <2>6. ChangeCovered(p)'
      BY <1>3, <2>4 DEF ScanFile, Local, ChangeCovered, Covered, FreshHashes
    <2>7. {op'[p].found[x] : x \in Changed(op'[p])} \subseteq snaps'
      <3> SUFFICES ASSUME NEW x \in Changed(op'[p]) PROVE op'[p].found[x] \in snaps'
        OBVIOUS
      <3>1. x \in Path /\ op'[p].found[x] # None /\ op'[p].found[x] # op[p].seen[x].hash
        BY <2>4 DEF Changed, Read
      <3>2. CASE x = q
        BY <1>3, <2>1, <2>4, <3>1, <3>2 DEF ScanFile, Op
      <3>3. CASE x # q
        <4>1. op'[p].found[x] = op[p].found[x]
          BY <2>1, <2>4, <3>3 DEF Op
        <4>2. x \in Changed(op[p])
          BY <3>1, <4>1 DEF Changed, Read
        <4> QED
          BY <1>3, <2>1, <4>1, <4>2 DEF Local, InFlightKept, ScanFile
      <3> QED
        BY <3>2, <3>3
    <2>8. InFlightKept(p)' /\ SweepSeesPins(p)'
      BY <2>1, <2>7 DEF InFlightKept, SweepSeesPins
    <2> QED
      BY <1>3, <2>3, <2>5, <2>6, <2>8, StoreGrows DEF ScanFile, TypeOK, Local
  <1>4. ASSUME NEW h \in Hash, PlanDirect(p, h) \/ PlanMerge(p, h)
        PROVE  IInv'
    <2>1. /\ pc[p] = "planIntent" /\ pc'[p] = "savePlan" /\ op[p] \in Op /\ lock[p] = "shared"
          /\ op'[p] = [op[p] EXCEPT !.hash = h]
      BY <1>4 DEF PlanDirect, PlanMerge, Goto, TypeOK, Local, LockMatchesLocation
    <2>2. op'[p] \in Op
      BY <2>1 DEF Op, HashOrNone
    <2>3. TypeOK'
      BY <1>4, <2>2 DEF TypeOK, PlanDirect, PlanMerge, Goto, Location
    <2>4. /\ op'[p].kind = op[p].kind /\ op'[p].src = op[p].src /\ op'[p].dst = op[p].dst
          /\ op'[p].hash = h /\ op'[p].seen = op[p].seen
      BY <2>1 DEF Op
    <2>5. LockMatchesLocation(p)' /\ OpShape(p)'
      BY <1>4, <2>1, <2>4 DEF PlanDirect, PlanMerge, Local, LockMatchesLocation, OpShape
    <2>6. ChangeCovered(p)'
      BY <1>4, <2>4 DEF PlanDirect, PlanMerge, Local, ChangeCovered, Covered, FreshHashes
    <2>7. h \in snaps' \cup readopted'
      BY <1>4 DEF PlanDirect, PlanMerge, ReferencedSnapshotsKept, Pinned
    <2>8. InFlightKept(p)' /\ SweepSeesPins(p)'
      BY <2>1, <2>4, <2>7 DEF InFlightKept, SweepSeesPins
    <2> QED
      BY <1>4, <2>3, <2>5, <2>6, <2>8, StoreGrows
        DEF PlanDirect, PlanMerge, Goto, TypeOK, Local
  <1> QED
    BY <1>1, <1>2, <1>3, <1>4

-----------------------------------------------------------------------------
(* Transactions that insert events and change rows                         *)

\* A row's content as an operation read it is pinned when the operation
\* commits, though the row may have changed since.
LEMMA SeenStillPinned ==
    ASSUME IInv, NEW p \in Proc, NEW q \in op[p].src \cup op[p].dst, op[p].seen[q].live
    PROVE  /\ op[p].seen[q].hash \in Hash
           /\ op[p].seen[q].hash \in Pinned \cup readopted
  <1>1. q \in Path
    BY DEF IInv, TypeOK, Op
  <1>2. op[p].seen[q].hash \in Hash /\ op[p].seen[q].hash # None
    BY <1>1, NoneAssumption DEF IInv, Local, OpShape
  <1>3. CASE rows[q] = op[p].seen[q]
    BY <1>1, <1>2, <1>3, PinnedElements
  <1>4. CASE rows[q] # op[p].seen[q]
    <2>1. op[p].seen[q].hash \in FreshHashes \cup readopted
      BY <1>4 DEF IInv, Local, ChangeCovered, Covered
    <2>2. FreshHashes \subseteq RefHashes
      BY DEF FreshHashes, RefHashes
    <2> QED
      BY <1>2, <2>1, <2>2, PinnedElements
  <1> QED
    BY <1>2, <1>3, <1>4

\* A transaction that ends an operation: its current hashes are in the store,
\* its previous hashes were pinned, and the rows it changes are covered.
LEMMA TransactionStep ==
    ASSUME IInv, NEW p \in Proc, Finish(p),
           NEW current \in SUBSET Hash, NEW previous \in SUBSET Hash,
           InsertEvents(current, previous),
           snaps' = snaps, recs' = recs,
           rows' \in [Path -> Row], RowsConsistent',
           readopted' \in SUBSET Hash, readopted \subseteq readopted',
           current \subseteq snaps,
           previous \subseteq Pinned \cup readopted',
           RowChangesCovered,
           lock[p] # "exclusive",
           lock[p] = "none" => current = {}
    PROVE  IInv'
  <1>1. /\ RefHashes' = RefHashes \cup current \cup previous
        /\ FreshHashes' = FreshHashes \cup current \cup previous
        /\ \A r \in refs' : r \in refs \/ r.role = "prev" \/ r.hash \in current
    BY InsertedHashes
  <1>2. TypeOK'
    <2>1. Fresh(current, "cur") \subseteq Ref /\ Fresh(previous, "prev") \subseteq Ref
      <3>1. \A h \in Hash, role \in {"cur", "prev"} :
              [hash |-> h, role |-> role, aged |-> FALSE] \in Ref
        BY DEF Ref
      <3> QED
        BY <3>1 DEF Fresh
    <2>2. refs' \in SUBSET Ref
      BY <2>1 DEF IInv, TypeOK, InsertEvents
    <2> QED
      BY <2>2, IdleLocal DEF IInv, TypeOK
  <1>3. Exclusion'
    BY DEF IInv, TypeOK, Exclusion, Finish
  <1>4. Covered \subseteq Covered'
    BY <1>1 DEF Covered
  <1>5. Pinned' \subseteq Pinned \cup current \cup readopted'
    <2> SUFFICES ASSUME NEW h \in Pinned'
                 PROVE  h \in Pinned \cup current \cup readopted'
      OBVIOUS
    <2>1. \/ h \in RefHashes'
          \/ h # None /\ \E q \in Path : rows'[q].live /\ rows'[q].hash = h
          \/ \E r \in recs' : r.guarded /\ r.target = h
      BY DEF Pinned, NonNull, LiveRowHashes
    <2>2. CASE h \in RefHashes'
      BY <1>1, <2>2, PinnedElements
    <2>3. CASE h # None /\ \E q \in Path : rows'[q].live /\ rows'[q].hash = h
      <3>1. PICK q \in Path : rows'[q].live /\ rows'[q].hash = h
        BY <2>3
      <3>2. CASE rows'[q] = rows[q]
        BY <2>3, <3>1, <3>2, PinnedElements
      <3>3. CASE rows'[q] # rows[q]
        <4>1. h \in FreshHashes' \cup readopted'
          BY <3>1, <3>3 DEF RowChangesCovered, Covered
        <4>2. FreshHashes \subseteq RefHashes
          BY DEF FreshHashes, RefHashes
        <4> QED
          BY <1>1, <4>1, <4>2, PinnedElements
      <3> QED
        BY <3>2, <3>3
    <2>4. CASE \E r \in recs' : r.guarded /\ r.target = h
      BY <2>4, PinnedElements
    <2> QED
      BY <2>1, <2>2, <2>3, <2>4
  <1>6. ReferencedSnapshotsKept'
    BY <1>5 DEF IInv, ReferencedSnapshotsKept
  <1>7. CapturedContentKept'
    BY <1>1 DEF IInv, CapturedContentKept
  <1>8. lock[p] = "none" => /\ Pinned' \subseteq Pinned \cup readopted'
                            /\ \A x \in refs' : x.role = "cur" => x \in refs
    BY <1>1, <1>5
  <1> QED
    BY <1>2, <1>3, <1>4, <1>6, <1>7, <1>8, IdleLocal, StepOfProcess DEF IInv

\* No event is inserted.
LEMMA InsertNothing == refs' = refs => InsertEvents({}, {})
  BY DEF InsertEvents, Fresh

\* The contents read from existing rows were hashes, and are pinned.
LEMMA SeenLivePinned ==
    ASSUME IInv, NEW p \in Proc, NEW paths \in SUBSET (op[p].src \cup op[p].dst)
    PROVE  /\ SeenLive(op[p], paths) \in SUBSET Hash
           /\ SeenLive(op[p], paths) \subseteq Pinned \cup readopted
  BY SeenLiveElements, SeenStillPinned

\* The rows after a transaction, path by path.
LEMMA UpdatedRows ==
    ASSUME TypeOK, RowsConsistent, NEW contents, NEW deleted,
           UpdateRows(contents, deleted),
           \A q \in DOMAIN contents : contents[q] \in Hash
    PROVE  /\ rows' \in [Path -> Row]
           /\ RowsConsistent'
           /\ \A q \in Path :
                /\ q \in DOMAIN contents =>
                     rows'[q].hash = contents[q] /\ rows'[q].live
                /\ q \notin DOMAIN contents /\ q \in deleted => ~rows'[q].live
                /\ q \notin DOMAIN contents /\ q \notin deleted => rows'[q] = rows[q]
  <1>1. ASSUME NEW q \in Path, q \in DOMAIN contents
        PROVE  /\ rows'[q] \in Row
               /\ rows'[q].hash = contents[q] /\ rows'[q].live
    BY <1>1 DEF UpdateRows, Row, HashOrNone
  <1>2. ASSUME NEW q \in Path, q \notin DOMAIN contents
        PROVE  /\ rows'[q] \in Row
               /\ rows'[q].live => rows[q].live /\ rows'[q].hash = rows[q].hash
               /\ q \in deleted => ~rows'[q].live
               /\ q \notin deleted => rows'[q] = rows[q]
    <2>1. rows[q] \in Row
      BY DEF TypeOK
    <2>2. rows'[q] = [rows[q] EXCEPT !.live = rows[q].live /\ q \notin deleted]
      BY <1>2 DEF UpdateRows
    <2>3. CASE q \in deleted
      <3>1. rows'[q] = [rows[q] EXCEPT !.live = FALSE]
        BY <2>2, <2>3
      <3> QED
        BY <2>1, <2>3, <3>1 DEF Row
    <2>4. CASE q \notin deleted
      <3>1. rows'[q] = [rows[q] EXCEPT !.live = rows[q].live]
        <4>1. rows[q].live = (rows[q].live /\ q \notin deleted)
          BY <2>1, <2>4 DEF Row
        <4> QED
          BY <2>2, <4>1
      <3> QED
        BY <2>1, <2>4, <3>1 DEF Row
    <2> QED
      BY <2>3, <2>4
  <1>3. rows' \in [Path -> Row]
    BY <1>1, <1>2 DEF UpdateRows
  <1>4. RowsConsistent'
    BY <1>1, <1>2 DEF RowsConsistent
  <1> QED
    BY <1>1, <1>2, <1>3, <1>4

LEMMA LiveCommitSteps ==
    ASSUME IInv, NEW p \in Proc, Refresh(p) \/ Commit(p) \/ CommitDelete(p)
    PROVE  IInv'
  <1> DEFINE o == op[p]
  <1>0. /\ o \in Op /\ o.src \in SUBSET Path /\ o.dst \in SUBSET Path
        /\ rows \in [Path -> Row] /\ readopted \in SUBSET Hash
    BY DEF IInv, TypeOK, Op
  <1>1. CASE Refresh(p)
    <2>1. /\ pc[p] = "refresh" /\ lock[p] = "none" /\ o.hash \in Hash
          /\ \A q \in o.dst : o.seen[q] = [hash |-> o.hash, live |-> TRUE]
      BY <1>1 DEF Refresh, IInv, Local, LockMatchesLocation, OpShape
    <2> DEFINE contents == [q \in o.dst |-> o.hash]
               nothing == {}
    <2>2. /\ rows' \in [Path -> Row]
          /\ RowsConsistent'
          /\ \A q \in Path : /\ q \in o.dst => rows'[q].hash = o.hash /\ rows'[q].live
                             /\ q \notin o.dst => rows'[q] = rows[q]
      <3>1. UpdateRows(contents, nothing)
        BY <1>1 DEF Refresh
      <3>2. DOMAIN contents = o.dst /\ \A q \in o.dst : contents[q] = o.hash
        OBVIOUS
      <3> HIDE DEF contents
      <3> QED
        BY <2>1, <3>1, <3>2, UpdatedRows DEF IInv
    <2>4. Covered' = Covered
      BY <1>1 DEF Refresh, Covered, FreshHashes
    <2>5. RowChangesCovered
      <3> SUFFICES ASSUME NEW q \in Path, rows'[q] # rows[q]
                   PROVE  /\ rows[q].live => rows[q].hash \in Covered
                          /\ rows'[q].live => rows'[q].hash \in Covered
        BY <2>4 DEF RowChangesCovered
      <3>1. q \in o.dst
        BY <2>2
      <3>2. o.seen[q].live /\ rows'[q].hash = o.seen[q].hash /\ rows'[q].live
        BY <2>1, <2>2, <3>1
      <3>3. CASE rows[q] = o.seen[q]
        <4>1. rows[q] \in Row /\ rows'[q] \in Row
          BY <1>0, <2>2
        <4>2. rows'[q] = rows[q]
          BY <3>2, <3>3, <4>1 DEF Row
        <4> QED
          BY <4>2
      <3>4. CASE rows[q] # o.seen[q]
        BY <3>1, <3>2, <3>4 DEF IInv, Local, ChangeCovered
      <3> QED
        BY <3>3, <3>4
    <2>6. InsertEvents(nothing, nothing)
      BY <1>1, InsertNothing DEF Refresh
    <2>7. nothing \in SUBSET Hash /\ nothing \subseteq snaps /\ nothing \subseteq Pinned \cup readopted'
      OBVIOUS
    <2>8. Finish(p) /\ UNCHANGED <<snaps, recs, readopted>>
      BY <1>1 DEF Refresh
    <2>9. lock[p] # "exclusive" /\ (lock[p] = "none" => nothing = {})
      BY <2>1
    <2> HIDE DEF nothing
    <2> QED
      BY <1>0, <2>2, <2>5, <2>6, <2>7, <2>8, <2>9, TransactionStep
  <1>2. CASE Commit(p)
    <2> DEFINE previous == SeenLive(o, o.src) \cup (SeenLive(o, o.dst \ o.src) \ {o.hash})
    <2>1. /\ pc[p] = "commit" /\ lock[p] = "shared" /\ o.hash \in Hash /\ o.hash \in snaps
      BY <1>2 DEF Commit, IInv, Local, LockMatchesLocation, OpShape, InFlightKept
    <2>2. InsertEvents({o.hash}, previous) /\ Finish(p) /\ UNCHANGED <<snaps, recs, readopted>>
      BY <1>2 DEF Commit
    <2>3. previous \in SUBSET Hash /\ previous \subseteq Pinned \cup readopted
      BY SeenLivePinned
    <2> DEFINE contents == [q \in o.dst |-> o.hash]
    <2>4. /\ rows' \in [Path -> Row]
          /\ RowsConsistent'
          /\ \A q \in Path :
               /\ q \in o.dst => rows'[q].hash = o.hash /\ rows'[q].live
               /\ q \in o.src \ o.dst => ~rows'[q].live
               /\ q \notin o.src \cup o.dst => rows'[q] = rows[q]
      <3>1. UpdateRows(contents, o.src)
        BY <1>2 DEF Commit
      <3>2. DOMAIN contents = o.dst /\ \A q \in o.dst : contents[q] = o.hash
        OBVIOUS
      <3> HIDE DEF contents
      <3> QED
        BY <2>1, <3>1, <3>2, UpdatedRows DEF IInv
    <2> DEFINE current == {o.hash}
    <2>6. FreshHashes' = FreshHashes \cup {o.hash} \cup previous
      <3>1. InsertEvents(current, previous)
        BY <2>2
      <3> HIDE DEF current, previous
      <3>2. FreshHashes' = FreshHashes \cup current \cup previous
        BY <3>1, InsertedHashes
      <3> QED
        BY <3>2 DEF current
    <2>7. RowChangesCovered
      <3> SUFFICES ASSUME NEW q \in Path, rows'[q] # rows[q]
                   PROVE  /\ rows[q].live => rows[q].hash \in Covered'
                          /\ rows'[q].live => rows'[q].hash \in Covered'
        BY DEF RowChangesCovered
      <3>1. q \in o.src \cup o.dst
        BY <2>4
      <3>2. rows'[q].live => rows'[q].hash \in Covered'
        BY <2>4, <2>6, <3>1 DEF Covered
      <3>3. ASSUME rows[q].live, rows[q] = o.seen[q]
            PROVE  rows[q].hash \in Covered'
        <4>1. rows[q].hash # None
          BY <3>3, NoneAssumption DEF IInv, RowsConsistent
        <4>2. rows[q].hash \in previous \cup {o.hash}
          BY <3>1, <3>3, <4>1, SeenLiveElements
        <4> QED
          BY <2>6, <4>2 DEF Covered
      <3>4. ASSUME rows[q].live, rows[q] # o.seen[q]
            PROVE  rows[q].hash \in Covered'
        <4>1. rows[q].hash \in Covered
          BY <3>1, <3>4 DEF IInv, Local, ChangeCovered
        <4> QED
          BY <2>2, <2>6, <4>1 DEF Covered
      <3> QED
        BY <3>2, <3>3, <3>4
    <2>8. /\ InsertEvents(current, previous)
          /\ current \in SUBSET Hash /\ current \subseteq snaps
      BY <2>1, <2>2
    <2> HIDE DEF previous, current
    <2> QED
      BY <1>0, <2>1, <2>2, <2>3, <2>4, <2>7, <2>8, TransactionStep
  <1>3. CASE CommitDelete(p)
    <2> DEFINE previous == SeenLive(o, o.dst)
    <2>1. pc[p] = "commitDelete" /\ lock[p] = "none"
      BY <1>3 DEF CommitDelete, IInv, Local, LockMatchesLocation
    <2>2. InsertEvents({}, previous) /\ Finish(p) /\ UNCHANGED <<snaps, recs, readopted>>
      BY <1>3 DEF CommitDelete
    <2>3. previous \in SUBSET Hash /\ previous \subseteq Pinned \cup readopted
      BY SeenLivePinned
    <2>4. /\ rows' \in [Path -> Row]
          /\ RowsConsistent'
          /\ \A q \in Path : /\ q \in o.dst => ~rows'[q].live
                             /\ q \notin o.dst => rows'[q] = rows[q]
      <3> DEFINE contents == <<>>
      <3>1. UpdateRows(contents, o.dst)
        BY <1>3 DEF CommitDelete
      <3>2. DOMAIN contents = {}
        OBVIOUS
      <3> HIDE DEF contents
      <3> QED
        BY <3>1, <3>2, UpdatedRows DEF IInv
    <2> DEFINE nothing == {}
    <2>6. FreshHashes' = FreshHashes \cup previous
      <3>1. InsertEvents(nothing, previous)
        BY <2>2
      <3> HIDE DEF nothing, previous
      <3>2. FreshHashes' = FreshHashes \cup nothing \cup previous
        BY <3>1, InsertedHashes
      <3> QED
        BY <3>2 DEF nothing
    <2>7. RowChangesCovered
      <3> SUFFICES ASSUME NEW q \in Path, rows'[q] # rows[q], rows[q].live
                   PROVE  rows[q].hash \in Covered'
        BY <2>4 DEF RowChangesCovered
      <3>1. q \in o.dst /\ rows[q].hash # None
        BY <2>4, NoneAssumption DEF IInv, RowsConsistent
      <3>2. CASE rows[q] = o.seen[q]
        BY <2>6, <3>1, <3>2, SeenLiveElements DEF Covered
      <3>3. CASE rows[q] # o.seen[q]
        BY <2>2, <2>6, <3>1, <3>3 DEF IInv, Local, ChangeCovered, Covered
      <3> QED
        BY <3>2, <3>3
    <2>8. /\ InsertEvents(nothing, previous)
          /\ nothing \in SUBSET Hash /\ nothing \subseteq snaps
          /\ lock[p] = "none" => nothing = {}
      BY <2>2
    <2> HIDE DEF previous, nothing
    <2> QED
      BY <1>0, <2>1, <2>2, <2>3, <2>4, <2>7, <2>8, TransactionStep
  <1> QED
    BY <1>1, <1>2, <1>3

LEMMA CommitScanStep ==
    ASSUME IInv, NEW p \in Proc, NEW trusted \in BOOLEAN, CommitScan(p, trusted)
    PROVE  IInv'
  <1> DEFINE o == op[p]
             gone == IF trusted /\ o.walk # {} THEN Missing(o) ELSE {}
             contents == [q \in Read(o) |-> o.found[q]]
             current == {o.found[q] : q \in Changed(o)}
             before == {o.seen[q].hash : q \in Changed(o) \cup gone}
             previous == NonNull(before)
             dead == {o.seen[q].hash : q \in {x \in Read(o) : ~o.seen[x].live}}
  <1>1. /\ InsertEvents(current, previous)
        /\ UpdateRows(contents, gone)
        /\ readopted' = readopted \cup NonNull(dead)
        /\ Finish(p)
        /\ UNCHANGED <<snaps, recs>>
    BY DEF CommitScan
  <1>2. /\ pc[p] = "scan" /\ lock[p] = "shared" /\ o.dst = Path
        /\ o \in Op /\ o.found \in [Path -> HashOrNone] /\ o.seen \in [Path -> Row]
        /\ rows \in [Path -> Row] /\ readopted \in SUBSET Hash
    BY DEF CommitScan, IInv, TypeOK, Op, Local, LockMatchesLocation, OpShape
  <1>3. /\ Read(o) \subseteq Path /\ Changed(o) \subseteq Read(o)
        /\ gone \subseteq Path /\ \A q \in gone : o.seen[q].live
        /\ \A q \in Read(o) : o.found[q] \in Hash
        /\ \A q \in Read(o) \ Changed(o) : o.found[q] = o.seen[q].hash
    BY <1>2 DEF Read, Changed, Missing, HashOrNone
  <1>4. \A q \in Path : o.seen[q].hash \in Hash \cup {None}
    BY <1>2 DEF Row, HashOrNone
  <1>5. previous \in SUBSET Hash /\ NonNull(dead) \in SUBSET Hash
    BY <1>3, <1>4 DEF NonNull
  <1>6. current \in SUBSET Hash /\ current \subseteq snaps
    BY <1>2, <1>3 DEF IInv, Local, InFlightKept
  <1>7. \A q \in Path : o.seen[q].live =>
          o.seen[q].hash \in Hash /\ o.seen[q].hash \in Pinned \cup readopted
    BY <1>2, SeenStillPinned
  <1>8. \A q \in Read(o) : ~o.seen[q].live /\ o.seen[q].hash # None =>
          o.seen[q].hash \in readopted'
    BY <1>1 DEF NonNull
  <1>9. previous \subseteq Pinned \cup readopted'
    <2> SUFFICES ASSUME NEW q \in Changed(o) \cup gone, o.seen[q].hash # None
                 PROVE  o.seen[q].hash \in Pinned \cup readopted'
      BY DEF NonNull
    <2>1. q \in Path
      BY <1>3
    <2>2. CASE o.seen[q].live
      BY <1>1, <1>7, <2>1, <2>2
    <2>3. CASE ~o.seen[q].live
      BY <1>3, <1>8, <2>3
    <2> QED
      BY <2>2, <2>3
  <1>10. /\ rows' \in [Path -> Row]
         /\ RowsConsistent'
         /\ \A q \in Path :
              /\ q \in Read(o) => rows'[q].hash = o.found[q] /\ rows'[q].live
              /\ q \in gone \ Read(o) => ~rows'[q].live
              /\ q \notin Read(o) \cup gone => rows'[q] = rows[q]
    <2>1. DOMAIN contents = Read(o) /\ \A q \in Read(o) : contents[q] = o.found[q]
      OBVIOUS
    <2> HIDE DEF contents, gone
    <2> QED
      BY <1>1, <1>3, <2>1, UpdatedRows DEF IInv
  <1>11. FreshHashes' = FreshHashes \cup current \cup previous
    <2> HIDE DEF current, previous
    <2> QED
      BY <1>1, InsertedHashes
  <1>12. Covered \subseteq Covered'
    BY <1>1, <1>11 DEF Covered
  <1>13. RowChangesCovered
    <2> SUFFICES ASSUME NEW q \in Path, rows'[q] # rows[q]
                 PROVE  /\ rows[q].live => rows[q].hash \in Covered'
                        /\ rows'[q].live => rows'[q].hash \in Covered'
      BY DEF RowChangesCovered
    <2>1. q \in Read(o) \cup gone
      BY <1>10
    <2>2. CASE rows[q] # o.seen[q] /\ q \notin Changed(o)
      <3>1. /\ rows[q].live => rows[q].hash \in Covered
            /\ o.seen[q].live => o.seen[q].hash \in Covered
        BY <1>2, <2>2 DEF IInv, Local, ChangeCovered
      <3>2. CASE q \in Read(o)
        <4>1. rows'[q].hash = o.seen[q].hash /\ rows'[q].hash \in Hash
          BY <1>3, <1>10, <2>2, <3>2
        <4>2. o.seen[q].live \/ o.seen[q].hash \in readopted'
          BY <1>8, <3>2, <4>1, NoneAssumption
        <4> QED
          BY <1>12, <3>1, <4>1, <4>2 DEF Covered
      <3>3. CASE q \notin Read(o)
        BY <1>10, <1>12, <2>1, <3>1, <3>3
      <3> QED
        BY <3>2, <3>3
    <2>3. CASE q \in Changed(o)
      <3>1. rows'[q].hash \in current
        BY <1>3, <1>10, <2>3
      <3>2. ASSUME rows[q].live
            PROVE  rows[q].hash \in Covered'
        <4>1. CASE rows[q] = o.seen[q]
          <5>1. rows[q].hash \in Hash
            BY <3>2 DEF IInv, RowsConsistent
          <5>2. o.seen[q].hash \in previous
            BY <2>3, <4>1, <5>1, NoneAssumption DEF NonNull
          <5> QED
            BY <1>11, <4>1, <5>2 DEF Covered
        <4>2. CASE rows[q] # o.seen[q]
          BY <1>2, <1>12, <3>2, <4>2 DEF IInv, Local, ChangeCovered
        <4> QED
          BY <4>1, <4>2
      <3> QED
        BY <1>11, <3>1, <3>2 DEF Covered
    <2>4. CASE rows[q] = o.seen[q] /\ q \notin Changed(o)
      <3>1. CASE q \in Read(o)
        <4>1. rows'[q].hash = rows[q].hash /\ rows'[q].live /\ rows'[q].hash \in Hash
          BY <1>3, <1>10, <2>4, <3>1
        <4>2. rows[q] \in Row /\ rows'[q] \in Row
          BY <1>2, <1>10
        <4>3. ~rows[q].live
          BY <4>1, <4>2 DEF Row
        <4>4. rows'[q].hash \in readopted'
          BY <1>8, <2>4, <3>1, <4>1, <4>3, NoneAssumption
        <4> QED
          BY <4>3, <4>4 DEF Covered
      <3>2. CASE q \notin Read(o)
        <4>1. q \in gone /\ ~rows'[q].live
          BY <1>10, <2>1, <3>2
        <4>2. o.seen[q].hash \in previous
          BY <1>3, <1>7, <4>1, NoneAssumption DEF NonNull
        <4> QED
          BY <1>11, <2>4, <4>1, <4>2 DEF Covered
      <3> QED
        BY <3>1, <3>2
    <2> QED
      BY <2>2, <2>3, <2>4
  <1>14. readopted' \in SUBSET Hash /\ readopted \subseteq readopted'
    BY <1>1, <1>2, <1>5
  <1> HIDE DEF current, previous
  <1> QED
    BY <1>1, <1>2, <1>5, <1>6, <1>9, <1>10, <1>13, <1>14, TransactionStep

-----------------------------------------------------------------------------
(* Recoveries                                                              *)

LEMMA SavePlanStep ==
    ASSUME IInv, NEW p \in Proc, SavePlan(p)
    PROVE  IInv'
  <1> DEFINE new == [target |-> op[p].hash, guarded |-> lock[p] = "shared"]
  <1>1. /\ pc[p] = "savePlan" /\ op[p].hash \in Hash /\ lock[p] # "exclusive"
        /\ recs' = recs \cup {new} /\ Finish(p)
        /\ UNCHANGED <<snaps, refs, rows, readopted>>
    BY DEF SavePlan, IInv, Local, OpShape, LockMatchesLocation
  <1>2. new \in Rec
    <2>1. (lock[p] = "shared") \in BOOLEAN
      OBVIOUS
    <2> QED
      BY <1>1, <2>1 DEF Rec
  <1>3. TypeOK'
    BY <1>1, <1>2, IdleLocal DEF IInv, TypeOK
  <1>4. Exclusion' /\ RowsConsistent' /\ CapturedContentKept'
    BY <1>1 DEF IInv, TypeOK, Exclusion, Finish, RowsConsistent, CapturedContentKept
  <1>5. Covered' = Covered /\ RowChangesCovered
    BY <1>1 DEF Covered, FreshHashes, RowChangesCovered
  <1>6. ASSUME NEW h \in Pinned'
        PROVE  h \in Pinned \/ (lock[p] = "shared" /\ h = op[p].hash)
    <2>1. \/ h \in RefHashes
          \/ h # None /\ \E q \in Path : rows[q].live /\ rows[q].hash = h
          \/ \E r \in recs' : r.guarded /\ r.target = h
      BY <1>1, <1>6 DEF Pinned, NonNull, LiveRowHashes, RefHashes
    <2>2. CASE \E r \in recs' : r.guarded /\ r.target = h
      <3>1. PICK r \in recs' : r.guarded /\ r.target = h
        BY <2>2
      <3>2. CASE r \in recs
        BY <3>1, <3>2, PinnedElements
      <3>3. CASE r = new
        BY <3>1, <3>3
      <3> QED
        BY <1>1, <3>2, <3>3
    <2> QED
      BY <2>1, <2>2, PinnedElements
  <1>7. ReferencedSnapshotsKept'
    BY <1>1, <1>6 DEF IInv, ReferencedSnapshotsKept, Local, InFlightKept
  <1>8. lock[p] = "none" => /\ Pinned' \subseteq Pinned \cup readopted'
                            /\ \A x \in refs' : x.role = "cur" => x \in refs
    BY <1>1, <1>6
  <1> QED
    BY <1>1, <1>3, <1>4, <1>5, <1>7, <1>8, IdleLocal, StepOfProcess DEF IInv

LEMMA EndRecoveryStep ==
    ASSUME IInv, NEW r \in recs, EndRecovery(r)
    PROVE  IInv'
  <1>1. /\ recs' \subseteq recs
        /\ UNCHANGED <<snaps, refs, rows, lock, pc, op, readopted>>
    BY DEF EndRecovery
  <1>2. TypeOK' /\ Exclusion' /\ RowsConsistent' /\ CapturedContentKept'
    BY <1>1 DEF IInv, TypeOK, Exclusion, RowsConsistent, CapturedContentKept
  <1>3. Pinned' \subseteq Pinned
    BY <1>1 DEF Pinned, NonNull, LiveRowHashes, RefHashes
  <1>4. ReferencedSnapshotsKept'
    BY <1>1, <1>3 DEF IInv, ReferencedSnapshotsKept
  <1>5. Covered' = Covered /\ RowChangesCovered
    BY <1>1 DEF Covered, FreshHashes, RowChangesCovered
  <1>6. ASSUME NEW p \in Proc
        PROVE  Local(p)'
    BY <1>1, <1>3, <1>5, OtherProcess DEF IInv
  <1> QED
    BY <1>2, <1>4, <1>6 DEF IInv

-----------------------------------------------------------------------------
(* Pruning                                                                 *)

\* Ending an operation without changing what processes share.
LEMMA FinishStep ==
    ASSUME IInv, NEW p \in Proc, Finish(p), UNCHANGED <<snaps, refs, rows, recs, readopted>>
    PROVE  IInv'
  <1>1. TypeOK'
    BY IdleLocal DEF IInv, TypeOK
  <1>2. Exclusion'
    BY DEF IInv, TypeOK, Exclusion, Finish
  <1> QED
    BY <1>1, <1>2, IdleLocal, LocalStep DEF IInv

LEMMA PruneSteps ==
    ASSUME IInv, NEW p \in Proc,
           \/ DropEvents(p)
           \/ Mark(p)
           \/ \E h \in Hash : Sweep(p, h)
           \/ Backstop(p)
           \/ EndPrune(p)
    PROVE  IInv'
  <1> USE DEF IInv
  <1>1. CASE DropEvents(p)
    <2>1. /\ pc[p] = "dropEvents" /\ lock[p] = "exclusive" /\ pc'[p] = "mark"
          /\ refs' = {r \in refs : ~r.aged}
          /\ UNCHANGED <<snaps, rows, recs, lock, op, readopted>>
      BY <1>1 DEF DropEvents, Goto, TypeOK, Local, LockMatchesLocation
    <2>2. TypeOK'
      BY <1>1, <2>1 DEF DropEvents, Goto, TypeOK, Location
    <2>3. Exclusion' /\ RowsConsistent' /\ CapturedContentKept'
      BY <2>1 DEF Exclusion, RowsConsistent, CapturedContentKept
    <2>4. Pinned' \subseteq Pinned
      BY <2>1 DEF Pinned, NonNull, LiveRowHashes, RefHashes
    <2>5. ReferencedSnapshotsKept'
      BY <2>1, <2>4 DEF ReferencedSnapshotsKept
    <2>6. Covered' = Covered /\ RowChangesCovered
      BY <2>1 DEF Covered, FreshHashes, RowChangesCovered
    <2>7. Local(p)'
      BY <2>1, <2>6 DEF Local, LockMatchesLocation, OpShape, ChangeCovered, InFlightKept,
                        SweepSeesPins
    <2> QED
      BY <1>1, <2>1, <2>2, <2>3, <2>5, <2>6, <2>7, StepOfProcess
        DEF DropEvents, Goto, TypeOK
  <1>2. CASE Mark(p)
    <2>1. /\ pc[p] = "mark" /\ lock[p] = "exclusive" /\ pc'[p] = "sweep"
          /\ op[p] \in Op /\ op'[p] = [op[p] EXCEPT !.live = LiveHashes]
          /\ UNCHANGED <<snaps, refs, rows, recs, lock, readopted>>
      BY <1>2 DEF Mark, Goto, TypeOK, Local, LockMatchesLocation
    <2>2. LiveHashes \in SUBSET Hash
      BY DEF TypeOK, RowsConsistent, LiveHashes, RefHashes, NonNull, LiveRowHashes, Ref, Rec
    <2>3. op'[p] \in Op
      BY <2>1, <2>2 DEF Op
    <2>4. TypeOK'
      BY <1>2, <2>3 DEF Mark, Goto, TypeOK, Location
    <2>5. /\ op'[p].kind = op[p].kind /\ op'[p].src = op[p].src /\ op'[p].dst = op[p].dst
          /\ op'[p].hash = op[p].hash /\ op'[p].seen = op[p].seen
          /\ op'[p].live = LiveHashes
      BY <2>1 DEF Op
    <2>6. LockMatchesLocation(p)' /\ OpShape(p)' /\ InFlightKept(p)'
      BY <2>1, <2>5 DEF Local, LockMatchesLocation, OpShape, InFlightKept
    <2>7. ChangeCovered(p)'
      BY <2>1, <2>5 DEF Local, ChangeCovered, Covered, FreshHashes
    <2>8. SweepSeesPins(p)'
      <3>1. Pinned' \subseteq LiveHashes
        BY <2>1 DEF Pinned, LiveHashes, RefHashes, NonNull, LiveRowHashes
      <3>2. \A r \in refs : r.hash \in LiveHashes
        BY DEF LiveHashes, RefHashes
      <3> QED
        BY <2>1, <2>5, <3>1, <3>2 DEF SweepSeesPins
    <2>9. Exclusion'
      BY <2>1 DEF Exclusion
    <2> QED
      BY <1>2, <2>1, <2>4, <2>6, <2>7, <2>8, <2>9, LocalStep DEF Mark, Goto, TypeOK, Local
  <1>3. ASSUME NEW h \in Hash, Sweep(p, h)
        PROVE  IInv'
    <2>1. /\ pc[p] = "sweep" /\ lock[p] = "exclusive"
          /\ snaps' = snaps \ {h} /\ h \notin op[p].live
          /\ UNCHANGED <<refs, rows, recs, lock, pc, op, readopted>>
      BY <1>3 DEF Sweep, Local, LockMatchesLocation
    <2>2. TypeOK' /\ Exclusion' /\ RowsConsistent'
      BY <2>1 DEF TypeOK, Exclusion, RowsConsistent
    <2>3. /\ Pinned \subseteq op[p].live \cup readopted
          /\ \A r \in refs : r.role = "cur" => r.hash \in op[p].live
      BY <2>1 DEF Local, SweepSeesPins
    <2>4. Covered' = Covered /\ Pinned' = Pinned /\ RowChangesCovered
      BY <2>1 DEF Covered, FreshHashes, Pinned, RefHashes, LiveRowHashes, RowChangesCovered
    <2>5. ReferencedSnapshotsKept' /\ CapturedContentKept'
      BY <2>1, <2>3, <2>4 DEF ReferencedSnapshotsKept, CapturedContentKept
    <2>6. Local(p)'
      BY <2>1, <2>4 DEF Local, LockMatchesLocation, OpShape, ChangeCovered, InFlightKept,
                        SweepSeesPins
    <2> QED
      BY <2>1, <2>2, <2>4, <2>5, <2>6, StepOfProcess
  <1>4. CASE Backstop(p)
    <2>1. /\ pc[p] = "sweep" /\ pc'[p] = "mark"
          /\ UNCHANGED <<snaps, refs, rows, recs, lock, op, readopted>>
      BY <1>4 DEF Backstop, Goto, TypeOK
    <2>2. TypeOK'
      BY <1>4 DEF Backstop, Goto, TypeOK, Location
    <2>3. Exclusion'
      BY <2>1 DEF Exclusion
    <2>4. Local(p)'
      BY <2>1 DEF Local, LockMatchesLocation, OpShape, ChangeCovered, Covered, FreshHashes,
                  InFlightKept, SweepSeesPins
    <2> QED
      BY <1>4, <2>1, <2>2, <2>3, <2>4, LocalStep DEF Backstop, Goto, TypeOK
  <1>5. CASE EndPrune(p)
    BY <1>5, FinishStep DEF EndPrune
  <1> QED
    BY <1>1, <1>2, <1>3, <1>4, <1>5

\* The retention cutoff moves past every event, with nothing in flight.
LEMMA RetentionStep ==
    ASSUME IInv, RetentionPasses
    PROVE  IInv'
  <1>1. /\ \A p \in Proc : pc[p] = "idle" /\ op[p] = NoOp
        /\ refs' = {[r EXCEPT !.aged = TRUE] : r \in refs}
        /\ UNCHANGED <<snaps, rows, recs, lock, pc, op, readopted>>
    BY DEF IInv, RetentionPasses, Local, OpShape
  <1>2. \A r \in refs : /\ [r EXCEPT !.aged = TRUE] \in Ref
                        /\ [r EXCEPT !.aged = TRUE].hash = r.hash
                        /\ [r EXCEPT !.aged = TRUE].role = r.role
    BY DEF IInv, TypeOK, Ref
  <1>3. TypeOK' /\ Exclusion' /\ RowsConsistent'
    BY <1>1, <1>2 DEF IInv, TypeOK, Exclusion, RowsConsistent
  <1>4. RefHashes' = RefHashes
    <2>1. \A r \in refs : \E x \in refs' : x.hash = r.hash
      BY <1>1, <1>2
    <2>2. \A x \in refs' : \E r \in refs : x.hash = r.hash
      BY <1>1, <1>2
    <2> QED
      BY <2>1, <2>2 DEF RefHashes
  <1>5. ReferencedSnapshotsKept'
    BY <1>1, <1>4 DEF IInv, ReferencedSnapshotsKept, Pinned, LiveRowHashes, NonNull
  <1>6. CapturedContentKept'
    <2>1. \A x \in refs' : \E r \in refs : x.hash = r.hash /\ x.role = r.role
      BY <1>1, <1>2
    <2> QED
      BY <1>1, <2>1 DEF IInv, CapturedContentKept
  <1>7. ASSUME NEW p \in Proc
        PROVE  Local(p)'
    <2>1. op[p].src \cup op[p].dst = {}
      BY <1>1 DEF NoOp
    <2> QED
      BY <1>1, <2>1 DEF IInv, Local, LockMatchesLocation, OpShape, ChangeCovered,
                        InFlightKept, SweepSeesPins
  <1> QED
    BY <1>3, <1>5, <1>6, <1>7 DEF IInv

-----------------------------------------------------------------------------
(* The theorems                                                            *)

LEMMA InitIInv == Init => IInv
  <1> SUFFICES ASSUME Init PROVE IInv
    OBVIOUS
  <1>1. TypeOK
    BY NoOpType DEF Init, TypeOK, Location, Row, NoRow, HashOrNone
  <1>2. Exclusion /\ RowsConsistent
    BY DEF Init, Exclusion, RowsConsistent, NoRow
  <1>3. ReferencedSnapshotsKept /\ CapturedContentKept
    BY DEF Init, ReferencedSnapshotsKept, CapturedContentKept, Pinned, RefHashes, NonNull,
           LiveRowHashes, NoRow
  <1>4. ASSUME NEW p \in Proc
        PROVE  Local(p)
    BY DEF Init, Local, LockMatchesLocation, OpShape, ChangeCovered, InFlightKept,
           SweepSeesPins, NoOp, NoRow
  <1> QED
    BY <1>1, <1>2, <1>3, <1>4 DEF IInv

LEMMA NextIInv == IInv /\ [Next]_vars => IInv'
  <1> SUFFICES ASSUME IInv, [Next]_vars
               PROVE  IInv'
    OBVIOUS
  <1>1. ASSUME NEW p \in Proc, Live(p)
        PROVE  IInv'
    BY <1>1, StartSteps, PublishSteps, LiveCommitSteps DEF Live
  <1>2. ASSUME NEW p \in Proc, Scan(p)
        PROVE  IInv'
    BY <1>2, StartSteps, PublishSteps, CommitScanStep DEF Scan
  <1>3. ASSUME NEW p \in Proc, Plan(p)
        PROVE  IInv'
    BY <1>3, StartSteps, PublishSteps, SavePlanStep DEF Plan
  <1>4. ASSUME NEW p \in Proc, Prune(p)
        PROVE  IInv'
    BY <1>4, StartSteps, LockSteps, PruneSteps DEF Prune
  <1>5. ASSUME NEW p \in Proc, AcquireShared(p) \/ Stop(p)
        PROVE  IInv'
    BY <1>5, LockSteps, FinishStep DEF Stop
  <1>6. ASSUME NEW r \in recs, EndRecovery(r)
        PROVE  IInv'
    BY <1>6, EndRecoveryStep
  <1>7. CASE RetentionPasses
    BY <1>7, RetentionStep
  <1>8. CASE UNCHANGED vars
    <2>1. /\ UNCHANGED <<snaps, refs, rows, recs, readopted>>
          /\ UNCHANGED <<lock, pc, op>>
      BY <1>8 DEF vars
    <2>2. Covered' = Covered /\ Pinned' = Pinned /\ RowChangesCovered
      BY <2>1 DEF Covered, FreshHashes, Pinned, RefHashes, LiveRowHashes, RowChangesCovered
    <2>3. \A p \in Proc : Local(p)'
      BY <2>1, <2>2, OtherProcess DEF IInv
    <2>4. TypeOK' /\ Exclusion' /\ RowsConsistent'
      BY <2>1 DEF IInv, TypeOK, Exclusion, RowsConsistent
    <2>5. ReferencedSnapshotsKept' /\ CapturedContentKept'
      BY <2>1, <2>2 DEF IInv, ReferencedSnapshotsKept, CapturedContentKept
    <2> QED
      BY <2>3, <2>4, <2>5 DEF IInv
  <1> QED
    BY <1>1, <1>2, <1>3, <1>4, <1>5, <1>6, <1>7, <1>8 DEF Next

\* The inductive invariant holds in every reachable state.
THEOREM Invariance == Spec => []IInv
  BY InitIInv, NextIInv, PTL DEF Spec

\* Every reachable state has the declared types.
THEOREM TypeCorrect == Spec => []TypeOK
  <1>1. IInv => TypeOK
    BY DEF IInv
  <1> QED
    BY <1>1, Invariance, PTL

\* Whatever captures, scans, plans and prunes overlap, no snapshot that a
\* retained event, an existing file or a guarded plan refers to is missing,
\* but for contents a scan took over from a row marked deleted.
THEOREM ReferencesKept == Spec => []ReferencedSnapshotsKept
  <1>1. IInv => ReferencedSnapshotsKept
    BY DEF IInv
  <1> QED
    BY <1>1, Invariance, PTL

\* The content a retained event records as current is in the store: the
\* handlers and the scan publish it before the event's transaction.
THEOREM CapturedKept == Spec => []CapturedContentKept
  <1>1. IInv => CapturedContentKept
    BY DEF IInv
  <1> QED
    BY <1>1, Invariance, PTL

\* No prune removes a snapshot between its publication and the transaction
\* that refers to it: the promise of PublishGuard.
THEOREM PublishedKept == Spec => []PublishedUntilCommitted
  <1>1. IInv => PublishedUntilCommitted
    BY DEF IInv, Local, InFlightKept, PublishedUntilCommitted
  <1> QED
    BY <1>1, Invariance, PTL

=============================================================================
