--------------------------- MODULE Recovery_proofs ---------------------------
(***************************************************************************)
(* Applying plans, for every set of appliers, plans, paths and contents:   *)
(* type correctness, that a settled plan stays settled, and that Recovery  *)
(* implements Vault.                                                       *)
(***************************************************************************)
EXTENDS Recovery, WellFoundedInduction, TLAPS

\* What an applier's location says of its local variables.
Fits(location, o) ==
    /\ location \in Location /\ o \in Op
    /\ location \in {"displaced", "discard"} <=> o.temp # {}
    /\ location # "idle" => \E id \in Plan : o.plan = {id}
    /\ location \in {"stage", "publish", "displaced", "discard"} => o.todo # {}
    /\ \A f, g \in o.temp : f = g
    /\ \A f \in o.temp : f.content # None

\* A displaced file is given up only when its backup is complete.
BackedUp(p) == pc[p] = "discard" => Abandoned(p) \subseteq backups

IInv ==
    /\ TypeOK
    /\ \A p \in Proc : Fits(pc[p], op[p]) /\ BackedUp(p)

-----------------------------------------------------------------------------
(* What the helpers return                                                 *)

\* A nonempty set of natural numbers has a least element.
LEMMA LeastNatural ==
    ASSUME NEW S \in SUBSET Nat, S # {}
    PROVE  \E x \in S : \A y \in S : x =< y
  <1> DEFINE Less == {ss \in Nat \X Nat : ss[1] < ss[2]}
  <1>1. IsWellFoundedOn(Less, Nat)
    BY NatLessThanWellFounded DEF OpToRel
  <1> HIDE DEF Less
  <1>2. PICK x \in S : \A y \in S : ~ (<<y, x>> \in Less)
    BY <1>1, WFMin
  <1>3. ASSUME NEW y \in S PROVE x =< y
    <2>1. x \in Nat /\ y \in Nat
      OBVIOUS
    <2>2. y < x => <<y, x>> \in Less
      BY <2>1 DEF Less
    <2>3. ~ (y < x)
      BY <1>2, <2>2
    <2> QED
      BY <2>1, <2>3
  <1> QED
    BY <1>3

\* The entry worked on is one of those ahead: a set of paths has a least one.
LEMMA EntryPathInTodo ==
    ASSUME IInv, NEW p \in Proc, op[p].todo # {}
    PROVE  EntryPath(p) \in op[p].todo /\ EntryPath(p) \in Path
  <1>1. op[p].todo \subseteq Path
    BY DEF IInv, TypeOK, Op
  <1>2. op[p].todo \in SUBSET Nat
    BY <1>1, PathAssumption
  <1>3. \E x \in op[p].todo : \A y \in op[p].todo : x =< y
    BY <1>2, LeastNatural
  <1> QED
    BY <1>1, <1>3 DEF EntryPath, Min

\* The plan of an applier that is under way.
LEMMA PlanOfType ==
    ASSUME IInv, NEW p \in Proc, pc[p] # "idle"
    PROVE  PlanOf(p) \in Recovery
  <1>1. PICK id \in Plan : op[p].plan = {id}
    BY DEF IInv, Fits
  <1>2. (CHOOSE i \in Plan : op[p].plan = {i}) \in Plan
    BY <1>1
  <1> QED
    BY <1>2 DEF PlanOf, IInv, TypeOK

LEMMA TargetType ==
    ASSUME IInv, NEW p \in Proc, pc[p] # "idle", op[p].todo # {}
    PROVE  Target(p) \in ContentOrNone
  BY EntryPathInTodo, PlanOfType DEF Target, Recovery

\* What lies under the temporary name while it is being looked at or removed.
LEMMA DisplacedType ==
    ASSUME IInv, NEW p \in Proc, op[p].temp # {}
    PROVE  /\ op[p].temp = {Displaced(p)}
           /\ Displaced(p) \in File
           /\ Displaced(p).content \in Thing
           /\ Displaced(p).content # None
  <1>1. op[p].temp \subseteq File
    BY DEF IInv, TypeOK, Op
  <1>2. PICK f \in op[p].temp : op[p].temp = {f}
    BY DEF IInv, Fits
  <1>3. f \in File /\ f.content # None
    BY <1>1, <1>2 DEF IInv, Fits
  <1>4. Displaced(p) = f
    BY <1>2, <1>3 DEF Displaced
  <1> QED
    BY <1>2, <1>3, <1>4 DEF File

\* Settling keeps plans well typed, and settled ones as they are.
LEMMA SettleType ==
    ASSUME TypeOK, NEW ids, NEW status \in Status
    PROVE  Settle(ids, status) \in [Plan -> Recovery]
  <1>1. ASSUME NEW id \in Plan
        PROVE  [plans[id] EXCEPT !.status = status] \in Recovery /\ plans[id] \in Recovery
    BY DEF TypeOK, Recovery
  <1> QED
    BY <1>1 DEF Settle

\* What an applier leaves behind is an entry's path and a thing.
LEMMA AbandonedType ==
    ASSUME IInv, NEW p \in Proc
    PROVE  Abandoned(p) \subseteq Path \X Thing
  <1>1. CASE op[p].temp = {}
    BY <1>1 DEF Abandoned
  <1>2. CASE op[p].temp # {}
    <2>1. op[p].todo # {}
      BY <1>2 DEF IInv, Fits
    <2> QED
      BY <1>2, <2>1, EntryPathInTodo, DisplacedType DEF Abandoned
  <1> QED
    BY <1>1, <1>2

-----------------------------------------------------------------------------
(* Initial states, and the shape every step of an applier has              *)

LEMMA Initially == Init => IInv
  <1> SUFFICES ASSUME Init PROVE IInv
    OBVIOUS
  <1>1. NoPlan \in Recovery
    BY DEF NoPlan, Recovery, Status, ContentOrNone
  <1>2. NoOp \in Op
    BY DEF NoOp, Op
  <1>3. disk \in [Path -> File]
    BY DEF Init, File, ContentOrNone, Thing
  <1>4. TypeOK
    BY <1>1, <1>2, <1>3, BoundAssumption DEF Init, TypeOK, Location, NoOp
  <1>5. ASSUME NEW p \in Proc PROVE Fits(pc[p], op[p]) /\ BackedUp(p)
    BY <1>2 DEF Init, Fits, BackedUp, Location, NoOp
  <1> QED
    BY <1>4, <1>5 DEF IInv

\* Everything but where the appliers are is well typed.
WorldOK ==
    /\ disk \in [Path -> File]
    /\ snaps \subseteq Content
    /\ plans \in [Plan -> Recovery]
    /\ backups \subseteq Path \X Content
    /\ leftovers \subseteq Path \X Thing
    /\ edits \in 0 .. MaxEdits /\ faults \in 0 .. MaxFaults
    /\ succeeded \subseteq Plan

\* A step that moves no applier and drops no backup.
LEMMA WorldStep ==
    ASSUME IInv, WorldOK', UNCHANGED <<pc, op>>, backups \subseteq backups'
    PROVE  IInv'
  <1>1. TypeOK'
    BY DEF IInv, TypeOK, WorldOK
  <1>2. ASSUME NEW p \in Proc PROVE Fits(pc[p], op[p])' /\ BackedUp(p)'
    BY DEF IInv, Fits, BackedUp, Abandoned, EntryPath
  <1> QED
    BY <1>1, <1>2 DEF IInv

\* A step of one applier, which arrives at location with locals o.
LEMMA ApplierStep ==
    ASSUME IInv, WorldOK', backups \subseteq backups',
           NEW p \in Proc, NEW location, NEW o, Fits(location, o),
           pc' = [pc EXCEPT ![p] = location],
           op' = [op EXCEPT ![p] = o],
           BackedUp(p)'
    PROVE  IInv'
  <1>1. pc \in [Proc -> Location] /\ op \in [Proc -> Op]
    BY DEF IInv, TypeOK
  <1>2. pc'[p] = location /\ op'[p] = o
    BY <1>1
  <1>3. ASSUME NEW r \in Proc, r # p
        PROVE  /\ pc'[r] = pc[r] /\ op'[r] = op[r]
               /\ Fits(pc[r], op[r])' /\ BackedUp(r)'
    <2>1. pc'[r] = pc[r] /\ op'[r] = op[r]
      BY <1>1, <1>3
    <2>2. Fits(pc[r], op[r]) /\ BackedUp(r)
      BY DEF IInv
    <2>3. Abandoned(r)' = Abandoned(r)
      BY <2>1 DEF Abandoned, EntryPath
    <2> QED
      BY <2>1, <2>2, <2>3 DEF Fits, BackedUp
  <1>4. \A r \in Proc : Fits(pc[r], op[r])' /\ BackedUp(r)'
    BY <1>2, <1>3 DEF Fits
  <1>5. \A r \in Proc : pc'[r] \in {"displaced", "discard"} <=> op'[r].temp # {}
    BY <1>4 DEF Fits
  <1>6. pc' \in [Proc -> Location] /\ op' \in [Proc -> Op]
    BY <1>1 DEF Fits
  <1>7. TypeOK'
    BY <1>5, <1>6 DEF TypeOK, WorldOK
  <1> QED
    BY <1>4, <1>7 DEF IInv

\* An applier that gives up or is done.
LEMMA LeaveStep ==
    ASSUME IInv, WorldOK', backups \subseteq backups', NEW p \in Proc, Leave(p)
    PROVE  IInv'
  <1>1. Fits("idle", NoOp)
    BY DEF Fits, NoOp, Op, Location
  <1>2. pc' = [pc EXCEPT ![p] = "idle"] /\ op' = [op EXCEPT ![p] = NoOp]
    BY DEF Leave, Goto
  <1>3. BackedUp(p)'
    BY <1>2 DEF BackedUp, IInv, TypeOK
  <1> QED
    BY <1>1, <1>2, <1>3, ApplierStep

\* An applier that moves on without touching its locals.
LEMMA GotoStep ==
    ASSUME IInv, WorldOK', backups \subseteq backups', NEW p \in Proc,
           NEW location, Goto(p, location), UNCHANGED op, Fits(location, op[p]),
           BackedUp(p)'
    PROVE  IInv'
  <1>1. op' = [op EXCEPT ![p] = op[p]]
    BY DEF IInv, TypeOK
  <1> QED
    BY <1>1, ApplierStep DEF Goto

LEMMA StoppedStep ==
    ASSUME IInv, NEW p \in Proc, Stopped(p), UNCHANGED <<disk, snaps, backups, edits, succeeded>>,
           faults' \in 0 .. MaxFaults
    PROVE  IInv'
  <1>1. "conflicted" \in Status
    BY DEF Status
  <1>2. WorldOK'
    BY <1>1, SettleType, AbandonedType DEF IInv, TypeOK, WorldOK, Stopped
  <1> QED
    BY <1>2, LeaveStep DEF Stopped

LEMMA NextEntryStep ==
    ASSUME IInv, WorldOK', backups \subseteq backups', NEW p \in Proc, NextEntry(p),
           pc[p] # "idle"
    PROVE  IInv'
  <1> DEFINE o == [NoOp EXCEPT !.plan = op[p].plan, !.todo = op[p].todo \ {EntryPath(p)}]
  <1>1. op[p] \in Op /\ \E id \in Plan : op[p].plan = {id}
    BY DEF IInv, Fits
  <1>2. o \in Op /\ o.plan = op[p].plan /\ o.temp = {}
    <2>1. NoOp \in Op /\ NoOp.temp = {}
      BY DEF NoOp, Op
    <2>2. op[p].plan \in SUBSET Plan /\ op[p].todo \ {EntryPath(p)} \in SUBSET Path
      BY <1>1 DEF Op
    <2> QED
      BY <2>1, <2>2 DEF Op
  <1>3. Fits("check", o)
    BY <1>1, <1>2 DEF Fits, Location
  <1>4. pc' = [pc EXCEPT ![p] = "check"] /\ op' = [op EXCEPT ![p] = o]
    BY DEF NextEntry, Goto
  <1>5. BackedUp(p)'
    BY <1>4 DEF BackedUp, IInv, TypeOK
  <1> HIDE DEF o
  <1> QED
    BY <1>3, <1>4, <1>5, ApplierStep

-----------------------------------------------------------------------------
(* Every action preserves the invariant                                    *)

\* Records of plans with one field changed, and new ones.
LEMMA ExpirePreserves ==
    ASSUME IInv, NEW id \in Plan, Expire(id)
    PROVE  IInv'
  <1>1. [plans[id] EXCEPT !.expired = TRUE] \in Recovery
    BY DEF IInv, TypeOK, Recovery
  <1>2. plans' \in [Plan -> Recovery]
    BY <1>1 DEF Expire, IInv, TypeOK
  <1>3. WorldOK'
    BY <1>2 DEF Expire, IInv, TypeOK, WorldOK
  <1> QED
    BY <1>3, WorldStep DEF Expire

LEMMA EditPreserves ==
    ASSUME IInv, NEW q \in Path, NEW x \in Thing \cup {None}, Edit(q, x)
    PROVE  IInv'
  <1>1. [content |-> x, by |-> {}] \in File
    BY DEF File
  <1>2. WorldOK'
    BY <1>1, BoundAssumption DEF Edit, IInv, TypeOK, WorldOK
  <1> QED
    BY <1>2, WorldStep DEF Edit

LEMMA PrunePreserves ==
    ASSUME IInv, NEW c \in Content, Prune(c)
    PROVE  IInv'
  <1>1. WorldOK'
    BY DEF Prune, IInv, TypeOK, WorldOK
  <1> QED
    BY <1>1, WorldStep DEF Prune

\* A new plan expects regular files only.
LEMMA CreatePlanPreserves ==
    ASSUME IInv, NEW id \in Plan, NEW paths \in SUBSET Path, NEW ambiguous \in BOOLEAN,
           NEW target \in [Path -> ContentOrNone], CreatePlan(id, paths, target, ambiguous)
    PROVE  IInv'
  <1> DEFINE entries == {q \in paths : target[q] # disk[q].content}
             targets == [q \in Path |-> IF q \in entries THEN target[q] ELSE None]
             expects == [q \in Path |-> IF q \in entries THEN disk[q].content ELSE None]
             new == [NoPlan EXCEPT !.status = "planned", !.ambiguous = ambiguous,
                       !.paths = entries, !.target = targets, !.expected = expects]
  <1>1. \A q \in entries : disk[q].content \in ContentOrNone
    BY DEF CreatePlan, IInv, TypeOK, File, Thing, ContentOrNone
  <1>2. targets \in [Path -> ContentOrNone] /\ expects \in [Path -> ContentOrNone]
    BY <1>1 DEF ContentOrNone
  <1>3. entries \in SUBSET Path
    OBVIOUS
  <1>4. NoPlan \in Recovery /\ "planned" \in Status
    BY DEF NoPlan, Recovery, Status, ContentOrNone
  <1>5. plans' = [plans EXCEPT ![id] = new]
    BY DEF CreatePlan
  <1> HIDE DEF entries, targets, expects
  <1>6. new \in Recovery
    BY <1>2, <1>3, <1>4 DEF Recovery
  <1>7. WorldOK'
    BY <1>5, <1>6 DEF CreatePlan, IInv, TypeOK, WorldOK
  <1> QED
    BY <1>7, WorldStep DEF CreatePlan

\* An applier starts with all entries of its plan ahead of it.
LEMMA StartFits ==
    ASSUME NEW id \in Plan, NEW paths \in SUBSET Path
    PROVE  Fits("preflight", [NoOp EXCEPT !.plan = {id}, !.todo = paths])
  <1> DEFINE o == [NoOp EXCEPT !.plan = {id}, !.todo = paths]
  <1>1. NoOp \in Op /\ NoOp.temp = {}
    BY DEF NoOp, Op
  <1>2. o \in Op /\ o.plan = {id} /\ o.temp = {}
    BY <1>1 DEF Op
  <1> QED
    BY <1>2 DEF Fits, Location

LEMMA BeginPreserves ==
    ASSUME IInv, NEW p \in Proc, NEW id \in Plan, Begin(p, id)
    PROVE  IInv'
  <1> DEFINE o == [NoOp EXCEPT !.plan = {id}, !.todo = plans[id].paths]
  <1>1. plans[id].paths \in SUBSET Path
    BY DEF IInv, TypeOK, Recovery
  <1>2. Fits("preflight", o)
    BY <1>1, StartFits
  <1>3. pc' = [pc EXCEPT ![p] = "preflight"] /\ op' = [op EXCEPT ![p] = o]
    BY DEF Begin, Goto
  <1>4. WorldOK' /\ backups' = backups
    BY DEF Begin, IInv, TypeOK, WorldOK
  <1>5. BackedUp(p)'
    BY <1>3 DEF BackedUp, IInv, TypeOK
  <1> HIDE DEF o
  <1> QED
    BY <1>2, <1>3, <1>4, <1>5, ApplierStep

LEMMA BeginSelectedPreserves ==
    ASSUME IInv, NEW p \in Proc, NEW source \in Plan, NEW id \in Plan,
           NEW paths \in SUBSET Path, BeginSelected(p, source, id, paths)
    PROVE  IInv'
  <1> DEFINE o == [NoOp EXCEPT !.plan = {id}, !.todo = paths]
             targets == [q \in Path |-> IF q \in paths THEN plans[source].target[q] ELSE None]
             expects == [q \in Path |-> IF q \in paths THEN plans[source].expected[q] ELSE None]
             new == [plans[source] EXCEPT !.paths = paths, !.target = targets,
                                          !.expected = expects]
  <1>1. plans[source] \in Recovery
    BY DEF IInv, TypeOK
  <1>2. targets \in [Path -> ContentOrNone] /\ expects \in [Path -> ContentOrNone]
    BY <1>1 DEF Recovery, ContentOrNone
  <1>3. plans' = [plans EXCEPT ![id] = new]
    BY DEF BeginSelected
  <1> HIDE DEF targets, expects
  <1>4. new \in Recovery
    BY <1>1, <1>2 DEF Recovery
  <1>5. WorldOK' /\ backups' = backups
    BY <1>3, <1>4 DEF BeginSelected, IInv, TypeOK, WorldOK
  <1>6. pc' = [pc EXCEPT ![p] = "preflight"] /\ op' = [op EXCEPT ![p] = o]
    BY DEF BeginSelected, Goto
  <1>7. BackedUp(p)'
    BY <1>6 DEF BackedUp, IInv, TypeOK
  <1> HIDE DEF o
  <1>8. Fits("preflight", o)
    BY StartFits DEF o
  <1> QED
    BY <1>5, <1>6, <1>7, <1>8, ApplierStep

LEMMA PreflightPreserves ==
    ASSUME IInv, NEW p \in Proc, Preflight(p)
    PROVE  IInv'
  <1>1. WorldOK'
    BY SettleType DEF Preflight, IInv, TypeOK, WorldOK, Status
  <1>2. backups' = backups
    BY DEF Preflight
  <1>3. CASE Leave(p)
    BY <1>1, <1>2, <1>3, LeaveStep
  <1>4. CASE Goto(p, "verify") /\ UNCHANGED op
    <2>1. Fits("verify", op[p])
      BY DEF Preflight, IInv, Fits, Location
    <2>2. BackedUp(p)'
      BY <1>4 DEF Goto, BackedUp, IInv, TypeOK
    <2> QED
      BY <1>1, <1>2, <1>4, <2>1, <2>2, GotoStep
  <1> QED
    BY <1>3, <1>4 DEF Preflight

LEMMA VerifyPreserves ==
    ASSUME IInv, NEW p \in Proc, Verify(p)
    PROVE  IInv'
  <1>1. CASE Goto(p, "check") /\ UNCHANGED <<op, plans, leftovers>>
    <2>1. WorldOK' /\ backups' = backups
      BY <1>1 DEF Verify, IInv, TypeOK, WorldOK
    <2>2. Fits("check", op[p])
      BY DEF Verify, IInv, Fits, Location
    <2>3. BackedUp(p)'
      BY <1>1 DEF Goto, BackedUp, IInv, TypeOK
    <2> QED
      BY <1>1, <2>1, <2>2, <2>3, GotoStep
  <1>2. CASE Stopped(p)
    BY <1>2, StoppedStep DEF Verify, IInv, TypeOK
  <1> QED
    BY <1>1, <1>2 DEF Verify

LEMMA CheckPreserves ==
    ASSUME IInv, NEW p \in Proc, Check(p)
    PROVE  IInv'
  <1>1. CASE Goto(p, "stage") /\ UNCHANGED <<op, plans, leftovers>>
    <2>1. WorldOK' /\ backups' = backups
      BY <1>1 DEF Check, IInv, TypeOK, WorldOK
    <2>2. Fits("stage", op[p])
      BY DEF Check, IInv, Fits, Location
    <2>3. BackedUp(p)'
      BY <1>1 DEF Goto, BackedUp, IInv, TypeOK
    <2> QED
      BY <1>1, <2>1, <2>2, <2>3, GotoStep
  <1>2. CASE Stopped(p)
    BY <1>2, StoppedStep DEF Check, IInv, TypeOK
  <1> QED
    BY <1>1, <1>2 DEF Check

LEMMA FinishPreserves ==
    ASSUME IInv, NEW p \in Proc, Finish(p)
    PROVE  IInv'
  <1>1. op[p].plan \subseteq Plan
    BY DEF IInv, TypeOK, Op
  <1>2. "applied" \in Status
    BY DEF Status
  <1>3. WorldOK'
    BY <1>1, <1>2, SettleType DEF Finish, IInv, TypeOK, WorldOK
  <1> QED
    BY <1>3, LeaveStep DEF Finish

LEMMA StagePreserves ==
    ASSUME IInv, NEW p \in Proc, Stage(p)
    PROVE  IInv'
  <1>1. CASE Stopped(p)
    BY <1>1, StoppedStep DEF Stage, IInv, TypeOK
  <1>2. CASE NextEntry(p) /\ UNCHANGED <<plans, leftovers>>
    <2>1. WorldOK' /\ backups' = backups
      BY <1>2 DEF Stage, IInv, TypeOK, WorldOK
    <2>2. pc[p] # "idle"
      BY DEF Stage
    <2> QED
      BY <1>2, <2>1, <2>2, NextEntryStep
  <1>3. CASE /\ op' = [op EXCEPT ![p].had = disk[EntryPath(p)].content # None]
             /\ Goto(p, "publish")
             /\ UNCHANGED <<plans, leftovers>>
    <2> DEFINE o == [op[p] EXCEPT !.had = disk[EntryPath(p)].content # None]
    <2>1. WorldOK' /\ backups' = backups
      BY <1>3 DEF Stage, IInv, TypeOK, WorldOK
    <2>2. op[p] \in Op
      BY DEF IInv, TypeOK
    <2>3. o \in Op /\ o.plan = op[p].plan /\ o.todo = op[p].todo /\ o.temp = op[p].temp
      BY <2>2 DEF Op
    <2>4. op' = [op EXCEPT ![p] = o]
      BY <1>3
    <2> HIDE DEF o
    <2>5. Fits("stage", op[p])
      BY DEF Stage, IInv
    <2>6. Fits("publish", o)
      BY <2>3, <2>5 DEF Fits, Location
    <2>7. BackedUp(p)'
      BY <1>3 DEF Goto, BackedUp, IInv, TypeOK
    <2> QED
      BY <1>3, <2>1, <2>4, <2>6, <2>7, ApplierStep DEF Goto
  <1> QED
    BY <1>1, <1>2, <1>3 DEF Stage

LEMMA PublishPreserves ==
    ASSUME IInv, NEW p \in Proc, Publish(p)
    PROVE  IInv'
  <1>1. pc[p] = "publish" /\ op[p].todo # {} /\ op[p].temp = {}
    BY DEF Publish, IInv, Fits
  <1>2. EntryPath(p) \in Path /\ Target(p) \in ContentOrNone
    BY <1>1, EntryPathInTodo, TargetType
  <1>3. New(p) \in File
    BY <1>2 DEF New, File, Thing, ContentOrNone
  <1>4. disk[EntryPath(p)] \in File
    BY <1>2 DEF IInv, TypeOK
  <1>5. CASE Stopped(p) /\ UNCHANGED disk
    BY <1>5, StoppedStep DEF Publish, IInv, TypeOK
  <1>6. CASE /\ disk[EntryPath(p)].content # None
             /\ disk' = [disk EXCEPT ![EntryPath(p)] = New(p)]
             /\ op' = [op EXCEPT ![p].temp = {disk[EntryPath(p)]}]
             /\ Goto(p, "displaced")
             /\ UNCHANGED <<plans, leftovers>>
    <2> DEFINE o == [op[p] EXCEPT !.temp = {disk[EntryPath(p)]}]
    <2>1. WorldOK' /\ backups' = backups
      BY <1>3, <1>6 DEF Publish, IInv, TypeOK, WorldOK
    <2>2. op[p] \in Op
      BY DEF IInv, TypeOK
    <2>3. /\ o \in Op /\ o.plan = op[p].plan /\ o.todo = op[p].todo
          /\ o.temp = {disk[EntryPath(p)]}
      BY <1>4, <2>2 DEF Op
    <2>4. op' = [op EXCEPT ![p] = o]
      BY <1>6
    <2> HIDE DEF o
    <2>5. Fits("publish", op[p])
      BY <1>1 DEF IInv
    <2>6. Fits("displaced", o)
      BY <1>6, <2>3, <2>5 DEF Fits, Location
    <2>7. BackedUp(p)'
      BY <1>6 DEF Goto, BackedUp, IInv, TypeOK
    <2> QED
      BY <1>6, <2>1, <2>4, <2>6, <2>7, ApplierStep DEF Goto
  <1>7. CASE /\ disk' = [disk EXCEPT ![EntryPath(p)] = New(p)]
             /\ NextEntry(p)
             /\ UNCHANGED <<plans, leftovers>>
    <2>1. WorldOK' /\ backups' = backups
      BY <1>3, <1>7 DEF Publish, IInv, TypeOK, WorldOK
    <2> QED
      BY <1>1, <1>7, <2>1, NextEntryStep
  <1> QED
    BY <1>5, <1>6, <1>7 DEF Publish

LEMMA PutBackPreserves ==
    ASSUME IInv, NEW p \in Proc, PutBack(p)
    PROVE  IInv'
  <1>1. pc[p] = "displaced" /\ op[p].todo # {} /\ op[p].temp # {}
    BY DEF PutBack, IInv, Fits
  <1>2. EntryPath(p) \in Path /\ Displaced(p) \in File
    BY <1>1, EntryPathInTodo, DisplacedType
  <1>3. disk' \in [Path -> File]
    BY <1>2 DEF PutBack, IInv, TypeOK
  <1>4. disk[EntryPath(p)].content # None => disk[EntryPath(p)].content \in Thing
    BY <1>2 DEF IInv, TypeOK, File
  <1>5. leftovers \subseteq Path \X Thing
    BY DEF IInv, TypeOK
  <1>6. leftovers' \subseteq Path \X Thing
    BY <1>2, <1>4, <1>5, AbandonedType DEF PutBack
  <1>7. plans' \in [Plan -> Recovery]
    BY SettleType DEF PutBack, IInv, Status
  <1>8. WorldOK'
    BY <1>3, <1>6, <1>7 DEF PutBack, IInv, TypeOK, WorldOK
  <1> QED
    BY <1>8, LeaveStep DEF PutBack

LEMMA BackupPreserves ==
    ASSUME IInv, NEW p \in Proc, Backup(p)
    PROVE  IInv'
  <1>1. pc[p] = "displaced" /\ op[p].todo # {} /\ op[p].temp # {}
    BY DEF Backup, IInv, Fits
  <1>2. EntryPath(p) \in Path /\ Displaced(p).content \in Content
    BY <1>1, EntryPathInTodo, DisplacedType DEF Backup, Thing
  <1>3. WorldOK' /\ backups \subseteq backups'
    BY <1>2 DEF Backup, StoreBackup, IInv, TypeOK, WorldOK
  <1>4. Fits("discard", op[p])
    BY <1>1 DEF IInv, Fits, Location
  <1>5. Abandoned(p)' = Abandoned(p)
    BY DEF Backup, Abandoned, EntryPath
  <1>6. Abandoned(p) = {<<EntryPath(p), Displaced(p).content>>}
    BY <1>1, DisplacedType DEF Abandoned
  <1>7. BackedUp(p)'
    BY <1>5, <1>6 DEF BackedUp, Backup, StoreBackup
  <1> QED
    BY <1>3, <1>4, <1>7, GotoStep DEF Backup

LEMMA DiscardPreserves ==
    ASSUME IInv, NEW p \in Proc, Discard(p)
    PROVE  IInv'
  <1>1. WorldOK'
    BY DEF Discard, IInv, TypeOK, WorldOK
  <1> QED
    BY <1>1, NextEntryStep DEF Discard

LEMMA IoErrorPreserves ==
    ASSUME IInv, NEW p \in Proc, IoError(p)
    PROVE  IInv'
  <1>1. faults' \in 0 .. MaxFaults
    BY BoundAssumption DEF IoError, IInv, TypeOK
  <1> QED
    BY <1>1, StoppedStep DEF IoError

LEMMA CrashPreserves ==
    ASSUME IInv, NEW p \in Proc, Crash(p)
    PROVE  IInv'
  <1>1. WorldOK'
    BY BoundAssumption, AbandonedType DEF Crash, IInv, TypeOK, WorldOK
  <1> QED
    BY <1>1, LeaveStep DEF Crash

LEMMA NextPreserves == IInv /\ [Next]_vars => IInv'
  <1> SUFFICES ASSUME IInv, [Next]_vars PROVE IInv'
    OBVIOUS
  <1>1. CASE UNCHANGED vars
    <2>1. WorldOK' /\ UNCHANGED <<pc, op, backups>>
      BY <1>1 DEF vars, IInv, TypeOK, WorldOK
    <2> QED
      BY <2>1, WorldStep
  <1>2. CASE \E q \in Path, x \in Thing \cup {None} : Edit(q, x)
    BY <1>2, EditPreserves
  <1>3. CASE \E id \in Plan : Expire(id)
    BY <1>3, ExpirePreserves
  <1>4. CASE \E c \in Content : Prune(c)
    BY <1>4, PrunePreserves
  <1>5. CASE \E id \in Plan, paths \in SUBSET Path, ambiguous \in BOOLEAN :
               \E target \in [Path -> ContentOrNone] : CreatePlan(id, paths, target, ambiguous)
    BY <1>5, CreatePlanPreserves
  <1>6. CASE \E p \in Proc, id \in Plan : Begin(p, id)
    BY <1>6, BeginPreserves
  <1>7. CASE \E p \in Proc, source, id \in Plan, paths \in SUBSET Path :
               BeginSelected(p, source, id, paths)
    BY <1>7, BeginSelectedPreserves
  <1>8. CASE \E p \in Proc : Applier(p) \/ IoError(p) \/ Crash(p)
    BY <1>8, PreflightPreserves, VerifyPreserves, CheckPreserves, FinishPreserves,
       StagePreserves, PublishPreserves, PutBackPreserves, BackupPreserves,
       DiscardPreserves, IoErrorPreserves, CrashPreserves DEF Applier
  <1> QED
    BY <1>1, <1>2, <1>3, <1>4, <1>5, <1>6, <1>7, <1>8 DEF Next

\* Where an applier is says what it holds, for any number of them.
THEOREM Invariance == Spec => []IInv
  BY Initially, NextPreserves, PTL DEF Spec

\* Every reachable state is well typed; in particular an applier holds a
\* displaced file exactly while it decides about it or backs it up.
THEOREM TypeCorrect == Spec => []TypeOK
  <1>1. IInv => TypeOK
    BY DEF IInv
  <1> QED
    BY <1>1, Invariance, PTL

-----------------------------------------------------------------------------
(* Settled plans                                                           *)

SettledKept ==
    \A id \in Plan : plans[id].status \in {"applied", "conflicted"} =>
                       plans'[id].status = plans[id].status

LEMMA SettleKeepsSettled ==
    ASSUME NEW ids, NEW status, plans' = Settle(ids, status)
    PROVE  SettledKept
  <1>1. ASSUME NEW id \in Plan, plans[id].status \in {"applied", "conflicted"}
        PROVE  plans'[id] = plans[id]
    BY <1>1 DEF Settle
  <1> QED
    BY <1>1 DEF SettledKept

LEMMA NextKeepsSettled == IInv /\ Next => SettledKept
  <1> SUFFICES ASSUME IInv, Next PROVE SettledKept
    OBVIOUS
  <1>1. plans \in [Plan -> Recovery]
    BY DEF IInv, TypeOK
  <1>2. ASSUME NEW id \in Plan, Expire(id) PROVE SettledKept
    BY <1>1, <1>2 DEF Expire, SettledKept, Recovery
  <1>3. ASSUME NEW id \in Plan, plans[id].status = "none",
               \A i \in Plan \ {id} : plans'[i] = plans[i]
        PROVE  SettledKept
    BY <1>3 DEF SettledKept
  <1>4. ASSUME NEW id \in Plan, NEW paths \in SUBSET Path, NEW ambiguous \in BOOLEAN,
               NEW target \in [Path -> ContentOrNone], CreatePlan(id, paths, target, ambiguous)
        PROVE  SettledKept
    BY <1>1, <1>3, <1>4 DEF CreatePlan
  <1>5. ASSUME NEW p \in Proc, NEW source \in Plan, NEW id \in Plan,
               NEW paths \in SUBSET Path, BeginSelected(p, source, id, paths)
        PROVE  SettledKept
    BY <1>1, <1>3, <1>5 DEF BeginSelected
  <1>6. ASSUME UNCHANGED plans PROVE SettledKept
    BY <1>6 DEF SettledKept
  <1>7. ASSUME NEW p \in Proc, Preflight(p) \/ Finish(p) \/ PutBack(p)
        PROVE  SettledKept
    BY <1>6, <1>7, SettleKeepsSettled DEF Preflight, Finish, PutBack
  <1>8. ASSUME NEW p \in Proc, Stopped(p) PROVE SettledKept
    BY <1>8, SettleKeepsSettled DEF Stopped
  <1>9. ASSUME NEW p \in Proc,
               \/ Verify(p) \/ Check(p) \/ Stage(p) \/ Publish(p)
               \/ Backup(p) \/ Discard(p) \/ IoError(p) \/ Crash(p)
        PROVE  SettledKept
    BY <1>6, <1>8, <1>9 DEF Verify, Check, Stage, Publish, Backup, Discard, IoError, Crash
  <1>10. ASSUME NEW q \in Path, NEW x \in Thing \cup {None}, Edit(q, x) PROVE SettledKept
    BY <1>6, <1>10 DEF Edit
  <1>11. ASSUME NEW c \in Content, Prune(c) PROVE SettledKept
    BY <1>6, <1>11 DEF Prune
  <1>12. ASSUME NEW p \in Proc, NEW id \in Plan, Begin(p, id) PROVE SettledKept
    BY <1>6, <1>12 DEF Begin
  <1> QED
    BY <1>2, <1>4, <1>5, <1>7, <1>9, <1>10, <1>11, <1>12 DEF Next, Applier

\* A plan that was applied or found in conflict stays so, whatever other
\* appliers of it are still doing (mark_recovery_applied and
\* mark_recovery_conflicted).
THEOREM SettledStays == Spec => SettledForGood
  <1>1. IInv /\ [Next]_vars => [SettledKept]_vars
    BY NextKeepsSettled
  <1>2. Spec => [][SettledKept]_vars
    BY <1>1, Invariance, PTL DEF Spec
  <1> QED
    BY <1>2 DEF SettledForGood, SettledKept

-----------------------------------------------------------------------------
(* Recovery implements Vault                                               *)

There == [q \in Path |-> disk[q].content]
Own == {q \in Path : disk[q].by # {}}

LEMMA VaultInit == Init => V!Init
  <1> SUFFICES ASSUME Init PROVE V!Init
    OBVIOUS
  <1>1. There \in [Path -> Thing \cup {None}]
    BY DEF Init, There, ContentOrNone, Thing
  <1>2. Own = {}
    BY DEF Init, Own
  <1>3. \A p \in Proc : Abandoned(p) = {}
    BY DEF Init, Abandoned, NoOp
  <1>4. KeptAside = {}
    BY <1>3 DEF KeptAside, Init
  <1> QED
    BY <1>1, <1>2, <1>4 DEF V!Init, There, Own, Init

\* What is kept aside grows if what one applier accounts for does.
LEMMA KeptGrows ==
    ASSUME NEW p \in Proc, NEW gone,
           \A r \in Proc \ {p} : op'[r] = op[r],
           backups \cup leftovers \cup Abandoned(p)
             \subseteq backups' \cup leftovers' \cup Abandoned(p)' \cup gone,
           backups \subseteq backups', leftovers \subseteq leftovers'
    PROVE  KeptAside \subseteq KeptAside' \cup gone
  <1>1. \A r \in Proc \ {p} : Abandoned(r)' = Abandoned(r)
    BY DEF Abandoned, EntryPath
  <1>2. ASSUME NEW k \in KeptAside PROVE k \in KeptAside' \cup gone
    <2>1. CASE k \in backups \cup leftovers \cup Abandoned(p)
      BY <2>1 DEF KeptAside
    <2>2. CASE \E r \in Proc \ {p} : k \in Abandoned(r)
      BY <1>1, <2>2 DEF KeptAside
    <2> QED
      BY <2>1, <2>2 DEF KeptAside
  <1> QED
    BY <1>2

\* A step that changes no file and gives up nothing that was kept.
LEMMA KeepStep ==
    ASSUME UNCHANGED <<disk, edits>>, KeptAside \subseteq KeptAside'
    PROVE  V!Next
  <1>1. V!Keep
    BY DEF V!Keep
  <1> QED
    BY <1>1 DEF V!Next

\* A step that puts something else at one path.
LEMMA PutStep ==
    ASSUME IInv, NEW q \in Path, NEW f \in File,
           disk' = [disk EXCEPT ![q] = f], edits' = edits,
           KeptAside \subseteq KeptAside' \cup {<<q, f.content>>},
           disk[q].content # None /\ disk[q].by = {} => <<q, disk[q].content>> \in KeptAside'
    PROVE  V!Next
  <1>1. disk \in [Path -> File]
    BY DEF IInv, TypeOK
  <1>2. There' = [There EXCEPT ![q] = f.content]
    BY <1>1 DEF There
  <1>3. Own' \ {q} = Own \ {q}
    BY <1>1 DEF Own
  <1>4. There[q] # None /\ q \notin Own => <<q, There[q]>> \in KeptAside'
    BY DEF There, Own
  <1>5. V!Put(q, f.content)
    BY <1>2, <1>3, <1>4 DEF V!Put, There, Own
  <1>6. f.content \in Thing \cup {None}
    BY DEF File
  <1> QED
    BY <1>5, <1>6 DEF V!Next

LEMMA VaultStopped ==
    ASSUME IInv, NEW p \in Proc, Leave(p), leftovers' = leftovers \cup Abandoned(p),
           UNCHANGED <<disk, backups, edits>>
    PROVE  V!Next
  <1>1. \A r \in Proc \ {p} : op'[r] = op[r]
    BY DEF Leave, IInv, TypeOK
  <1>2. KeptAside \subseteq KeptAside' \cup {}
    BY <1>1, KeptGrows
  <1> QED
    BY <1>2, KeepStep

\* What an applier holds in memory only is of no account.
LEMMA VaultUnmoved ==
    ASSUME IInv, NEW p \in Proc, NEW o, op' = [op EXCEPT ![p] = o],
           Abandoned(p) \subseteq backups', leftovers \subseteq leftovers',
           backups \subseteq backups', UNCHANGED <<disk, edits>>
    PROVE  V!Next
  <1>1. \A r \in Proc \ {p} : op'[r] = op[r]
    BY DEF IInv, TypeOK
  <1>2. KeptAside \subseteq KeptAside' \cup {}
    BY <1>1, KeptGrows
  <1> QED
    BY <1>2, KeepStep

\* Steps that touch neither files nor what is kept, nor any applier.
LEMMA VaultStutter ==
    ASSUME UNCHANGED <<disk, backups, leftovers, op, edits>>
    PROVE  V!Next
  <1>1. \A r \in Proc : Abandoned(r)' = Abandoned(r)
    BY DEF Abandoned, EntryPath
  <1>2. KeptAside' = KeptAside
    BY <1>1 DEF KeptAside
  <1> QED
    BY <1>2, KeepStep

LEMMA VaultEdit ==
    ASSUME IInv, NEW q \in Path, NEW x \in Thing \cup {None}, Edit(q, x)
    PROVE  V!Next
  <1>1. disk \in [Path -> File]
    BY DEF IInv, TypeOK
  <1>2. There' = [There EXCEPT ![q] = x]
    BY <1>1 DEF Edit, There
  <1>3. Own' = Own \ {q}
    BY <1>1 DEF Edit, Own
  <1>4. \A r \in Proc : Abandoned(r)' = Abandoned(r)
    BY DEF Edit, Abandoned, EntryPath
  <1>5. KeptAside' = KeptAside
    BY <1>4 DEF Edit, KeptAside
  <1>6. V!Edit(q, x)
    BY <1>2, <1>3, <1>5 DEF V!Edit, Edit, There, Own
  <1> QED
    BY <1>6 DEF V!Next

\* An applier that has displaced nothing has nothing to give up.
LEMMA NothingDisplaced ==
    ASSUME IInv, NEW p \in Proc, pc[p] \notin {"displaced", "discard"}
    PROVE  Abandoned(p) = {}
  BY DEF IInv, TypeOK, Abandoned

LEMMA VaultBegin ==
    ASSUME IInv, NEW p \in Proc, NEW source \in Plan, NEW id \in Plan, NEW paths \in SUBSET Path,
           Begin(p, id) \/ BeginSelected(p, source, id, paths)
    PROVE  V!Next
  <1>1. Abandoned(p) = {}
    BY NothingDisplaced DEF Begin, BeginSelected
  <1> QED
    BY <1>1, VaultUnmoved DEF Begin, BeginSelected

LEMMA VaultCheck ==
    ASSUME IInv, NEW p \in Proc, Preflight(p) \/ Verify(p) \/ Check(p) \/ Finish(p)
    PROVE  V!Next
  <1>1. Abandoned(p) = {}
    BY NothingDisplaced DEF Preflight, Verify, Check, Finish
  <1>2. UNCHANGED <<disk, backups, edits>>
    BY DEF Preflight, Verify, Check, Finish
  <1>3. CASE UNCHANGED <<op, leftovers>>
    BY <1>2, <1>3, VaultStutter
  <1>4. CASE Leave(p) /\ UNCHANGED leftovers
    BY <1>1, <1>2, <1>4, VaultStopped
  <1>5. CASE Stopped(p)
    BY <1>2, <1>5, VaultStopped DEF Stopped
  <1> QED
    BY <1>3, <1>4, <1>5 DEF Preflight, Verify, Check, Finish

LEMMA VaultNextEntry ==
    ASSUME IInv, NEW p \in Proc, NextEntry(p), Abandoned(p) \subseteq backups,
           UNCHANGED <<disk, backups, leftovers, edits>>
    PROVE  V!Next
  BY VaultUnmoved DEF NextEntry

LEMMA VaultStage ==
    ASSUME IInv, NEW p \in Proc, Stage(p)
    PROVE  V!Next
  <1>1. Abandoned(p) = {}
    BY NothingDisplaced DEF Stage
  <1>2. UNCHANGED <<disk, backups, edits>>
    BY DEF Stage
  <1>3. CASE Stopped(p)
    BY <1>2, <1>3, VaultStopped DEF Stopped
  <1>4. CASE NextEntry(p) /\ UNCHANGED leftovers
    BY <1>1, <1>2, <1>4, VaultNextEntry
  <1>5. CASE /\ op' = [op EXCEPT ![p].had = disk[EntryPath(p)].content # None]
             /\ UNCHANGED leftovers
    <2>1. op' = [op EXCEPT ![p] = [op[p] EXCEPT !.had = disk[EntryPath(p)].content # None]]
      BY <1>5
    <2> QED
      BY <1>1, <1>2, <1>5, <2>1, VaultUnmoved
  <1> QED
    BY <1>3, <1>4, <1>5 DEF Stage

LEMMA VaultPublish ==
    ASSUME IInv, NEW p \in Proc, Publish(p)
    PROVE  V!Next
  <1> DEFINE q == EntryPath(p)
  <1>1. pc[p] = "publish" /\ op[p].todo # {}
    BY DEF Publish, IInv, Fits
  <1>2. Abandoned(p) = {}
    BY <1>1, NothingDisplaced
  <1>3. q \in Path /\ Target(p) \in ContentOrNone
    BY <1>1, EntryPathInTodo, TargetType
  <1>4. New(p) \in File /\ New(p).content = Target(p)
    BY <1>3 DEF New, File, Thing, ContentOrNone
  <1>5. UNCHANGED <<backups, edits>>
    BY DEF Publish
  <1>6. CASE Stopped(p) /\ UNCHANGED disk
    BY <1>5, <1>6, VaultStopped DEF Stopped
  <1>7. CASE /\ disk' = [disk EXCEPT ![q] = New(p)]
             /\ op' = [op EXCEPT ![p].temp = {disk[q]}]
             /\ UNCHANGED leftovers
    <2>1. /\ \A r \in Proc \ {p} : op'[r] = op[r]
          /\ op'[p].temp = {disk[q]} /\ op'[p].todo = op[p].todo
      BY <1>7 DEF IInv, TypeOK, Op
    <2>2. EntryPath(p)' = q
      BY <2>1 DEF EntryPath
    <2>3. Abandoned(p)' = {<<q, disk[q].content>>}
      BY <2>1, <2>2 DEF Abandoned
    <2>4. KeptAside \subseteq KeptAside' \cup {}
      BY <1>2, <1>5, <1>7, <2>1, KeptGrows
    <2>5. <<q, disk[q].content>> \in KeptAside'
      BY <2>3 DEF KeptAside
    <2> HIDE DEF q
    <2> QED
      BY <1>3, <1>4, <1>5, <1>7, <2>4, <2>5, PutStep
  <1>8. CASE /\ disk[q].content = None
             /\ disk' = [disk EXCEPT ![q] = New(p)]
             /\ NextEntry(p)
             /\ UNCHANGED leftovers
    <2>1. \A r \in Proc \ {p} : op'[r] = op[r]
      BY <1>8 DEF NextEntry, IInv, TypeOK
    <2>2. KeptAside \subseteq KeptAside' \cup {}
      BY <1>2, <1>5, <1>8, <2>1, KeptGrows
    <2> HIDE DEF q
    <2> QED
      BY <1>3, <1>4, <1>5, <1>8, <2>2, PutStep
  <1> QED
    BY <1>6, <1>7, <1>8 DEF Publish

\* Undoing an exchange puts the displaced thing back, which is then no longer
\* kept, and keeps what had taken its place unless the applier staged it.
LEMMA VaultPutBack ==
    ASSUME IInv, NEW p \in Proc, PutBack(p)
    PROVE  V!Next
  <1> DEFINE q == EntryPath(p)
             back == disk[q]
  <1>1. pc[p] = "displaced" /\ op[p].todo # {} /\ op[p].temp # {}
    BY DEF PutBack, IInv, Fits
  <1>2. q \in Path /\ Displaced(p) \in File /\ op[p].temp = {Displaced(p)}
    BY <1>1, EntryPathInTodo, DisplacedType
  <1>3. Abandoned(p) = {<<q, Displaced(p).content>>}
    BY <1>2 DEF Abandoned
  <1>4. Leave(p) /\ UNCHANGED <<backups, edits>>
    BY DEF PutBack
  <1>5. \A r \in Proc \ {p} : op'[r] = op[r]
    BY <1>4 DEF Leave, IInv, TypeOK
  <1>6. CASE leftovers' = leftovers \cup Abandoned(p) /\ UNCHANGED disk
    BY <1>4, <1>6, VaultStopped
  <1>7. CASE /\ disk' = [disk EXCEPT ![q] = Displaced(p)]
             /\ leftovers \subseteq leftovers'
             /\ back.content # None /\ back.by = {} => <<q, back.content>> \in leftovers'
    <2>1. KeptAside \subseteq KeptAside' \cup {<<q, Displaced(p).content>>}
      BY <1>3, <1>4, <1>5, <1>7, KeptGrows
    <2>2. back.content # None /\ back.by = {} => <<q, back.content>> \in KeptAside'
      BY <1>7 DEF KeptAside
    <2> HIDE DEF q
    <2> QED
      BY <1>2, <1>4, <1>7, <2>1, <2>2, PutStep
  <1> QED
    BY <1>6, <1>7 DEF PutBack, Removable

LEMMA VaultBackup ==
    ASSUME IInv, NEW p \in Proc, Backup(p)
    PROVE  V!Next
  <1>1. Abandoned(p)' = Abandoned(p) /\ \A r \in Proc \ {p} : op'[r] = op[r]
    BY DEF Backup, Abandoned, EntryPath
  <1>2. KeptAside \subseteq KeptAside' \cup {}
    BY <1>1, KeptGrows DEF Backup, StoreBackup
  <1> QED
    BY <1>2, KeepStep DEF Backup

LEMMA VaultDiscard ==
    ASSUME IInv, NEW p \in Proc, Discard(p)
    PROVE  V!Next
  <1>1. Abandoned(p) \subseteq backups
    BY DEF Discard, IInv, BackedUp
  <1> QED
    BY <1>1, VaultNextEntry DEF Discard

LEMMA VaultFailure ==
    ASSUME IInv, NEW p \in Proc, IoError(p) \/ Crash(p)
    PROVE  V!Next
  BY VaultStopped DEF IoError, Crash, Stopped

LEMMA VaultStep == IInv /\ [Next]_vars => [V!Next]_(V!vars)
  <1> SUFFICES ASSUME IInv, Next PROVE V!Next
    <2>1. UNCHANGED vars => UNCHANGED V!vars
      <3> SUFFICES ASSUME UNCHANGED vars PROVE UNCHANGED V!vars
        OBVIOUS
      <3>1. \A r \in Proc : Abandoned(r)' = Abandoned(r)
        BY DEF vars, Abandoned, EntryPath
      <3>2. KeptAside' = KeptAside
        BY <3>1 DEF vars, KeptAside
      <3> QED
        BY <3>2 DEF vars, V!vars
    <2> QED
      BY <2>1
  <1>1. ASSUME NEW id \in Plan, Expire(id) PROVE V!Next
    BY <1>1, VaultStutter DEF Expire
  <1>2. ASSUME NEW c \in Content, Prune(c) PROVE V!Next
    BY <1>2, VaultStutter DEF Prune
  <1>3. ASSUME NEW id \in Plan, NEW paths \in SUBSET Path, NEW ambiguous \in BOOLEAN,
               NEW target \in [Path -> ContentOrNone], CreatePlan(id, paths, target, ambiguous)
        PROVE  V!Next
    BY <1>3, VaultStutter DEF CreatePlan
  <1>4. ASSUME NEW p \in Proc, NEW id \in Plan, Begin(p, id) PROVE V!Next
    BY <1>4, VaultBegin
  <1> QED
    BY <1>1, <1>2, <1>3, <1>4, VaultEdit, VaultBegin, VaultCheck, VaultStage, VaultPublish,
       VaultPutBack, VaultBackup, VaultDiscard, VaultFailure DEF Next, Applier

\* Appliers lose nothing: Recovery implements Vault.
THEOREM ImplementsVault == Spec => LosesNothing
  <1>1. Spec => V!Init /\ [][V!Next]_(V!vars)
    BY VaultInit, VaultStep, Invariance, PTL DEF Spec
  <1> QED
    BY <1>1 DEF LosesNothing, V!Spec

=============================================================================
