------------------------------ MODULE Activity ------------------------------
(***************************************************************************)
(* activity.rs: groups of rapid changes (bursts) in the recorded history,  *)
(* what `undo panic` makes of the latest one, and the list of recent       *)
(* changes.                                                                *)
(***************************************************************************)
EXTENDS Restoring

CONSTANTS
  BurstGap,      \* more seconds than this between two events part them
  BurstEvents,   \* a group is a burst with so many events,
  BurstPaths,    \* so many paths
  BurstDeletes,  \* or so many deletions
  PanicWindow    \* seconds that panic looks back

ASSUME ActivityConstants ==
  {BurstGap, BurstEvents, BurstPaths, BurstDeletes, PanicWindow} \subseteq Nat

(* Chronological groups of ids: a new one starts after a gap.              *)
Opens(id, ids, gap) ==
  \A other \in ids : Before(other, id) => log[id].time - log[other].time > gap
SplitByGap(ids, gap) ==
  {{id \in ids : /\ ~Before(id, start)
                 /\ \A other \in ids : Opens(other, ids, gap) =>
                      ~(Before(start, other) /\ ~Before(id, other))}
     : start \in {id \in ids : Opens(id, ids, gap)}}

IsBurst(group) ==
  \/ Cardinality(group) >= BurstEvents
  \/ Cardinality({log[id].path : id \in group}) >= BurstPaths
  \/ Cardinality({id \in group : log[id].kind = "DELETED"}) >= BurstDeletes
Bursts(ids) == {group \in SplitByGap(ids, BurstGap) : IsBurst(group)}

EventsInScope(ids, scope) == {id \in ids : \E p \in scope : Touches(id, p)}
PanicSince == IF now > PanicWindow THEN now - PanicWindow ELSE 0
LatestBurst(scope) ==
  LET bursts == Bursts(EventsInScope(EventsSince(PanicSince), scope))
  IN IF bursts = {} THEN {}
     ELSE CHOOSE burst \in bursts : \A other \in bursts :
            log[Latter(other)].time <= log[Latter(burst)].time

(* undo panic --restore-before-latest-burst *)
TargetAtStart(burst) == log[First(burst)].time
PanicTarget(burst) == log[First(burst)].time - 1
Panic(scope) == TimestampRecovery(scope, PanicTarget(LatestBurst(scope)))

(* undo timeline: the newest first. *)
Newest(ids, limit) ==
  {id \in ids : Cardinality({other \in ids : Before(id, other)}) < limit}

(* The emergency restore undoes the whole latest burst in the folder, as   *)
(* far back as panic looks, and nothing that came before it: every file is *)
(* what it was just before the first event of the burst (activity.rs:191,  *)
(* one second before its start), whatever else fell into that second.      *)
PanicBefore ==
  up => \A scope \in Folder :
    LET burst == LatestBurst(scope)
        before == First(burst) - 1
    IN burst # {} /\ slips = 0 =>
         \A p \in scope :
           \/ Applied(Panic(scope))[p] = past[before][p]
           \/ Unclear(p, before) \/ Unrecorded(p, last)
============================================================================
